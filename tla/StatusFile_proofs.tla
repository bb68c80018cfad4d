------------------------- MODULE StatusFile_proofs -------------------------
(***************************************************************************)
(* Proofs about StatusFile, for any number of attempts and any bounds.     *)
(***************************************************************************)
EXTENDS StatusFile, LockedFile_proofs

Paired(record) == (record.phase = "parked") <=> (record.parked_state # "none")
ValidRecords == {record \in Records : Paired(record)}

TickUpdateCalls ==
  {Update("parked", "failed"), Update("done", "none"), Update("parked", "needs-decision")}
Quiet == {Heartbeat(now) : now \in 0..MaxClock} \cup {LoadStatus}

LEMMA CallsAreStatusCalls ==
  /\ Calls = StatusCalls
  /\ TickUpdateCalls \cup Quiet \subseteq Calls /\ Backstop \in TickUpdateCalls
  /\ \A c \in Calls, v \in Versions : Effect[c][v] = EffectOn(c, v)
  /\ Versions = Records \cup {Absent, Torn}
<1>1. /\ Calls = StatusCalls /\ Versions = StatusVersions /\ Effect = StatusEffect
  BY StatusAssumption
<1>2. TickUpdateCalls \subseteq Updates
  BY DEF TickUpdateCalls, Updates, Phases, ParkedStates
<1>3. Quiet \subseteq StatusCalls
  BY DEF Quiet, StatusCalls
<1>4. Backstop \in TickUpdateCalls
  BY DEF Backstop, TickUpdateCalls
<1> QED
  BY <1>1, <1>2, <1>3, <1>4 DEF StatusCalls, StatusEffect, StatusVersions

(* A record that is given out was validated.                               *)
LEMMA ValidatedIsPaired ==
  ASSUME NEW record \in Records
  PROVE  Validated(record) = IF Paired(record) THEN record ELSE Refused
BY DEF Validated, Paired

LEMMA UpdateEffect ==
  ASSUME NEW v \in Records,
         NEW phase \in Phases \cup {"unset"}, NEW park \in ParkedStates \cup {"unset"}
  PROVE  LET c == Update(phase, park)
             r == [v EXCEPT !.phase = Set(c.phase, @),
                            !.parked_state = Set(c.parked_state, @)]
         IN  /\ r \in Records /\ c.op = "update"
             /\ r.phase = Set(phase, v.phase)
             /\ r.parked_state = Set(park, v.parked_state)
BY DEF Update, Set, Records, Phases, ParkedStates

LEMMA InitEffect ==
  ASSUME NEW a \in 1..MaxAttempts, NEW now \in 0..MaxClock
  PROVE  NewStatus(a, now) \in ValidRecords
BY DEF NewStatus, ValidRecords, Records, Paired, Phases, ParkedStates

LEMMA UpdateIsValid ==
  ASSUME NEW v \in ValidRecords,
         NEW phase \in Phases \cup {"unset"}, NEW park \in ParkedStates \cup {"unset"}
  PROVE  LET made == EffectOn(Update(phase, park), v) IN
           /\ made \in ValidRecords \cup {Refused}
           /\ made # Refused => /\ made.phase = Set(phase, v.phase)
                               /\ made.parked_state = Set(park, v.parked_state)
                               /\ made.attempt = v.attempt
                               /\ made.last_heartbeat = v.last_heartbeat
           /\ ((Set(phase, v.phase) = "parked") <=> (Set(park, v.parked_state) # "none"))
                => made # Refused
<1> DEFINE c == Update(phase, park)
           r == [v EXCEPT !.phase = Set(c.phase, @),
                          !.parked_state = Set(c.parked_state, @)]
<1>1. /\ r \in Records /\ c.op = "update"
      /\ r.phase = Set(phase, v.phase) /\ r.parked_state = Set(park, v.parked_state)
  BY UpdateEffect DEF ValidRecords
<1>0. r.attempt = v.attempt /\ r.last_heartbeat = v.last_heartbeat
  BY DEF ValidRecords, Records
<1>2. v \in Records /\ Validated(v) = v /\ v # Refused
  BY ValidatedIsPaired, StatusBounds DEF ValidRecords
<1>3. Changed(v, c) = Validated(r)
  BY <1>1 DEF Changed
<1>4. EffectOn(c, v) = Validated(r)
  BY <1>1, <1>2, <1>3 DEF EffectOn
<1> HIDE DEF c, r
<1>5. Validated(r) = IF Paired(r) THEN r ELSE Refused
  BY <1>1, ValidatedIsPaired
<1>6. r # Refused
  BY <1>1, StatusBounds
<1>7. /\ EffectOn(c, v) \in ValidRecords \cup {Refused}
      /\ EffectOn(c, v) # Refused => /\ EffectOn(c, v).phase = Set(phase, v.phase)
                                    /\ EffectOn(c, v).parked_state = Set(park, v.parked_state)
                                    /\ EffectOn(c, v).attempt = v.attempt
                                    /\ EffectOn(c, v).last_heartbeat = v.last_heartbeat
      /\ ((Set(phase, v.phase) = "parked") <=> (Set(park, v.parked_state) # "none"))
           => EffectOn(c, v) # Refused
  BY <1>0, <1>1, <1>4, <1>5, <1>6 DEF ValidRecords, Paired
<1> QED
  BY <1>7 DEF c

(* What a tick or the backstop writes is a park or done, and not refused.  *)
LEMMA TickEffect ==
  ASSUME NEW c \in TickUpdateCalls, NEW v \in ValidRecords
  PROVE  Effect[c][v] \in ValidRecords /\ Effect[c][v].phase \in {"parked", "done"}
<1>1. PICK phase \in {"parked", "done"}, park \in ParkedStates :
        /\ c = Update(phase, park)
        /\ (phase = "parked") <=> (park # "none")
  BY DEF TickUpdateCalls, ParkedStates
<1>2. Set(phase, v.phase) = phase /\ Set(park, v.parked_state) = park
  BY <1>1 DEF Set, ParkedStates
<1>3. EffectOn(c, v) \in ValidRecords /\ EffectOn(c, v).phase = phase
  <2>1. phase \in Phases \cup {"unset"} /\ park \in ParkedStates \cup {"unset"}
    BY <1>1 DEF Phases
  <2>2. LET made == EffectOn(Update(phase, park), v) IN
          /\ made \in ValidRecords \cup {Refused}
          /\ made # Refused => made.phase = Set(phase, v.phase)
          /\ ((Set(phase, v.phase) = "parked") <=> (Set(park, v.parked_state) # "none"))
               => made # Refused
    BY <2>1, UpdateIsValid
  <2> QED
    BY <1>1, <1>2, <2>2
<1> QED
  BY <1>3, CallsAreStatusCalls DEF ValidRecords

(* Heartbeats and loads leave the phase alone.                             *)
LEMMA QuietEffect ==
  ASSUME NEW c \in Quiet, NEW v \in ValidRecords
  PROVE  Effect[c][v] \in ValidRecords /\ Effect[c][v].phase = v.phase
<1>1. v \in Records /\ Validated(v) = v /\ v # Refused /\ v \in Versions
  BY ValidatedIsPaired, StatusBounds, CallsAreStatusCalls DEF ValidRecords
<1>2. CASE c = LoadStatus
  <2>1. EffectOn(c, v) = v
    BY <1>1, <1>2 DEF EffectOn, Changed, LoadStatus
  <2> QED
    BY <1>1, <2>1, CallsAreStatusCalls
<1>3. CASE \E now \in 0..MaxClock : c = Heartbeat(now)
  <2>1. PICK now \in 0..MaxClock : c = Heartbeat(now)
    BY <1>3
  <2>2. c.op = "heartbeat" /\ c.now = now
    BY <2>1 DEF Heartbeat
  <2>3. EffectOn(c, v) = [v EXCEPT !.last_heartbeat = now]
    BY <1>1, <2>2 DEF EffectOn, Changed
  <2>4. [v EXCEPT !.last_heartbeat = now] \in ValidRecords
        /\ [v EXCEPT !.last_heartbeat = now].phase = v.phase
    BY <1>1 DEF ValidRecords, Records, Paired
  <2> QED
    BY <1>1, <2>3, <2>4, CallsAreStatusCalls
<1> QED
  BY <1>2, <1>3 DEF Quiet

(* Any call leaves a valid record, or is refused.                          *)
LEMMA AnyEffect ==
  ASSUME NEW c \in Calls, NEW v \in ValidRecords \cup {Absent}
  PROVE  /\ Effect[c][v] \in ValidRecords \cup {Refused}
         /\ c \in Initialisations => Effect[c][v] \in ValidRecords
<1>0. v \in Versions /\ Effect[c][v] = EffectOn(c, v)
  BY CallsAreStatusCalls DEF ValidRecords
<1>1. CASE c \in Initialisations
  <2>1. PICK a \in 1..MaxAttempts, now \in 0..MaxClock : c = Initialise(a, now)
    BY <1>1 DEF Initialisations
  <2>2. EffectOn(c, v) = Validated(NewStatus(a, now))
    BY <2>1 DEF EffectOn, Initialise
  <2> QED
    BY <1>0, <2>2, InitEffect, ValidatedIsPaired DEF ValidRecords
<1>2. CASE c \notin Initialisations /\ v = Absent
  <2>1. c.op # "init"
    BY <1>2, CallsAreStatusCalls
       DEF StatusCalls, Updates, Update, Heartbeat, AddWorker, LoadStatus
  <2> QED
    BY <1>0, <1>2, <2>1, StatusBounds DEF EffectOn
<1>3. CASE c \notin Initialisations /\ v \in ValidRecords
  <2>1. CASE c \in Updates
    BY <1>0, <1>3, <2>1, UpdateIsValid DEF Updates
  <2>2. CASE c \in Quiet
    BY <1>3, <2>2, QuietEffect
  <2>3. CASE c = AddWorker
    <3>1. v \in Records /\ Validated(v) = v /\ v # Refused
      BY <1>3, ValidatedIsPaired, StatusBounds DEF ValidRecords
    <3>2. EffectOn(c, v) = [v EXCEPT !.worker_roster = @ \cup {"worker"}]
      BY <2>3, <3>1 DEF EffectOn, Changed, AddWorker
    <3>3. [v EXCEPT !.worker_roster = @ \cup {"worker"}] \in ValidRecords
      BY <1>3 DEF ValidRecords, Records, Paired
    <3> QED
      BY <1>0, <1>3, <3>2, <3>3
  <2> QED
    BY <1>3, <2>1, <2>2, <2>3, CallsAreStatusCalls DEF StatusCalls, Quiet
<1> QED
  BY <1>1, <1>2, <1>3

-----------------------------------------------------------------------------
(* The script: who may be in which call while the wrapper is where.        *)

Settled == file \in Records /\ file.phase \in {"parked", "done"}
Answered(p) == job[p].step \in {"unlocking", "returning"}

ScriptInv ==
  /\ command \in Seq(Calls) /\ clock \in 0..MaxClock /\ runner \in Runners
  /\ file \in ValidRecords \cup {Absent}
  /\ job["heartbeat"].call \in Quiet \cup {NoCall}
  /\ job["tick"].call \in TickUpdateCalls \cup Quiet \cup {NoCall}
  /\ runner \in Gone =>
       command = <<>> /\ \A p \in RunnerProcesses : job[p].step = "idle"
  /\ runner = "initialising" =>
       /\ command = <<>> /\ job["agent"].step = "idle" /\ job["heartbeat"].step = "idle"
       /\ job["wrapper"].call \in Initialisations
       /\ Answered("wrapper") => file \in Records
  /\ runner \in {"running", "over"} => job["wrapper"].step = "idle"
  /\ runner \in {"over", "backstop"} => command = <<>> /\ job["agent"].step = "idle"
  /\ runner = "backstop" =>
       job["wrapper"].call = Backstop /\ (Answered("wrapper") => Settled)
  /\ runner \in {"running", "over", "backstop", "exited"} => file \in Records
  /\ runner = "exited" => Settled

SInv == IInv /\ ScriptInv

LEMMA Names ==
  /\ Processes = RunnerProcesses \cup {"tick"}
  /\ RunnerProcesses = {"wrapper", "heartbeat", "agent"}
  /\ Gone \subseteq Runners
BY StatusAssumption DEF StatusProcesses, RunnerProcesses, Gone, Runners

(* Where a process is after it goes on.                                    *)
LEMMA Arrives ==
  ASSUME TypeOK, NEW p \in Processes, NEW step \in Steps
  PROVE  /\ Goes(p, step) => job'[p].step = step
         /\ \A made \in Versions \cup {Refused} : Makes(p, step, made) => job'[p].step = step
<1>1. ASSUME Goes(p, step) PROVE job'[p].step = step
  <2>1. job'[p] = [step |-> step, call |-> job[p].call, made |-> job[p].made]
    BY <1>1, OneGoes
  <2> QED
    BY <2>1
<1>2. ASSUME NEW made \in Versions \cup {Refused}, Makes(p, step, made)
      PROVE  job'[p].step = step
  <2>1. job'[p] = [step |-> step, call |-> job[p].call, made |-> made]
    BY <1>2, OneMade
  <2> QED
    BY <2>1
<1> QED
  BY <1>1, <1>2

(* What a step of the protocol does to the calls and to the file.          *)
LEMMA ProtocolMoves ==
  ASSUME SInv, NEW p \in Processes, Proceed(p)
  PROVE  /\ \A q \in Processes : job'[q].call = job[q].call
         /\ \A q \in Processes : q # p => job'[q] = job[q]
         /\ job[p].step # "idle" /\ job'[p].step # "idle" /\ job[p].call \in Calls
         /\ \/ UNCHANGED file
            \/ /\ file' = Effect[job[p].call][file] /\ file' \in ValidRecords
               /\ ~ Answered(p) /\ Answered(p)'
         /\ Answered(p) => Answered(p)' /\ UNCHANGED file
<1> USE DEF SInv
<1>0. TypeOK /\ LockInv /\ job[p].step # "idle"
  BY DEF IInv, Proceed, Load, Lock, Read, Open, Fill, Replace, Unlock, At
<1>1. job[p].call \in Calls /\ Made(p) \in Versions \cup {Refused}
  BY <1>0, MadeType
<1>2. PICK step \in Steps \ {"idle"}, made \in Versions \cup {Refused, NoAnswer} :
        Makes(p, step, made)
  BY <1>0, <1>1 DEF Proceed, Load, Lock, Read, Open, Fill, Replace, Unlock, Goes, Steps, TypeOK
<1>3. /\ job'[p] = [step |-> step, call |-> job[p].call, made |-> made]
      /\ \A q \in Processes : q # p => job'[q] = job[q]
  BY <1>0, <1>2, OneMade
<1>4. CASE Replace(p)
  <2>1. /\ file' = Made(p) /\ Made(p) # Refused
        /\ job[p].step = "replacing" /\ job'[p].step = "unlocking"
    BY <1>0, <1>4, Arrives DEF Replace, At, LockInv, Steps
  <2>2. Made(p) \in ValidRecords
    BY <1>1, <2>1, AnyEffect DEF Made, ScriptInv
  <2> QED
    BY <1>0, <1>1, <1>3, <2>1, <2>2 DEF Made, Answered
<1>5. CASE ~ Replace(p)
  <2>1. UNCHANGED file
    BY <1>5 DEF Proceed, Load, Lock, Read, Open, Fill, Unlock
  <2>2. ASSUME Answered(p) PROVE Answered(p)'
    <3>1. Unlock(p)
      BY <1>5, <2>2 DEF Proceed, Load, Lock, Read, Open, Fill, At, Answered
    <3>2. job'[p].step = "returning"
      BY <1>0, <3>1, Arrives DEF Unlock, Steps
    <3> QED
      BY <3>2 DEF Answered
  <2> QED
    BY <1>0, <1>1, <1>3, <2>1, <2>2
<1> QED
  BY <1>4, <1>5

(* A call that writes and cannot be refused is answered by its rename.     *)
LEMMA AnsweredByRename ==
  ASSUME SInv, NEW p \in Processes, Proceed(p), ~ Answered(p), Answered(p)',
         \/ job[p].call \in Initialisations
         \/ job[p].call = Backstop /\ file \in Records
  PROVE  file' = Effect[job[p].call][file] /\ file' \in ValidRecords
<1> USE DEF SInv
<1>1. /\ TypeOK /\ LockInv /\ job[p].call \in Calls
      /\ file \in ValidRecords \cup {Absent}
  BY ProtocolMoves DEF IInv, ScriptInv
<1>2. job[p].call \notin Loads \cup Skips
  BY StatusAssumption DEF Initialisations, Initialise, Backstop, Update, LoadStatus, AddWorker
<1>3. Made(p) \in ValidRecords /\ Made(p) # Refused
  <2>1. CASE job[p].call \in Initialisations
    BY <1>1, <2>1, AnyEffect, StatusBounds DEF Made, ValidRecords
  <2>2. CASE job[p].call = Backstop /\ file \in Records
    BY <1>1, <2>2, TickEffect, CallsAreStatusCalls, StatusBounds DEF Made, ValidRecords
  <2> QED
    BY <2>1, <2>2
<1>4. ~ Load(p)
  BY <1>1, <1>2 DEF Load, At, LockInv
<1>5. ~ Lock(p)
  <2>1. Lock(p) => Goes(p, "reading") \/ Makes(p, "opening", Made(p))
    BY <1>3 DEF Lock
  <2>2. Goes(p, "reading") => job'[p].step = "reading"
    BY <1>1, Arrives DEF Steps
  <2>3. Makes(p, "opening", Made(p)) => job'[p].step = "opening"
    BY <1>1, <1>3, CallsAreStatusCalls, Arrives DEF Steps, ValidRecords
  <2> QED
    BY <2>1, <2>2, <2>3 DEF Answered
<1>6. ~ Read(p)
  <2>1. Read(p) => Makes(p, "opening", Made(p))
    BY <1>2, <1>3 DEF Read
  <2>2. Makes(p, "opening", Made(p)) => job'[p].step = "opening"
    BY <1>1, <1>3, CallsAreStatusCalls, Arrives DEF Steps, ValidRecords
  <2> QED
    BY <2>1, <2>2 DEF Answered
<1>7. ~ (Open(p) \/ Fill(p) \/ Unlock(p))
  <2>1. Goes(p, "filling") => job'[p].step = "filling"
    BY <1>1, Arrives DEF Steps
  <2>2. Goes(p, "replacing") => job'[p].step = "replacing"
    BY <1>1, Arrives DEF Steps
  <2> QED
    BY <2>1, <2>2 DEF Open, Fill, Unlock, At, Answered
<1>8. Replace(p)
  BY <1>4, <1>5, <1>6, <1>7 DEF Proceed
<1>9. file' = Made(p)
  BY <1>1, <1>8 DEF Replace, At, LockInv
<1> QED
  BY <1>3, <1>9 DEF Made

LEMMA AgentCommandsAreCalls == AgentCommands \subseteq Seq(Calls) \ {<<>>}
<1>1. /\ Update("tdd", "unset") \in Calls /\ Update("parked", "needs-decision") \in Calls
      /\ Update("tdd", "none") \in Calls /\ Update("parked", "unset") \in Calls
      /\ AddWorker \in Calls
  BY CallsAreStatusCalls DEF StatusCalls, Updates, Phases, ParkedStates
<1>2. \A c, d \in Calls : <<c>> \in Seq(Calls) \ {<<>>} /\ <<c, d>> \in Seq(Calls) \ {<<>>}
  OBVIOUS
<1> QED
  BY <1>1, <1>2 DEF AgentCommands

LEMMA InitSInv == StatusInit => SInv
<1> SUFFICES ASSUME StatusInit PROVE SInv
  OBVIOUS
<1>1. IInv
  BY InitIInv DEF StatusInit
<1>2. \A p \in Processes : job[p].step = "idle" /\ job[p].call = NoCall
  BY DEF StatusInit, Init, Idle
<1>3. ScriptInv
  BY <1>2, Names, StatusBounds DEF StatusInit, ScriptInv, Runners, Gone
<1> QED
  BY <1>1, <1>3 DEF SInv

(* Every step of the script is a step of the protocol, or none.            *)
LEMMA StatusStep == SInv /\ [StatusNext]_statusVars => [Next]_vars
<1> SUFFICES ASSUME SInv, [StatusNext]_statusVars PROVE [Next]_vars
  OBVIOUS
<1>0. /\ {"wrapper", "heartbeat", "agent", "tick"} \subseteq Processes
      /\ RunnerProcesses \in SUBSET Processes /\ {"tick"} \in SUBSET Processes
      /\ command \in Seq(Calls) /\ clock \in 0..MaxClock
      /\ file \in ValidRecords \cup {Absent}
  BY Names DEF SInv, ScriptInv
<1>1. /\ \A p \in Processes, c \in Calls : Invoke(p, c) => Next
      /\ \A p \in Processes : Return(p) => Next
      /\ \A dead \in SUBSET Processes : Die(dead) => Next
  BY DEF Next
<1>2. CASE UNCHANGED statusVars
  BY <1>2 DEF statusVars
<1>3. CASE ClockTicks \/ AgentEnds
  BY <1>3 DEF ClockTicks, AgentEnds
<1>4. CASE \E p \in Processes : Protocol(p)
  BY <1>4 DEF Protocol, Next
<1>5. CASE Launch
  <2>1. PICK a \in Nat : a >= 1 /\ a <= MaxAttempts /\ Invoke("wrapper", Initialise(a, clock))
    BY <1>0, <1>5, StatusBounds DEF Launch, ValidRecords, Records
  <2>2. Initialise(a, clock) \in Calls
    BY <1>0, <2>1, StatusBounds, CallsAreStatusCalls DEF StatusCalls, Initialisations
  <2> QED
    BY <1>0, <1>1, <2>1, <2>2
<1>6. CASE Beat
  <2>1. Heartbeat(clock) \in Calls
    BY <1>0, CallsAreStatusCalls DEF StatusCalls
  <2> QED
    BY <1>0, <1>1, <1>6, <2>1 DEF Beat
<1>7. CASE Initialised \/ BeatReturns \/ AgentReturns \/ TickReturns
  BY <1>0, <1>1, <1>7 DEF Initialised, BeatReturns, AgentReturns, TickReturns
<1>8. CASE ReadPhase
  BY <1>0, <1>1, <1>8, CallsAreStatusCalls DEF ReadPhase, Exit, CallBackstop
<1>9. CASE BackstopReturns \/ Killed \/ TickEnds
  BY <1>0, <1>1, <1>9 DEF BackstopReturns, Killed, Exit, TickEnds
<1>10. CASE BeginCommand
  <2>1. PICK c \in AgentCommands : Invoke("agent", Head(c))
    BY <1>10 DEF BeginCommand
  <2>2. c \in Seq(Calls) /\ c # <<>>
    BY AgentCommandsAreCalls
  <2> QED
    BY <1>0, <1>1, <2>1, <2>2
<1>11. CASE NextCall
  BY <1>0, <1>1, <1>11 DEF NextCall
<1>12. CASE TickLoads \/ TickUpdates
  BY <1>0, <1>1, <1>12, CallsAreStatusCalls
     DEF TickLoads, TickUpdates, TickUpdateCalls, Quiet
<1> QED
  BY <1>2, <1>3, <1>4, <1>5, <1>6, <1>7, <1>8, <1>9, <1>10, <1>11, <1>12
     DEF StatusNext, WrapperNext, AgentNext, TickNext

LEMMA InvokeOne ==
  ASSUME SInv, NEW p \in Processes, NEW c \in Calls, Invoke(p, c)
  PROVE  /\ job'[p].call = c /\ job'[p].step # "idle" /\ ~ Answered(p)' /\ file' = file
         /\ \A q \in Processes : q # p => job'[q] = job[q]
<1>1. Begun(c) \in Jobs /\ Begun(c).call = c /\ Begun(c).step \in {"loading", "waiting"}
  BY DEF Begun, Jobs, Steps
<1>2. job'[p] = Begun(c) /\ file' = file /\ \A q \in Processes : q # p => job'[q] = job[q]
  BY <1>1, OneJob DEF Invoke, SInv, IInv
<1> QED
  BY <1>1, <1>2 DEF Answered

LEMMA DieThose ==
  ASSUME SInv, NEW dead \in SUBSET Processes, Die(dead)
  PROVE  /\ \A q \in dead : job'[q].step = "idle" /\ job'[q].call = NoCall
         /\ \A q \in Processes \ dead : job'[q] = job[q]
         /\ file' = file
BY DEF Die, Idle

LEMMA ReturnOne ==
  ASSUME SInv, NEW p \in Processes, Return(p)
  PROVE  /\ job'[p].step = "idle" /\ job'[p].call = NoCall /\ file' = file
         /\ \A q \in Processes : q # p => job'[q] = job[q]
         /\ job[p].step = "returning"
<1>1. Idle \in Jobs
  BY DEF Idle, Jobs, Steps
<1> QED
  BY <1>1, OneJob DEF Return, At, Idle, SInv, IInv

(* A step of the protocol keeps what the script relies on: whoever may     *)
(* write while the wrapper is where it is leaves the phase it must.        *)
LEMMA ProtocolKeepsScript ==
  ASSUME SInv, NEW p \in Processes, Protocol(p)
  PROVE  ScriptInv'
<1>0. Proceed(p) /\ UNCHANGED script /\ ScriptInv
  BY DEF Protocol, SInv
<1>1. /\ \A q \in Processes : job'[q].call = job[q].call
      /\ \A q \in Processes : q # p => job'[q] = job[q]
      /\ job[p].step # "idle" /\ job'[p].step # "idle" /\ job[p].call \in Calls
      /\ \/ UNCHANGED file
         \/ /\ file' = Effect[job[p].call][file] /\ file' \in ValidRecords
            /\ ~ Answered(p) /\ Answered(p)'
      /\ Answered(p) => Answered(p)' /\ UNCHANGED file
  BY <1>0, ProtocolMoves
<1>2. {"wrapper", "heartbeat", "agent", "tick"} = Processes
  BY Names
<1>3. file' \in Records \/ UNCHANGED file
  BY <1>1 DEF ValidRecords
<1>4. NoCall \notin Calls
  BY NothingsAssumption
<1>5. ASSUME p \in {"heartbeat", "tick"}, file \in Records, Settled
      PROVE  Settled'
  <2>1. job[p].call \in TickUpdateCalls \cup Quiet /\ file \in ValidRecords
    BY <1>0, <1>1, <1>4, <1>5, StatusBounds DEF ScriptInv
  <2>2. CASE job[p].call \in TickUpdateCalls
    BY <1>1, <1>5, <2>1, <2>2, TickEffect DEF Settled, ValidRecords
  <2>3. CASE job[p].call \in Quiet
    BY <1>1, <1>5, <2>1, <2>3, QuietEffect DEF Settled, ValidRecords
  <2> QED
    BY <2>1, <2>2, <2>3
<1>6. ASSUME runner = "exited" PROVE Settled'
  <2>1. p = "tick" /\ Settled
    BY <1>0, <1>1, <1>2, <1>6, Names DEF ScriptInv, Gone
  <2> QED
    BY <1>5, <2>1 DEF Settled
<1>7. ASSUME runner = "backstop", Answered("wrapper")' PROVE Settled'
  <2>1. p # "agent" /\ job["wrapper"].call = Backstop /\ file \in Records
    BY <1>0, <1>1, <1>7 DEF ScriptInv
  <2>2. CASE Answered("wrapper")
    <3>1. Settled
      BY <1>0, <1>7, <2>2 DEF ScriptInv
    <3>2. CASE p = "wrapper"
      BY <1>1, <2>2, <3>1, <3>2 DEF Settled
    <3> QED
      BY <1>2, <1>5, <2>1, <3>1, <3>2
  <2>3. CASE ~ Answered("wrapper")
    <3>1. p = "wrapper"
      BY <1>1, <1>2, <1>7, <2>3 DEF Answered
    <3>2. file' = Effect[Backstop][file]
      BY <1>0, <1>7, <2>1, <2>3, <3>1, AnsweredByRename
    <3>3. file \in ValidRecords /\ Backstop \in TickUpdateCalls
      BY <1>0, <2>1, StatusBounds, CallsAreStatusCalls DEF ScriptInv
    <3> QED
      BY <3>2, <3>3, TickEffect DEF Settled, ValidRecords
  <2> QED
    BY <2>2, <2>3
<1>8. ASSUME runner = "initialising", Answered("wrapper")' PROVE file' \in Records
  <2>1. CASE Answered("wrapper")
    BY <1>0, <1>3, <1>8, <2>1 DEF ScriptInv
  <2>2. CASE ~ Answered("wrapper")
    <3>1. p = "wrapper" /\ job[p].call \in Initialisations
      BY <1>0, <1>1, <1>2, <1>8, <2>2 DEF Answered, ScriptInv
    <3> QED
      BY <1>0, <1>8, <2>2, <3>1, AnsweredByRename DEF ValidRecords
  <2> QED
    BY <2>1, <2>2
<1>9. /\ command' = command /\ clock' = clock /\ runner' = runner
      /\ \A q \in Processes : job[q].step = "idle" => job'[q] = job[q]
  BY <1>0, <1>1 DEF script
<1>10. /\ runner = "initialising" =>
            /\ command = <<>> /\ job'["agent"].step = "idle" /\ job'["heartbeat"].step = "idle"
            /\ job'["wrapper"].call \in Initialisations
       /\ runner \in Gone =>
            command = <<>> /\ \A q \in RunnerProcesses : job'[q].step = "idle"
       /\ runner \in {"running", "over"} => job'["wrapper"].step = "idle"
       /\ runner \in {"over", "backstop"} => command = <<>> /\ job'["agent"].step = "idle"
       /\ runner = "backstop" => job'["wrapper"].call = Backstop
       /\ runner \in {"running", "over", "backstop", "exited"} => file' \in Records
       /\ file' \in ValidRecords \cup {Absent}
       /\ job'["heartbeat"].call \in Quiet \cup {NoCall}
       /\ job'["tick"].call \in TickUpdateCalls \cup Quiet \cup {NoCall}
       /\ command \in Seq(Calls) /\ clock \in 0..MaxClock /\ runner \in Runners
  BY <1>0, <1>1, <1>2, <1>3, <1>9, Names DEF ScriptInv
<1> QED
  BY <1>6, <1>7, <1>8, <1>9, <1>10 DEF ScriptInv

LEMMA ScriptStep == SInv /\ [StatusNext]_statusVars => ScriptInv'
<1> SUFFICES ASSUME SInv, [StatusNext]_statusVars PROVE ScriptInv'
  OBVIOUS
<1>0. /\ {"wrapper", "heartbeat", "agent", "tick"} = Processes
      /\ RunnerProcesses = {"wrapper", "heartbeat", "agent"}
      /\ ScriptInv /\ NoCall \notin Calls /\ LockInv
  BY Names, NothingsAssumption DEF SInv, IInv
<1>1. CASE UNCHANGED statusVars
  BY <1>0, <1>1 DEF statusVars, vars, script, ScriptInv, Answered, Settled
<1>2. CASE ClockTicks
  BY <1>0, <1>2, StatusBounds DEF ClockTicks, vars, ScriptInv, Answered, Settled
<1>3. CASE AgentEnds
  BY <1>0, <1>3 DEF AgentEnds, vars, At, ScriptInv, Answered, Settled, Gone, Runners
<1>4. CASE \E p \in Processes : Protocol(p)
  BY <1>4, ProtocolKeepsScript
<1>5. CASE Launch
  <2>1. PICK a \in Nat : a >= 1 /\ a <= MaxAttempts /\ Invoke("wrapper", Initialise(a, clock))
    BY <1>0, <1>5, StatusBounds DEF Launch, ValidRecords, Records, ScriptInv
  <2>2. Initialise(a, clock) \in Initialisations
    BY <1>0, <2>1, StatusBounds DEF Initialisations, ScriptInv
  <2>3. Initialise(a, clock) \in Calls
    BY <2>2, CallsAreStatusCalls DEF StatusCalls
  <2>4. /\ job'["wrapper"].call \in Initialisations /\ ~ Answered("wrapper")'
        /\ file' = file
        /\ \A q \in Processes : q # "wrapper" => job'[q] = job[q]
    BY <1>0, <2>1, <2>2, <2>3, InvokeOne
  <2> QED
    BY <1>0, <1>5, <2>4 DEF Launch, ScriptInv, Gone, Runners
<1>6. CASE Initialised
  <2>1. /\ job'["wrapper"].step = "idle" /\ file' = file /\ job["wrapper"].step = "returning"
        /\ \A q \in Processes : q # "wrapper" => job'[q] = job[q]
    BY <1>0, <1>6, ReturnOne DEF Initialised
  <2> QED
    BY <1>0, <1>6, <2>1 DEF Initialised, ScriptInv, Answered, Gone, Runners
<1>7. CASE Beat
  <2>1. Heartbeat(clock) \in Quiet /\ Heartbeat(clock) \in Calls
    BY <1>0, CallsAreStatusCalls DEF Quiet, ScriptInv
  <2>2. /\ job'["heartbeat"].call \in Quiet /\ file' = file
        /\ \A q \in Processes : q # "heartbeat" => job'[q] = job[q]
    BY <1>0, <1>7, <2>1, InvokeOne DEF Beat
  <2> QED
    BY <1>0, <1>7, <2>2 DEF Beat, script, ScriptInv, Answered, Settled, Gone
<1>8. CASE BeatReturns
  <2>1. /\ job'["heartbeat"].step = "idle" /\ job'["heartbeat"].call = NoCall /\ file' = file
        /\ \A q \in Processes : q # "heartbeat" => job'[q] = job[q]
    BY <1>0, <1>8, ReturnOne DEF BeatReturns
  <2> QED
    BY <1>0, <1>8, <2>1 DEF BeatReturns, script, ScriptInv, Answered, Settled
<1>9. ASSUME NEW state \in {"exited", "killed"}, Exit(state), state = "exited" => Settled
      PROVE  ScriptInv'
  <2>1. /\ \A q \in RunnerProcesses : job'[q].step = "idle" /\ job'[q].call = NoCall
        /\ job'["tick"] = job["tick"] /\ file' = file
    BY <1>0, <1>9, DieThose DEF Exit
  <2>2. state = "exited" => file' \in Records /\ Settled'
    BY <1>9, <2>1 DEF Settled
  <2> QED
    BY <1>0, <1>9, <2>1, <2>2 DEF Exit, ScriptInv, Gone, Runners
<1>10. CASE ReadPhase
  <2>1. CASE file \in Records /\ file.phase \in {"parked", "done"}
    BY <1>9, <1>10, <2>1 DEF ReadPhase, Settled
  <2>2. CASE ~ (file \in Records /\ file.phase \in {"parked", "done"})
    <3>1. CallBackstop
      BY <1>10, <2>2 DEF ReadPhase
    <3>2. /\ job'["wrapper"].call = Backstop /\ ~ Answered("wrapper")' /\ file' = file
          /\ \A q \in Processes : q # "wrapper" => job'[q] = job[q]
      BY <1>0, <3>1, InvokeOne, CallsAreStatusCalls DEF CallBackstop
    <3> QED
      BY <1>0, <3>1, <3>2 DEF CallBackstop, ScriptInv, Gone, Runners
  <2> QED
    BY <2>1, <2>2
<1>11. CASE BackstopReturns
  BY <1>0, <1>9, <1>11 DEF BackstopReturns, ScriptInv, Answered, At
<1>12. CASE Killed
  BY <1>9, <1>12 DEF Killed
<1>13. CASE BeginCommand \/ NextCall
  <2>1. PICK c \in Calls, rest \in Seq(Calls) :
          /\ Invoke("agent", c) /\ command' = rest
          /\ runner' = runner /\ clock' = clock
    <3>1. CASE BeginCommand
      <4>1. PICK whole \in AgentCommands :
              Invoke("agent", Head(whole)) /\ command' = Tail(whole)
        BY <3>1 DEF BeginCommand
      <4>2. whole \in Seq(Calls) /\ whole # <<>>
        BY AgentCommandsAreCalls
      <4>3. Head(whole) \in Calls /\ Tail(whole) \in Seq(Calls)
        BY <4>2
      <4> QED
        BY <3>1, <4>1, <4>3 DEF BeginCommand
    <3>2. CASE NextCall
      <4>1. Head(command) \in Calls /\ Tail(command) \in Seq(Calls)
        BY <1>0, <3>2 DEF NextCall, ScriptInv
      <4> QED
        BY <3>2, <4>1 DEF NextCall
    <3> QED
      BY <1>13, <3>1, <3>2
  <2>2. runner = "running"
    BY <1>0, <1>13 DEF BeginCommand, NextCall, ScriptInv, Runners, Gone
  <2>3. file' = file /\ \A q \in Processes : q # "agent" => job'[q] = job[q]
    BY <1>0, <2>1, InvokeOne
  <2> QED
    BY <1>0, <2>1, <2>2, <2>3 DEF ScriptInv, Gone, Runners
<1>14. CASE AgentReturns
  <2>1. /\ job'["agent"].step = "idle" /\ file' = file /\ job["agent"].step = "returning"
        /\ \A q \in Processes : q # "agent" => job'[q] = job[q]
    BY <1>0, <1>14, ReturnOne DEF AgentReturns
  <2>2. runner = "running" /\ command' \in Seq(Calls)
    BY <1>0, <1>14, <2>1 DEF AgentReturns, ScriptInv, Runners, Gone
  <2> QED
    BY <1>0, <1>14, <2>1, <2>2 DEF AgentReturns, ScriptInv, Gone
<1>15. CASE TickLoads \/ TickUpdates
  <2>1. PICK c \in TickUpdateCalls \cup Quiet : Invoke("tick", c)
    BY <1>15 DEF TickLoads, TickUpdates, TickUpdateCalls, Quiet
  <2>2. /\ job'["tick"].call = c /\ file' = file
        /\ \A q \in Processes : q # "tick" => job'[q] = job[q]
    BY <1>0, <2>1, InvokeOne, CallsAreStatusCalls
  <2> QED
    BY <1>0, <1>15, <2>2 DEF TickLoads, TickUpdates, script, ScriptInv, Answered, Settled
<1>16. CASE TickReturns
  <2>1. /\ job'["tick"].call = NoCall /\ file' = file
        /\ \A q \in Processes : q # "tick" => job'[q] = job[q]
    BY <1>0, <1>16, ReturnOne DEF TickReturns
  <2> QED
    BY <1>0, <1>16, <2>1 DEF TickReturns, ScriptInv, Answered, Settled
<1>17. CASE TickEnds
  <2>1. /\ job'["tick"].call = NoCall /\ file' = file
        /\ \A q \in Processes : q # "tick" => job'[q] = job[q]
    BY <1>0, <1>17, DieThose DEF TickEnds
  <2> QED
    BY <1>0, <1>17, <2>1 DEF TickEnds, ScriptInv, Answered, Settled
<1> QED
  BY <1>1, <1>2, <1>3, <1>4, <1>5, <1>6, <1>7, <1>8, <1>10, <1>11, <1>12, <1>13, <1>14,
     <1>15, <1>16, <1>17
     DEF StatusNext, WrapperNext, AgentNext, TickNext

LEMMA StatusInvariant == StatusSpec => []SInv
<1>1. SInv /\ [StatusNext]_statusVars => SInv'
  BY ScriptStep, StatusStep, StepIInv DEF SInv
<1> QED
  BY <1>1, InitSInv, PTL DEF StatusSpec

(* status.json is used through the protocol only, so whatever writers do,  *)
(* in any number of attempts, each of their calls is one atomic change     *)
(* (status.py, "interleaved writers never lose fields").                   *)
THEOREM StatusIsAtomic == StatusSpec => ImplementsAtomicFile
<1>1. StatusInit => Init
  BY DEF StatusInit
<1>2. StatusSpec => Spec
  BY <1>1, StatusInvariant, StatusStep, PTL DEF StatusSpec, Spec
<1> QED
  BY <1>2, Implementation

(* status.py, _validate: however updates are mixed, a parked state and the *)
(* phase parked come and go together.                                      *)
THEOREM StatusStaysPaired == StatusSpec => []ParkedStateIffParked
<1>1. SInv => ParkedStateIffParked
  BY StatusBounds DEF SInv, ScriptInv, ValidRecords, Paired, ParkedStateIffParked
<1> QED
  BY <1>1, StatusInvariant, PTL

(* runner-wrap.sh, "a healthy runner always exits parked (or done)": for   *)
(* any agent and any tick, no wrapper comes to its end with another phase. *)
THEOREM ExitsAreParked == StatusSpec => []WhoExitsIsParked
<1>1. SInv => WhoExitsIsParked
  BY DEF SInv, ScriptInv, Settled, WhoExitsIsParked
<1> QED
  BY <1>1, StatusInvariant, PTL

-----------------------------------------------------------------------------
(* Who may write what, and when: the park and the heartbeat of an attempt. *)

AgentCalls == Updates \cup {AddWorker}
TickCalls == TickUpdateCalls \cup {LoadStatus}

(* The agent and the tick ask for no heartbeat and no init, and no tick    *)
(* parks for a decision while there is a runner.                           *)
CallInv ==
  /\ command \in Seq(AgentCalls)
  /\ job["agent"].call \in AgentCalls \cup {NoCall}
  /\ job["tick"].call \in TickCalls \cup {NoCall}
  /\ runner \notin Gone => job["tick"].call # Update("parked", "needs-decision")
  /\ runner = "backstop" => file.parked_state # "needs-decision"

(* Nobody brings a heartbeat from the past but an init, for a new attempt. *)
BeatInv ==
  /\ file \in Records => file.last_heartbeat <= clock
  /\ job["heartbeat"].call # NoCall =>
       \E now \in 0..clock :
         job["heartbeat"].call = Heartbeat(now) /\ file.last_heartbeat <= now
  /\ runner = "initialising" =>
       \E a \in 1..MaxAttempts, now \in 0..clock :
         /\ job["wrapper"].call = Initialise(a, now)
         /\ ~ Answered("wrapper") /\ file \in Records => file.attempt # a

TInv == SInv /\ CallInv /\ BeatInv

LEMMA KeepsEffect ==
  ASSUME NEW c \in AgentCalls \cup TickCalls, NEW v \in ValidRecords, Effect[c][v] # Refused
  PROVE  /\ Effect[c][v].attempt = v.attempt
         /\ Effect[c][v].last_heartbeat = v.last_heartbeat
<1>1. /\ v \in Records /\ Validated(v) = v /\ v # Refused /\ c \in Calls
      /\ Effect[c][v] = EffectOn(c, v)
  <2>1. v \in Records /\ Validated(v) = v /\ v # Refused
    BY ValidatedIsPaired, StatusBounds DEF ValidRecords
  <2>2. c \in Calls /\ v \in Versions
    BY <2>1, CallsAreStatusCalls DEF AgentCalls, TickCalls, StatusCalls, Quiet
  <2> QED
    BY <2>1, <2>2, CallsAreStatusCalls
<1>2. CASE c = LoadStatus
  BY <1>1, <1>2 DEF EffectOn, Changed, LoadStatus
<1>3. CASE c = AddWorker
  <2>1. EffectOn(c, v) = [v EXCEPT !.worker_roster = @ \cup {"worker"}]
    BY <1>1, <1>3 DEF EffectOn, Changed, AddWorker
  <2> QED
    BY <1>1, <2>1 DEF Records
<1>4. CASE c \in Updates
  <2>1. PICK phase \in Phases \cup {"unset"}, park \in ParkedStates \cup {"unset"} :
          c = Update(phase, park)
    BY <1>4 DEF Updates
  <2>2. LET made == EffectOn(Update(phase, park), v) IN
          made # Refused => made.attempt = v.attempt /\ made.last_heartbeat = v.last_heartbeat
    BY <2>1, UpdateIsValid
  <2> QED
    BY <1>1, <2>1, <2>2
<1> QED
  BY <1>2, <1>3, <1>4
     DEF AgentCalls, TickCalls, TickUpdateCalls, Updates, Phases, ParkedStates

LEMMA BeatEffect ==
  ASSUME NEW now \in 0..MaxClock, NEW v \in ValidRecords
  PROVE  LET made == Effect[Heartbeat(now)][v] IN
           /\ made.last_heartbeat = now /\ made.attempt = v.attempt
           /\ made.phase = v.phase /\ made.parked_state = v.parked_state
<1>1. v \in Records /\ Validated(v) = v /\ v # Refused /\ v \in Versions
  BY ValidatedIsPaired, StatusBounds, CallsAreStatusCalls DEF ValidRecords
<1>2. Heartbeat(now) \in Calls
  BY CallsAreStatusCalls DEF Quiet
<1>3. Effect[Heartbeat(now)][v] = [v EXCEPT !.last_heartbeat = now]
  BY <1>1, <1>2, CallsAreStatusCalls DEF EffectOn, Changed, Heartbeat
<1> QED
  BY <1>1, <1>3 DEF Records

LEMMA InitialiseEffect ==
  ASSUME NEW a \in 1..MaxAttempts, NEW now \in 0..MaxClock, NEW v \in ValidRecords \cup {Absent}
  PROVE  /\ Effect[Initialise(a, now)][v].attempt = a
         /\ Effect[Initialise(a, now)][v].last_heartbeat = now
<1>1. Initialise(a, now) \in Calls /\ v \in Versions
  BY CallsAreStatusCalls DEF ValidRecords, StatusCalls, Initialisations
<1>2. Effect[Initialise(a, now)][v] = Validated(NewStatus(a, now))
  BY <1>1, CallsAreStatusCalls DEF EffectOn, Initialise
<1>3. Validated(NewStatus(a, now)) = NewStatus(a, now)
  BY InitEffect, ValidatedIsPaired DEF ValidRecords
<1> QED
  BY <1>2, <1>3 DEF NewStatus

(* A park that a tick or the backstop writes beside a runner.              *)
LEMMA FailedOrDone ==
  ASSUME NEW c \in TickUpdateCalls, c # Update("parked", "needs-decision"),
         NEW v \in ValidRecords
  PROVE  Effect[c][v].parked_state # "needs-decision"
<1>1. PICK phase \in {"parked", "done"}, park \in {"failed", "none"} : c = Update(phase, park)
  BY DEF TickUpdateCalls
<1>2. phase \in Phases \cup {"unset"} /\ park \in ParkedStates \cup {"unset"}
  BY DEF Phases, ParkedStates
<1>3. Effect[c][v] = EffectOn(c, v) /\ Effect[c][v] \in ValidRecords
  BY TickEffect, CallsAreStatusCalls DEF ValidRecords
<1>4. Effect[c][v].parked_state = Set(park, v.parked_state)
  BY <1>1, <1>2, <1>3, UpdateIsValid, StatusBounds DEF ValidRecords
<1> QED
  BY <1>4 DEF Set

(* On an absent file every call but an init is refused.                    *)
LEMMA AbsentEffect ==
  ASSUME NEW c \in Calls, Effect[c][Absent] # Refused
  PROVE  c \in Initialisations
<1>1. SUFFICES ASSUME c \notin Initialisations PROVE FALSE
  OBVIOUS
<1>2. c.op # "init"
  BY <1>1, CallsAreStatusCalls
     DEF StatusCalls, Updates, Update, Heartbeat, AddWorker, LoadStatus
<1> QED
  BY <1>2, CallsAreStatusCalls, StatusBounds DEF EffectOn

(* Who changes the file, and what each change keeps.                       *)
LEMMA FileMoves ==
  ASSUME TInv, NEW p \in Processes, Proceed(p), ~ UNCHANGED file
  PROVE  /\ file' = Effect[job[p].call][file] /\ file' \in ValidRecords /\ Answered(p)'
         /\ \/ /\ p = "wrapper" /\ runner = "initialising"
               /\ \E a \in 1..MaxAttempts, now \in 0..clock :
                    /\ job[p].call = Initialise(a, now) /\ now = file'.last_heartbeat
                    /\ file \in Records => file.attempt # file'.attempt
            \/ /\ p = "heartbeat" /\ runner # "initialising" /\ file \in ValidRecords
               /\ \E now \in 0..clock :
                    /\ job[p].call = Heartbeat(now) /\ now = file'.last_heartbeat
                    /\ file.last_heartbeat <= now
               /\ file'.attempt = file.attempt /\ file'.parked_state = file.parked_state
            \/ /\ p \in {"wrapper", "agent", "tick"} /\ file \in ValidRecords
               /\ job[p].call \in AgentCalls \cup TickCalls
               /\ p = "wrapper" => runner = "backstop" /\ job[p].call = Backstop
               /\ p = "agent" => runner # "backstop"
               /\ file'.attempt = file.attempt
               /\ file'.last_heartbeat = file.last_heartbeat
<1> USE DEF TInv
<1>0. /\ ScriptInv /\ CallInv /\ BeatInv /\ NoCall \notin Calls
      /\ clock \in 0..MaxClock /\ MaxClock \in Nat
  BY NothingsAssumption, StatusBounds DEF SInv, ScriptInv
<1>1. /\ job[p].step # "idle" /\ job[p].call \in Calls
      /\ file' = Effect[job[p].call][file] /\ file' \in ValidRecords
      /\ ~ Answered(p) /\ Answered(p)' /\ file \in ValidRecords \cup {Absent}
      /\ file' # Refused
  BY <1>0, ProtocolMoves, StatusBounds DEF ScriptInv, ValidRecords
<1>2. job[p].call \notin Initialisations => file \in ValidRecords
  BY <1>1, AbsentEffect
<1>3. 0..clock \subseteq 0..MaxClock
  BY <1>0
<1>4. ASSUME job[p].call \in AgentCalls \cup TickCalls
      PROVE  /\ file \in ValidRecords /\ file'.attempt = file.attempt
             /\ file'.last_heartbeat = file.last_heartbeat
  <2>1. job[p].call \notin Initialisations
    BY <1>4 DEF AgentCalls, TickCalls, TickUpdateCalls, Initialisations, Initialise,
                Updates, Update, AddWorker, LoadStatus
  <2> QED
    BY <1>1, <1>2, <1>4, <2>1, KeepsEffect
<1>5. CASE p = "wrapper"
  <2>1. runner = "initialising" \/ runner = "backstop"
    BY <1>0, <1>1, <1>5, Names DEF ScriptInv, Runners, Gone
  <2>2. CASE runner = "initialising"
    <3>1. PICK a \in 1..MaxAttempts, now \in 0..clock :
            /\ job[p].call = Initialise(a, now)
            /\ file \in Records => file.attempt # a
      BY <1>0, <1>1, <1>5, <2>2 DEF BeatInv
    <3>2. file'.attempt = a /\ file'.last_heartbeat = now
      BY <1>1, <1>3, <3>1, InitialiseEffect
    <3> QED
      BY <1>1, <1>5, <2>2, <3>1, <3>2
  <2>3. CASE runner = "backstop"
    <3>1. job[p].call = Backstop
      BY <1>0, <1>5, <2>3 DEF ScriptInv
    <3>2. Backstop \in AgentCalls \cup TickCalls
      BY CallsAreStatusCalls DEF TickCalls
    <3> QED
      BY <1>1, <1>4, <1>5, <2>3, <3>1, <3>2
  <2> QED
    BY <2>1, <2>2, <2>3
<1>6. CASE p = "heartbeat"
  <2>1. PICK now \in 0..clock :
          job[p].call = Heartbeat(now) /\ file.last_heartbeat <= now
    BY <1>0, <1>1, <1>6 DEF BeatInv
  <2>2. Heartbeat(now) \notin Initialisations
    <3>1. Heartbeat(now).op = "heartbeat" /\ \A c \in Initialisations : c.op = "init"
      BY DEF Heartbeat, Initialisations, Initialise
    <3> QED
      BY <3>1
  <2>3. /\ file'.last_heartbeat = now /\ file'.attempt = file.attempt
        /\ file'.parked_state = file.parked_state
    BY <1>1, <1>2, <1>3, <2>1, <2>2, BeatEffect
  <2>4. runner # "initialising"
    BY <1>0, <1>1, <1>6 DEF ScriptInv
  <2> QED
    BY <1>1, <1>2, <1>6, <2>1, <2>2, <2>3, <2>4
<1>7. CASE p = "agent"
  <2>1. job[p].call \in AgentCalls /\ runner # "backstop"
    BY <1>0, <1>1, <1>7 DEF CallInv, ScriptInv
  <2> QED
    BY <1>1, <1>4, <1>7, <2>1
<1>8. CASE p = "tick"
  <2>1. job[p].call \in TickCalls
    BY <1>0, <1>1, <1>8 DEF CallInv
  <2> QED
    BY <1>1, <1>4, <1>8, <2>1
<1> QED
  BY <1>5, <1>6, <1>7, <1>8, Names

(* Beside a backstop nobody writes that a session waits for a decision.    *)
LEMMA ProtocolKeepsCalls ==
  ASSUME TInv, NEW p \in Processes, Protocol(p)
  PROVE  CallInv'
<1>0. /\ Proceed(p) /\ UNCHANGED script /\ SInv /\ ScriptInv /\ CallInv
      /\ {"wrapper", "heartbeat", "agent", "tick"} = Processes
  BY Names DEF Protocol, TInv, SInv
<1>1. \A q \in Processes : job'[q].call = job[q].call
  BY <1>0, ProtocolMoves
<1>2. ASSUME runner = "backstop", ~ UNCHANGED file
      PROVE  file'.parked_state # "needs-decision"
  <2>1. CASE p = "heartbeat"
    BY <1>0, <1>2, <2>1, FileMoves DEF CallInv
  <2>2. CASE p # "heartbeat"
    <3>1. /\ p \in {"wrapper", "tick"} /\ file \in ValidRecords
          /\ file' = Effect[job[p].call][file]
          /\ p = "wrapper" => job[p].call = Backstop
      BY <1>0, <1>2, <2>2, FileMoves
    <3>2. CASE job[p].call = LoadStatus
      <4>1. file \in Records /\ Validated(file) = file /\ file # Refused
        BY <3>1, ValidatedIsPaired, StatusBounds DEF ValidRecords
      <4>2. EffectOn(LoadStatus, file) = file
        BY <4>1 DEF EffectOn, Changed, LoadStatus
      <4>3. LoadStatus \in Calls /\ file \in Versions
        BY <4>1, CallsAreStatusCalls DEF Quiet
      <4> QED
        BY <1>2, <3>1, <3>2, <4>2, <4>3, CallsAreStatusCalls
    <3>3. CASE job[p].call # LoadStatus
      <4>1. job[p].call \in Calls /\ NoCall \notin Calls
        BY <1>0, ProtocolMoves, NothingsAssumption
      <4>2. CASE p = "wrapper"
        <5>1. Backstop # Update("parked", "needs-decision")
          BY DEF Backstop, Update
        <5> QED
          BY <3>1, <4>2, <5>1, CallsAreStatusCalls, FailedOrDone
      <4>3. CASE p = "tick"
        <5>1. /\ job[p].call \in TickUpdateCalls
              /\ job[p].call # Update("parked", "needs-decision")
          BY <1>0, <1>2, <3>3, <4>1, <4>3 DEF CallInv, TickCalls, Gone
        <5> QED
          BY <3>1, <5>1, FailedOrDone
      <4> QED
        BY <3>1, <4>2, <4>3
    <3> QED
      BY <3>2, <3>3
  <2> QED
    BY <2>1, <2>2
<1>3. runner' = runner /\ command' = command
  BY <1>0 DEF script
<1> QED
  BY <1>0, <1>1, <1>2, <1>3 DEF CallInv

LEMMA ProtocolKeepsBeats ==
  ASSUME TInv, NEW p \in Processes, Protocol(p)
  PROVE  BeatInv'
<1>0. /\ Proceed(p) /\ UNCHANGED script /\ SInv /\ ScriptInv /\ BeatInv /\ LockInv
      /\ {"wrapper", "heartbeat", "agent", "tick"} = Processes
      /\ runner' = runner /\ clock' = clock /\ clock \in Nat
  BY Names, StatusBounds DEF Protocol, TInv, SInv, IInv, script, ScriptInv
<1>1. /\ \A q \in Processes : job'[q].call = job[q].call
      /\ \A q \in Processes : q # p => job'[q] = job[q]
      /\ Answered(p) => Answered(p)'
  BY <1>0, ProtocolMoves
<1>2. CASE UNCHANGED file
  <2>1. ~ Answered("wrapper")' => ~ Answered("wrapper")
    BY <1>0, <1>1 DEF Answered
  <2> QED
    BY <1>0, <1>1, <1>2, <2>1 DEF BeatInv
<1>3. CASE ~ UNCHANGED file
  <2>1. file' \in Records => file'.last_heartbeat <= clock
    <3>1. CASE \E now \in 0..clock : now = file'.last_heartbeat
      BY <1>0, <3>1
    <3>2. CASE file \in ValidRecords /\ file'.last_heartbeat = file.last_heartbeat
      BY <1>0, <3>2 DEF BeatInv, ValidRecords
    <3> QED
      BY <1>0, <1>3, <3>1, <3>2, FileMoves
  <2>2. ASSUME job'["heartbeat"].call # NoCall
        PROVE  \E now \in 0..clock :
                 job'["heartbeat"].call = Heartbeat(now) /\ file'.last_heartbeat <= now
    <3>1. PICK now \in 0..clock :
            job["heartbeat"].call = Heartbeat(now) /\ file.last_heartbeat <= now
      BY <1>0, <1>1, <2>2 DEF BeatInv
    <3>2. runner # "initialising"
      BY <1>0, <1>1, <2>2 DEF ScriptInv, LockInv
    <3>3. CASE p = "heartbeat"
      <4>1. PICK beat \in 0..clock :
              job[p].call = Heartbeat(beat) /\ beat = file'.last_heartbeat
        BY <1>0, <1>3, <3>3, FileMoves
      <4> QED
        BY <1>0, <1>1, <3>3, <4>1
    <3>4. CASE p # "heartbeat"
      <4>1. file'.last_heartbeat = file.last_heartbeat
        BY <1>0, <1>3, <3>2, <3>4, FileMoves
      <4> QED
        BY <1>0, <1>1, <3>1, <4>1
    <3> QED
      BY <3>3, <3>4
  <2>3. ASSUME runner = "initialising"
        PROVE  \E a \in 1..MaxAttempts, now \in 0..clock :
                 /\ job'["wrapper"].call = Initialise(a, now)
                 /\ ~ Answered("wrapper")' /\ file' \in Records => file'.attempt # a
    <3>1. PICK a \in 1..MaxAttempts, now \in 0..clock :
            /\ job["wrapper"].call = Initialise(a, now)
            /\ ~ Answered("wrapper") /\ file \in Records => file.attempt # a
      BY <1>0, <2>3 DEF BeatInv
    <3>2. CASE p = "wrapper"
      BY <1>0, <1>1, <1>3, <3>1, <3>2, FileMoves
    <3>3. CASE p # "wrapper"
      <4>1. p = "tick"
        BY <1>0, <2>3, <3>3, ProtocolMoves DEF ScriptInv
      <4>2. file'.attempt = file.attempt /\ file \in Records
        BY <1>0, <1>3, <4>1, FileMoves DEF ValidRecords
      <4>3. ~ Answered("wrapper")' => ~ Answered("wrapper")
        BY <1>0, <1>1, <3>3 DEF Answered
      <4> QED
        BY <1>0, <1>1, <3>1, <4>2, <4>3
    <3> QED
      BY <3>2, <3>3
  <2> QED
    BY <1>0, <2>1, <2>2, <2>3 DEF BeatInv
<1> QED
  BY <1>2, <1>3

LEMMA AgentCommandsAsk == AgentCommands \subseteq Seq(AgentCalls) \ {<<>>}
<1>1. /\ Update("tdd", "unset") \in AgentCalls
      /\ Update("parked", "needs-decision") \in AgentCalls
      /\ Update("tdd", "none") \in AgentCalls /\ Update("parked", "unset") \in AgentCalls
      /\ AddWorker \in AgentCalls
  BY DEF AgentCalls, Updates, Phases, ParkedStates
<1>2. \A c, d \in AgentCalls :
        <<c>> \in Seq(AgentCalls) \ {<<>>} /\ <<c, d>> \in Seq(AgentCalls) \ {<<>>}
  OBVIOUS
<1> QED
  BY <1>1, <1>2 DEF AgentCommands

LEMMA InitTInv == StatusInit => TInv
<1> SUFFICES ASSUME StatusInit PROVE TInv
  OBVIOUS
<1>1. SInv
  BY InitSInv
<1>2. \A p \in Processes : job[p].call = NoCall
  BY DEF StatusInit, Init, Idle
<1>3. CallInv /\ BeatInv
  BY <1>2, Names, NothingsAssumption, StatusBounds, CallsAreStatusCalls
     DEF StatusInit, CallInv, BeatInv, Gone, TickUpdateCalls
<1> QED
  BY <1>1, <1>3 DEF TInv

LEMMA TStep == TInv /\ [StatusNext]_statusVars => CallInv' /\ BeatInv'
<1> SUFFICES ASSUME TInv, [StatusNext]_statusVars PROVE CallInv' /\ BeatInv'
  OBVIOUS
<1>0. /\ {"wrapper", "heartbeat", "agent", "tick"} = Processes
      /\ RunnerProcesses = {"wrapper", "heartbeat", "agent"}
      /\ SInv /\ ScriptInv /\ CallInv /\ BeatInv /\ NoCall \notin Calls /\ LockInv
      /\ clock \in 0..MaxClock /\ MaxClock \in Nat /\ MaxAttempts \in Nat
      /\ file \in ValidRecords \cup {Absent} /\ Absent \notin Records
  BY Names, NothingsAssumption, StatusBounds DEF TInv, SInv, IInv, ScriptInv
<1>1. CASE UNCHANGED statusVars
  BY <1>0, <1>1 DEF statusVars, vars, script, CallInv, BeatInv, Answered
<1>2. CASE ClockTicks
  <2>1. clock' = clock + 1 /\ UNCHANGED <<file, job, runner, command>>
    BY <1>2 DEF ClockTicks, vars
  <2>2. 0..clock \subseteq 0..clock'
    BY <1>0, <2>1
  <2>3. file' \in Records => file'.last_heartbeat <= clock'
    BY <1>0, <2>1 DEF BeatInv, ValidRecords, Records
  <2> QED
    BY <1>0, <2>1, <2>2, <2>3 DEF CallInv, BeatInv, Answered
<1>3. CASE AgentEnds
  BY <1>0, <1>3 DEF AgentEnds, vars, CallInv, BeatInv, Gone
<1>4. CASE \E p \in Processes : Protocol(p)
  BY <1>0, <1>4, ProtocolKeepsCalls, ProtocolKeepsBeats
<1>5. CASE Launch
  <2>1. PICK a \in 1..MaxAttempts :
          /\ Invoke("wrapper", Initialise(a, clock))
          /\ file \in Records => file.attempt # a
    BY <1>0, <1>5 DEF Launch, ValidRecords, Records
  <2>2. Initialise(a, clock) \in Calls
    BY <1>0, <2>1, CallsAreStatusCalls DEF StatusCalls, Initialisations
  <2>3. /\ job'["wrapper"].call = Initialise(a, clock) /\ file' = file
        /\ \A q \in Processes : q # "wrapper" => job'[q] = job[q]
    BY <1>0, <2>1, <2>2, InvokeOne
  <2>4. job["tick"].call = NoCall /\ NoCall # Update("parked", "needs-decision")
    BY <1>0, <1>5, CallsAreStatusCalls DEF Launch, At, LockInv, TickUpdateCalls
  <2> QED
    BY <1>0, <1>5, <2>1, <2>3, <2>4 DEF Launch, CallInv, BeatInv
<1>6. CASE Initialised
  <2>1. /\ job'["wrapper"].step = "idle" /\ file' = file
        /\ \A q \in Processes : q # "wrapper" => job'[q] = job[q]
    BY <1>0, <1>6, ReturnOne DEF Initialised
  <2> QED
    BY <1>0, <1>6, <2>1 DEF Initialised, CallInv, BeatInv, Gone
<1>7. CASE Beat
  <2>1. Heartbeat(clock) \in Calls
    BY <1>0, CallsAreStatusCalls DEF Quiet
  <2>2. /\ job'["heartbeat"].call = Heartbeat(clock) /\ file' = file
        /\ \A q \in Processes : q # "heartbeat" => job'[q] = job[q]
    BY <1>0, <1>7, <2>1, InvokeOne DEF Beat
  <2>3. file \in Records /\ runner # "initialising"
    BY <1>0, <1>7 DEF Beat, ScriptInv
  <2> QED
    BY <1>0, <1>7, <2>2, <2>3 DEF Beat, script, CallInv, BeatInv
<1>8. CASE BeatReturns
  <2>1. /\ job'["heartbeat"].call = NoCall /\ file' = file
        /\ \A q \in Processes : q # "heartbeat" => job'[q] = job[q]
    BY <1>0, <1>8, ReturnOne DEF BeatReturns
  <2> QED
    BY <1>0, <1>8, <2>1 DEF BeatReturns, script, CallInv, BeatInv, Answered
<1>9. ASSUME NEW state \in {"exited", "killed"}, Exit(state)
      PROVE  CallInv' /\ BeatInv'
  <2>1. /\ \A q \in RunnerProcesses : job'[q].call = NoCall
        /\ job'["tick"] = job["tick"] /\ file' = file
    BY <1>0, <1>9, DieThose DEF Exit
  <2> QED
    BY <1>0, <1>9, <2>1 DEF Exit, CallInv, BeatInv, Gone
<1>10. CASE ReadPhase
  <2>1. CASE file \in Records /\ file.phase \in {"parked", "done"}
    BY <1>9, <1>10, <2>1 DEF ReadPhase
  <2>2. CASE ~ (file \in Records /\ file.phase \in {"parked", "done"})
    <3>1. CallBackstop
      BY <1>10, <2>2 DEF ReadPhase
    <3>2. /\ file' = file
          /\ \A q \in Processes : q # "wrapper" => job'[q] = job[q]
      BY <1>0, <3>1, InvokeOne, CallsAreStatusCalls DEF CallBackstop
    <3>3. file \in ValidRecords /\ file.parked_state # "needs-decision"
      BY <1>0, <2>2, <3>1 DEF CallBackstop, ScriptInv, ValidRecords, Paired
    <3> QED
      BY <1>0, <3>1, <3>2, <3>3 DEF CallBackstop, CallInv, BeatInv, Gone
  <2> QED
    BY <2>1, <2>2
<1>11. CASE BackstopReturns
  BY <1>9, <1>11 DEF BackstopReturns
<1>12. CASE Killed
  BY <1>9, <1>12 DEF Killed
<1>13. CASE BeginCommand \/ NextCall
  <2>1. PICK c \in AgentCalls, rest \in Seq(AgentCalls) :
          /\ Invoke("agent", c) /\ command' = rest
          /\ runner' = runner /\ clock' = clock
    <3>1. CASE BeginCommand
      <4>1. PICK whole \in AgentCommands :
              Invoke("agent", Head(whole)) /\ command' = Tail(whole)
        BY <3>1 DEF BeginCommand
      <4>2. whole \in Seq(AgentCalls) /\ whole # <<>>
        BY AgentCommandsAsk
      <4>3. Head(whole) \in AgentCalls /\ Tail(whole) \in Seq(AgentCalls)
        BY <4>2
      <4> QED
        BY <3>1, <4>1, <4>3 DEF BeginCommand
    <3>2. CASE NextCall
      <4>1. Head(command) \in AgentCalls /\ Tail(command) \in Seq(AgentCalls)
        BY <1>0, <3>2 DEF NextCall, CallInv
      <4> QED
        BY <3>2, <4>1 DEF NextCall
    <3> QED
      BY <1>13, <3>1, <3>2
  <2>2. AgentCalls \subseteq Calls
    BY CallsAreStatusCalls DEF AgentCalls, StatusCalls
  <2>3. /\ job'["agent"].call = c /\ file' = file
        /\ \A q \in Processes : q # "agent" => job'[q] = job[q]
    BY <1>0, <2>1, <2>2, InvokeOne
  <2> QED
    BY <1>0, <2>1, <2>3 DEF CallInv, BeatInv, Answered
<1>14. CASE AgentReturns
  <2>1. /\ job'["agent"].call = NoCall /\ file' = file
        /\ \A q \in Processes : q # "agent" => job'[q] = job[q]
    BY <1>0, <1>14, ReturnOne DEF AgentReturns
  <2>2. command' \in Seq(AgentCalls)
    BY <1>0, <1>14 DEF AgentReturns, CallInv
  <2> QED
    BY <1>0, <1>14, <2>1, <2>2 DEF AgentReturns, CallInv, BeatInv, Answered
<1>15. CASE TickLoads \/ TickUpdates
  <2>1. PICK c \in TickCalls :
          /\ Invoke("tick", c)
          /\ runner \notin Gone => c # Update("parked", "needs-decision")
    BY <1>15 DEF TickLoads, TickUpdates, TickUpdateCalls, TickCalls, Update, LoadStatus
  <2>2. TickCalls \subseteq Calls
    BY CallsAreStatusCalls DEF TickCalls, Quiet
  <2>3. /\ job'["tick"].call = c /\ file' = file
        /\ \A q \in Processes : q # "tick" => job'[q] = job[q]
    BY <1>0, <2>1, <2>2, InvokeOne
  <2>4. runner' = runner /\ command' = command /\ clock' = clock
    BY <1>15 DEF TickLoads, TickUpdates, script
  <2> QED
    BY <1>0, <2>1, <2>3, <2>4 DEF CallInv, BeatInv, Answered
<1>16. CASE TickReturns \/ TickEnds
  <2>1. /\ job'["tick"].call = NoCall /\ file' = file
        /\ \A q \in Processes : q # "tick" => job'[q] = job[q]
    BY <1>0, <1>16, ReturnOne, DieThose DEF TickReturns, TickEnds
  <2>2. runner' = runner /\ command' = command /\ clock' = clock
    BY <1>16 DEF TickReturns, TickEnds
  <2>3. NoCall # Update("parked", "needs-decision")
    BY <1>0, CallsAreStatusCalls DEF TickUpdateCalls
  <2> QED
    BY <1>0, <2>1, <2>2, <2>3 DEF CallInv, BeatInv, Answered
<1> QED
  BY <1>1, <1>2, <1>3, <1>4, <1>5, <1>6, <1>7, <1>8, <1>10, <1>11, <1>12, <1>13, <1>14,
     <1>15, <1>16
     DEF StatusNext, WrapperNext, AgentNext, TickNext

LEMMA CallInvariant == StatusSpec => []TInv
<1>1. TInv /\ [StatusNext]_statusVars => TInv'
  BY TStep, ScriptStep, StatusStep, StepIInv DEF TInv, SInv
<1> QED
  BY <1>1, InitTInv, PTL DEF StatusSpec

(* runner-wrap.sh, "a session that parked ... keeps its own parked_state": *)
(* for any agent and any tick beside it, the backstop's rename never finds *)
(* the park of a session under it.                                         *)
THEOREM BackstopFindsNoPark == StatusSpec => BackstopKeepsThePark
<1>1. ASSUME TInv, job["wrapper"].call = Backstop, Replace("wrapper")
      PROVE  file \in Records /\ file.parked_state # "needs-decision"
  <2>1. Backstop \notin Initialisations
    <3>1. Backstop.op = "update" /\ \A c \in Initialisations : c.op = "init"
      BY DEF Backstop, Update, Initialisations, Initialise
    <3> QED
      BY <3>1
  <2>2. runner = "backstop"
    BY <1>1, <2>1, Names DEF TInv, SInv, ScriptInv, Replace, At, Runners, Gone
  <2> QED
    BY <1>1, <2>2 DEF TInv, SInv, ScriptInv, CallInv
<1> QED
  BY <1>1, CallInvariant, PTL DEF BackstopKeepsThePark

(* runner-wrap.sh, "the wrapper owns liveness": in any number of attempts, *)
(* whoever writes while a beat is under way, no heartbeat of an attempt is *)
(* put back to an earlier one.                                             *)
THEOREM HeartbeatsGoForward == StatusSpec => HeartbeatNeverGoesBack
<1>1. ASSUME TInv, [StatusNext]_statusVars
      PROVE  [({file, file'} \subseteq Records /\ file'.attempt = file.attempt)
                => file'.last_heartbeat >= file.last_heartbeat]_file
  <2> SUFFICES ASSUME ~ UNCHANGED file, file \in Records, file' \in Records,
                      file'.attempt = file.attempt
               PROVE  file'.last_heartbeat >= file.last_heartbeat
    OBVIOUS
  <2>1. PICK p \in Processes : Proceed(p)
    <3>1. [Next]_vars
      BY <1>1, StatusStep DEF TInv
    <3> QED
      BY <3>1 DEF Next, vars, Return, Invoke, Die
  <2>2. file.last_heartbeat \in Nat /\ file'.last_heartbeat \in Nat
    BY StatusBounds DEF Records
  <2> QED
    BY <1>1, <2>1, <2>2, FileMoves
<1> QED
  BY <1>1, CallInvariant, PTL DEF StatusSpec, HeartbeatNeverGoesBack

-----------------------------------------------------------------------------
(* The types: a tick that saw the file, or is about to, has an update left *)
(* of its bound.                                                           *)

CountInv ==
  /\ seen \in BOOLEAN /\ commands \in 0..MaxCommands /\ updates \in 0..MaxUpdates
  /\ seen \/ job["tick"].call = LoadStatus => updates < MaxUpdates

LEMMA OneJobMoves ==
  ASSUME SInv, NEW p \in Processes, NEW q \in Processes \ {p},
         Return(p) \/ \E c : Invoke(p, c)
  PROVE  job'[q] = job[q]
BY DEF Return, Invoke, SInv, IInv, TypeOK

LEMMA RunnerLeavesTheTick ==
  ASSUME SInv, ClockTicks \/ WrapperNext \/ AgentNext
  PROVE  job'["tick"] = job["tick"] /\ updates' = updates /\ seen' \in {seen, FALSE}
<1>0. /\ {"wrapper", "heartbeat", "agent", "tick"} = Processes
      /\ "tick" \notin RunnerProcesses
  BY Names DEF RunnerProcesses
<1>1. \A p \in {"wrapper", "heartbeat", "agent"} :
        Return(p) \/ (\E c : Invoke(p, c)) => job'["tick"] = job["tick"]
  BY <1>0, OneJobMoves
<1>2. ASSUME Die(RunnerProcesses) PROVE job'["tick"] = job["tick"]
  BY <1>0, <1>2 DEF Die
<1>3. CASE ClockTicks
  BY <1>3 DEF ClockTicks, vars
<1>4. CASE WrapperNext
  BY <1>1, <1>2, <1>4
  DEF WrapperNext, Launch, Initialised, Beat, BeatReturns, ReadPhase, CallBackstop,
      BackstopReturns, Killed, Exit, script
<1>5. CASE AgentNext
  BY <1>1, <1>5 DEF AgentNext, BeginCommand, NextCall, AgentReturns, AgentEnds, vars
<1> QED
  BY <1>3, <1>4, <1>5

LEMMA CountStep ==
  ASSUME SInv, CountInv, [StatusNext]_statusVars
  PROVE  CountInv'
<1>0. /\ MaxCommands \in Nat /\ MaxUpdates \in Nat /\ "tick" \in Processes
      /\ NoCall # LoadStatus /\ \A u \in Updates : u # LoadStatus
  <2>1. LoadStatus \in Calls
    BY CallsAreStatusCalls DEF StatusCalls
  <2> QED
    BY <2>1, StatusBounds, Names, NothingsAssumption DEF Updates, Update, LoadStatus
<1>1. commands' \in 0..MaxCommands
  BY <1>0 DEF CountInv, StatusNext, statusVars, script, ClockTicks, Protocol, WrapperNext, Launch,
              Initialised, Beat, BeatReturns, ReadPhase, CallBackstop, BackstopReturns, Killed,
              Exit, AgentNext, BeginCommand, NextCall, AgentReturns, AgentEnds, TickNext,
              TickLoads, TickUpdates, TickReturns, TickEnds
<1>2. CASE UNCHANGED statusVars
  BY <1>1, <1>2 DEF CountInv, statusVars, script, vars
<1>3. ASSUME NEW p \in Processes, Protocol(p)
      PROVE  CountInv'
  BY <1>0, <1>1, <1>3, ProtocolMoves DEF CountInv, Protocol, script
<1>4. CASE ClockTicks \/ WrapperNext \/ AgentNext
  <2>1. job'["tick"] = job["tick"] /\ updates' = updates /\ seen' \in {seen, FALSE}
    BY <1>4, RunnerLeavesTheTick
  <2>2. seen' \in BOOLEAN /\ (seen' => seen)
    <3>1. seen' = seen \/ seen' = FALSE
      BY <2>1
    <3>2. seen \in BOOLEAN
      BY DEF CountInv
    <3>3. CASE seen' = seen
      BY <3>2, <3>3, Zenon
    <3>4. CASE seen' = FALSE
      BY <3>4, Zenon
    <3> QED
      BY <3>1, <3>3, <3>4, Zenon
  <2> QED
    BY <1>1, <2>1, <2>2, Zenon DEF CountInv
<1>5. CASE TickLoads
  BY <1>1, <1>5 DEF TickLoads, CountInv, script
<1>6. CASE TickUpdates
  <2>1. PICK u \in Updates : Invoke("tick", u)
    BY <1>6 DEF TickUpdates, Updates, Phases, ParkedStates
  <2>2. job'["tick"].call = u
    BY <1>0, <2>1 DEF Invoke, Begun, SInv, IInv, TypeOK
  <2>3. updates' = updates + 1 /\ updates < MaxUpdates /\ seen' = FALSE
    BY <1>6 DEF TickUpdates, CountInv
  <2>4. updates' \in 0..MaxUpdates
    BY <1>0, <2>3 DEF CountInv
  <2> QED
    BY <1>0, <1>1, <2>2, <2>3, <2>4, Zenon DEF CountInv
<1>7. CASE TickReturns \/ TickEnds
  <2>1. job'["tick"].call = NoCall
    BY <1>0, <1>7, ReturnOne DEF TickReturns, TickEnds, Die, Idle
  <2> QED
    BY <1>0, <1>1, <1>7, <2>1 DEF TickReturns, TickEnds, CountInv
<1> QED
  BY <1>2, <1>3, <1>4, <1>5, <1>6, <1>7 DEF StatusNext, TickNext

(* Whoever writes, and whoever dies at whatever point, status.json is      *)
(* never torn, every call is one the file knows, and all counts stay       *)
(* within their bounds.                                                    *)
THEOREM StatusTypeCorrect == StatusSpec => []StatusTypeOK
<1>1. StatusInit => CountInv
  <2>1. MaxCommands \in Nat /\ MaxUpdates \in Nat
    BY StatusBounds
  <2>2. ASSUME StatusInit PROVE job["tick"].call = NoCall /\ NoCall # LoadStatus
    BY <2>2, Names, CallsAreStatusCalls, NothingsAssumption
    DEF StatusInit, Init, Idle, StatusCalls
  <2>3. ASSUME StatusInit
        PROVE  seen = FALSE /\ commands \in 0..MaxCommands /\ updates \in 0..MaxUpdates
    BY <2>1, <2>3 DEF StatusInit
  <2> QED
    BY <2>2, <2>3, Zenon DEF CountInv
<1>2. SInv /\ CountInv => StatusTypeOK
  <2> SUFFICES ASSUME SInv, CountInv PROVE StatusTypeOK
    OBVIOUS
  <2>1. TypeOK /\ ScriptInv
    BY DEF SInv, IInv
  <2>2. file # Torn
    BY <2>1, StatusBounds DEF ScriptInv, ValidRecords
  <2> QED
    BY <2>1, <2>2 DEF StatusTypeOK, ScriptInv, CountInv
<1> QED
  BY <1>1, <1>2, CountStep, StatusInvariant, PTL DEF StatusSpec

=============================================================================
