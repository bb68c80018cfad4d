------------------------- MODULE LockedFile_proofs -------------------------
(***************************************************************************)
(* Proofs about LockedFile, for every set of processes, calls, versions    *)
(* and temp names: what holds inside the lock, and that the protocol       *)
(* implements AtomicFile.                                                  *)
(***************************************************************************)
EXTENDS LockedFile, TLAPS

Jobs == [step : Steps, call : Calls \cup {NoCall},
         made : Versions \cup {Refused, NoAnswer}]

IInv == TypeOK /\ LockInv

(* A process that is in a call: it makes a version of the file or raises.  *)
LEMMA MadeType ==
  ASSUME IInv, NEW p \in Processes, job[p].step # "idle"
  PROVE  /\ job[p] \in Jobs /\ job[p].call \in Calls
         /\ Made(p) \in Versions \cup {Refused}
<1>1. job[p] \in Jobs /\ file \in Versions
  BY DEF IInv, TypeOK, Jobs
<1>2. job[p].call \in Calls
  BY <1>1 DEF IInv, LockInv, At, Jobs
<1> QED
  BY <1>1, <1>2, CallsAssumption DEF Made

(* What every step of one process leaves: a job for it, the others theirs. *)
LEMMA OneJob ==
  ASSUME TypeOK, NEW p \in Processes, NEW j \in Jobs,
         job' = [job EXCEPT ![p] = j]
  PROVE  /\ job' \in [Processes -> Jobs]
         /\ job'[p] = j
         /\ \A q \in Processes : q # p => job'[q] = job[q]
BY DEF TypeOK, Jobs

LEMMA OneMade ==
  ASSUME TypeOK, NEW p \in Processes, NEW step \in Steps,
         NEW made \in Versions \cup {Refused, NoAnswer}, Makes(p, step, made)
  PROVE  /\ job' \in [Processes -> Jobs]
         /\ job'[p] = [step |-> step, call |-> job[p].call, made |-> made]
         /\ \A q \in Processes : q # p => job'[q] = job[q]
<1> DEFINE j == [step |-> step, call |-> job[p].call, made |-> made]
<1>1. job[p].call \in Calls \cup {NoCall}
  BY DEF TypeOK
<1>2. j \in Jobs
  BY <1>1 DEF Jobs
<1>3. job' = [job EXCEPT ![p] = j]
  BY DEF Makes
<1> HIDE DEF j
<1>4. /\ job' \in [Processes -> Jobs] /\ job'[p] = j
      /\ \A q \in Processes : q # p => job'[q] = job[q]
  BY <1>2, <1>3, OneJob
<1> QED
  BY <1>4 DEF j

LEMMA OneGoes ==
  ASSUME TypeOK, NEW p \in Processes, NEW step \in Steps, Goes(p, step)
  PROVE  /\ job' \in [Processes -> Jobs]
         /\ job'[p] = [step |-> step, call |-> job[p].call, made |-> job[p].made]
         /\ \A q \in Processes : q # p => job'[q] = job[q]
<1>1. job[p].made \in Versions \cup {Refused, NoAnswer} /\ Makes(p, step, job[p].made)
  BY DEF TypeOK, Goes
<1> QED
  BY <1>1, OneMade

(* At the start nobody is in a call.                                       *)
LEMMA InitIInv == Init => IInv
BY NothingsAssumption
   DEF Init, IInv, TypeOK, LockInv, Idle, Steps, At, Critical

(* A step that leaves the file to the holder of the lock: the invariant    *)
(* needs a look at the process that moves only.                            *)
LEMMA OthersKeep ==
  ASSUME IInv, NEW p \in Processes,
         job' \in [Processes -> Jobs],
         \A q \in Processes : q # p => job'[q] = job[q],
         file' \in Versions,
         temp' \in [Temps -> Versions \cup {NoTemp, Torn}],
         holder' \in Processes \cup {NoOne},
         \/ UNCHANGED <<file, temp, holder>>
         \/ holder \in {p, NoOne},
         job'[p].step \in Critical => holder' = p,
         job'[p].step = "idle" <=> job'[p].call = NoCall,
         job'[p].step = "loading" => job'[p].call \in Loads,
         job'[p].step \in {"unlocking", "returning"} => job'[p].made # NoAnswer,
         job'[p].step \in {"opening", "filling", "replacing"}
           => job'[p].made = Effect[job'[p].call][file'] /\ job'[p].made # Refused,
         job'[p].step = "replacing" => temp'[TempOf[p]] = job'[p].made
  PROVE  IInv'
<1>1. TypeOK'
  BY DEF TypeOK, Jobs
<1>2. ASSUME NEW q \in Processes, q # p
      PROVE  /\ job'[q].step \in Critical => holder' = q
             /\ job'[q].step = "idle" <=> job'[q].call = NoCall
             /\ job'[q].step \in {"opening", "filling", "replacing"}
                  => job'[q].made = Effect[job'[q].call][file'] /\ job'[q].made # Refused
             /\ job'[q].step = "replacing" => temp'[TempOf[q]] = job'[q].made
             /\ job'[q].step = "loading" => job'[q].call \in Loads
             /\ job'[q].step \in {"unlocking", "returning"} => job'[q].made # NoAnswer
  <2>1. CASE UNCHANGED <<file, temp, holder>>
    BY <1>2, <2>1 DEF IInv, LockInv, At, Made
  <2>2. CASE holder \in {p, NoOne}
    <3>1. job[q].step \notin Critical
      BY <1>2, <2>2, NothingsAssumption DEF IInv, LockInv
    <3> QED
      BY <1>2, <3>1 DEF IInv, LockInv, At, Critical
  <2> QED
    BY <2>1, <2>2
<1>3. LockInv'
  BY <1>2 DEF LockInv, At, Made
<1> QED
  BY <1>1, <1>3 DEF IInv

LEMMA StepIInv == IInv /\ [Next]_vars => IInv'
<1> SUFFICES ASSUME IInv, [Next]_vars PROVE IInv'
  OBVIOUS
<1> USE DEF IInv
<1>1. CASE UNCHANGED vars
  BY <1>1 DEF vars, TypeOK, LockInv, At, Made
<1>2. ASSUME NEW p \in Processes, NEW c \in Calls, Invoke(p, c)
      PROVE  IInv'
  <2>1. Begun(c) \in Jobs /\ c # NoCall
    BY NothingsAssumption DEF Begun, Jobs, Steps
  <2>2. /\ job' \in [Processes -> Jobs] /\ job'[p] = Begun(c)
        /\ \A q \in Processes : q # p => job'[q] = job[q]
    BY <1>2, <2>1, OneJob DEF Invoke
  <2>3. /\ job'[p].step \notin Critical /\ job'[p].step # "idle"
        /\ job'[p].call # NoCall
        /\ job'[p].step = "loading" => job'[p].call \in Loads
        /\ job'[p].step \in {"loading", "waiting"}
    BY <2>1, <2>2 DEF Begun, Critical
  <2> QED
    BY <1>2, <2>2, <2>3, OthersKeep DEF Invoke, TypeOK, Critical
<1>3. ASSUME NEW p \in Processes, Load(p)
      PROVE  IInv'
  <2>1. Made(p) \in Versions \cup {Refused} /\ job[p].call # NoCall
    BY <1>3, MadeType, NothingsAssumption DEF Load, At
  <2>2. /\ job' \in [Processes -> Jobs]
        /\ job'[p] = [step |-> "returning", call |-> job[p].call, made |-> Made(p)]
        /\ \A q \in Processes : q # p => job'[q] = job[q]
    BY <1>3, <2>1, OneMade DEF Load, Steps
  <2> QED
    BY <1>3, <2>1, <2>2, OthersKeep, NothingsAssumption DEF Load, TypeOK, Critical
<1>4. ASSUME NEW p \in Processes, Lock(p)
      PROVE  IInv'
  <2>1. Made(p) \in Versions \cup {Refused} /\ job[p].call # NoCall
    BY <1>4, MadeType, NothingsAssumption DEF Lock, At
  <2>2. CASE job[p].call \in Blind /\ Made(p) = Refused
    <3>1. /\ job' \in [Processes -> Jobs]
          /\ job'[p] = [step |-> "returning", call |-> job[p].call, made |-> Refused]
          /\ \A q \in Processes : q # p => job'[q] = job[q]
      BY <1>4, <2>2, OneMade DEF Lock, Steps
    <3> QED
      BY <1>4, <2>1, <2>2, <3>1, OthersKeep, NothingsAssumption DEF Lock, TypeOK, Critical
  <2>3. CASE job[p].call \in Blind /\ Made(p) # Refused
    <3>1. /\ job' \in [Processes -> Jobs]
          /\ job'[p] = [step |-> "opening", call |-> job[p].call, made |-> Made(p)]
          /\ \A q \in Processes : q # p => job'[q] = job[q]
      BY <1>4, <2>1, <2>3, OneMade DEF Lock, Steps
    <3>2. holder = NoOne /\ holder' = p /\ UNCHANGED <<file, temp>>
      BY <1>4, <2>3 DEF Lock
    <3> QED
      BY <2>1, <2>3, <3>1, <3>2, OthersKeep DEF TypeOK, Critical, Made
  <2>4. CASE job[p].call \notin Blind
    <3>1. /\ job' \in [Processes -> Jobs]
          /\ job'[p] = [step |-> "reading", call |-> job[p].call, made |-> job[p].made]
          /\ \A q \in Processes : q # p => job'[q] = job[q]
      BY <1>4, <2>4, OneGoes DEF Lock, Steps
    <3>2. holder = NoOne /\ holder' = p /\ UNCHANGED <<file, temp>>
      BY <1>4, <2>4 DEF Lock
    <3> QED
      BY <2>1, <3>1, <3>2, OthersKeep DEF TypeOK, Critical
  <2> QED
    BY <2>2, <2>3, <2>4
<1>5. ASSUME NEW p \in Processes, Read(p)
      PROVE  IInv'
  <2>1. Made(p) \in Versions \cup {Refused} /\ job[p].call # NoCall /\ holder = p
    BY <1>5, MadeType, NothingsAssumption DEF Read, At, LockInv, Critical
  <2>2. PICK step \in {"unlocking", "opening"} :
          Makes(p, step, Made(p)) /\ (step = "opening" => Made(p) # Refused)
    BY <1>5 DEF Read
  <2>3. /\ job' \in [Processes -> Jobs]
        /\ job'[p] = [step |-> step, call |-> job[p].call, made |-> Made(p)]
        /\ \A q \in Processes : q # p => job'[q] = job[q]
    BY <2>1, <2>2, OneMade DEF Steps
  <2> QED
    BY <1>5, <2>1, <2>2, <2>3, OthersKeep, NothingsAssumption DEF Read, TypeOK, Critical, Made
<1>6. ASSUME NEW p \in Processes, Open(p)
      PROVE  IInv'
  <2>1. /\ holder = p /\ job[p].call # NoCall
        /\ job[p].made = Made(p) /\ job[p].made # Refused
    BY <1>6, MadeType, NothingsAssumption DEF Open, At, LockInv, Critical
  <2>2. /\ job' \in [Processes -> Jobs]
        /\ job'[p] = [step |-> "filling", call |-> job[p].call, made |-> job[p].made]
        /\ \A q \in Processes : q # p => job'[q] = job[q]
    BY <1>6, OneGoes DEF Open, Steps
  <2>3. temp' \in [Temps -> Versions \cup {NoTemp, Torn}]
    BY <1>6, TempsAssumption DEF Open, TypeOK
  <2> QED
    BY <1>6, <2>1, <2>2, <2>3, OthersKeep DEF Open, TypeOK, Critical, Made
<1>7. ASSUME NEW p \in Processes, Fill(p)
      PROVE  IInv'
  <2>1. /\ holder = p /\ job[p].call # NoCall
        /\ job[p].made = Made(p) /\ job[p].made # Refused /\ Made(p) \in Versions
    BY <1>7, MadeType, NothingsAssumption DEF Fill, At, LockInv, Critical
  <2>2. /\ job' \in [Processes -> Jobs]
        /\ job'[p] = [step |-> "replacing", call |-> job[p].call, made |-> job[p].made]
        /\ \A q \in Processes : q # p => job'[q] = job[q]
    BY <1>7, OneGoes DEF Fill, Steps
  <2>3. /\ temp' \in [Temps -> Versions \cup {NoTemp, Torn}]
        /\ temp'[TempOf[p]] = job[p].made
    BY <1>7, <2>1, TempsAssumption DEF Fill, TypeOK
  <2> QED
    BY <1>7, <2>1, <2>2, <2>3, OthersKeep DEF Fill, TypeOK, Critical, Made
<1>8. ASSUME NEW p \in Processes, Replace(p)
      PROVE  IInv'
  <2>1. /\ holder = p /\ job[p].call # NoCall
        /\ temp[TempOf[p]] = job[p].made
        /\ job[p].made = Made(p) /\ job[p].made # Refused /\ Made(p) \in Versions
    BY <1>8, MadeType, NothingsAssumption DEF Replace, At, LockInv, Critical
  <2>2. /\ job' \in [Processes -> Jobs]
        /\ job'[p] = [step |-> "unlocking", call |-> job[p].call, made |-> job[p].made]
        /\ \A q \in Processes : q # p => job'[q] = job[q]
    BY <1>8, OneGoes DEF Replace, Steps
  <2>3. /\ temp' \in [Temps -> Versions \cup {NoTemp, Torn}] /\ file' \in Versions
    BY <1>8, <2>1, TempsAssumption DEF Replace, TypeOK
  <2> QED
    BY <1>8, <2>1, <2>2, <2>3, OthersKeep, NothingsAssumption DEF Replace, TypeOK, Critical
<1>9. ASSUME NEW p \in Processes, Unlock(p)
      PROVE  IInv'
  <2>1. holder = p /\ job[p].call # NoCall /\ job[p].made # NoAnswer
    BY <1>9, MadeType, NothingsAssumption DEF Unlock, At, LockInv, Critical
  <2>2. /\ job' \in [Processes -> Jobs]
        /\ job'[p] = [step |-> "returning", call |-> job[p].call, made |-> job[p].made]
        /\ \A q \in Processes : q # p => job'[q] = job[q]
    BY <1>9, OneGoes DEF Unlock, Steps
  <2> QED
    BY <1>9, <2>1, <2>2, OthersKeep DEF Unlock, TypeOK, Critical
<1>10. ASSUME NEW p \in Processes, Return(p)
       PROVE  IInv'
  <2>1. Idle \in Jobs
    BY DEF Idle, Jobs, Steps
  <2>2. /\ job' \in [Processes -> Jobs] /\ job'[p] = Idle
        /\ \A q \in Processes : q # p => job'[q] = job[q]
    BY <1>10, <2>1, OneJob DEF Return
  <2> QED
    BY <1>10, <2>2, OthersKeep DEF Return, TypeOK, Critical, Idle
<1>11. ASSUME NEW dead \in SUBSET Processes, Die(dead)
       PROVE  IInv'
  <2>1. /\ \A q \in Processes : job'[q] = IF q \in dead THEN Idle ELSE job[q]
        /\ job' = [q \in Processes |-> IF q \in dead THEN Idle ELSE job[q]]
        /\ UNCHANGED <<file, temp>>
        /\ holder' = IF holder \in dead THEN NoOne ELSE holder
    BY <1>11 DEF Die
  <2>2. Idle \in Jobs /\ Idle.step = "idle" /\ Idle.call = NoCall
    BY DEF Idle, Jobs, Steps
  <2>3. TypeOK'
    BY <2>1, <2>2 DEF TypeOK, Jobs
  <2>4. LockInv'
    BY <2>1, <2>2 DEF LockInv, At, Made, Critical
  <2> QED
    BY <2>3, <2>4
<1> QED
  BY <1>1, <1>2, <1>3, <1>4, <1>5, <1>6, <1>7, <1>8, <1>9, <1>10, <1>11
     DEF Next, Proceed

(* The invariant of the lock, for every instance: who is about to write    *)
(* holds the flock, and what it writes is its change to the version there. *)
THEOREM LockInvariant == Spec => []LockInv
<1>1. IInv => LockInv
  BY DEF IInv
<1> QED
  BY <1>1, InitIInv, StepIInv, PTL DEF Spec

-----------------------------------------------------------------------------
(* The refinement: what each process is in, and what it has been answered. *)

CallOf(j) == j.call
AnswerOf(j) == IF j.step \in {"unlocking", "returning"} THEN j.made ELSE NoAnswer

CallsNow == [p \in Processes |-> CallOf(job[p])]
AnswersNow == [p \in Processes |-> AnswerOf(job[p])]

(* A step of one process moves its call and its answer only.               *)
LEMMA OneMoves ==
  ASSUME TypeOK, NEW p \in Processes,
         \A q \in Processes : q # p => job'[q] = job[q]
  PROVE  /\ CallsNow' = [CallsNow EXCEPT ![p] = CallOf(job'[p])]
         /\ AnswersNow' = [AnswersNow EXCEPT ![p] = AnswerOf(job'[p])]
BY DEF CallsNow, AnswersNow, CallOf, AnswerOf

(* A step inside a call that neither answers nor writes.                   *)
LEMMA Silent ==
  ASSUME TypeOK, NEW p \in Processes,
         \A q \in Processes : q # p => job'[q] = job[q],
         CallOf(job'[p]) = CallOf(job[p]), AnswerOf(job'[p]) = AnswerOf(job[p])
  PROVE  CallsNow' = CallsNow /\ AnswersNow' = AnswersNow
BY DEF CallsNow, AnswersNow, CallOf, AnswerOf

(* The step at which a call takes effect: it is answered, and the file is  *)
(* what it makes of the file there was.                                    *)
LEMMA Effective ==
  ASSUME IInv, NEW p \in Processes, job[p].step # "idle",
         \A q \in Processes : q # p => job'[q] = job[q],
         job[p].step \notin {"unlocking", "returning"},
         job'[p].step \in {"unlocking", "returning"},
         job'[p].call = job[p].call, job'[p].made = Made(p),
         file' = IF Made(p) = Refused THEN file ELSE Made(p)
  PROVE  Atomic!TakeEffect(p)
<1>1. /\ job[p].call # NoCall
      /\ CallsNow' = CallsNow /\ CallsNow[p] = job[p].call
      /\ AnswersNow[p] = NoAnswer
      /\ AnswersNow' = [AnswersNow EXCEPT ![p] = Made(p)]
  <2>1. TypeOK /\ job[p].call # NoCall
    BY MadeType, NothingsAssumption DEF IInv
  <2>2. CallsNow' = CallsNow
    BY <2>1 DEF CallsNow, CallOf
  <2>3. AnswersNow' = [AnswersNow EXCEPT ![p] = AnswerOf(job'[p])]
    BY <2>1, OneMoves
  <2> QED
    BY <2>1, <2>2, <2>3 DEF CallsNow, AnswersNow, CallOf, AnswerOf
<1> QED
  BY <1>1 DEF Atomic!TakeEffect, CallsNow, AnswersNow, CallOf, AnswerOf, Made

LEMMA InitRefines == Init => Atomic!Init
BY DEF Init, Atomic!Init, Idle

LEMMA StepRefines == IInv /\ [Next]_vars => [Atomic!Next]_(Atomic!vars)
<1> SUFFICES ASSUME IInv, [Next]_vars PROVE [Atomic!Next]_(Atomic!vars)
  OBVIOUS
<1>0. TypeOK
  BY DEF IInv
<1> DEFINE Stutters == UNCHANGED <<file, CallsNow, AnswersNow>>
<1>s. Stutters => [Atomic!Next]_(Atomic!vars)
  BY DEF Atomic!vars, CallsNow, AnswersNow, CallOf, AnswerOf
<1>t. ASSUME NEW p \in Processes, Atomic!TakeEffect(p)
      PROVE  [Atomic!Next]_(Atomic!vars)
  BY <1>t DEF Atomic!Next
<1>1. CASE UNCHANGED vars
  BY <1>1, <1>s DEF vars, CallsNow, AnswersNow
<1>2. ASSUME NEW p \in Processes, NEW c \in Calls, Invoke(p, c)
      PROVE  [Atomic!Next]_(Atomic!vars)
  <2>1. /\ job[p].step = "idle" /\ job[p].call = NoCall
        /\ job'[p] = Begun(c) /\ file' = file
        /\ \A q \in Processes : q # p => job'[q] = job[q]
    BY <1>0, <1>2 DEF Invoke, At, IInv, LockInv, TypeOK
  <2>2. CallsNow' = [CallsNow EXCEPT ![p] = c] /\ CallsNow[p] = NoCall
    BY <1>0, <2>1, OneMoves DEF CallOf, Begun, CallsNow
  <2>3. Begun(c).step \in {"loading", "waiting"}
    BY DEF Begun
  <2>4. AnswersNow' = AnswersNow
    BY <2>1, <2>3 DEF AnswersNow, AnswerOf
  <2>5. Atomic!Invoke(p, c)
    BY <2>1, <2>2, <2>4 DEF Atomic!Invoke, CallsNow, AnswersNow, CallOf, AnswerOf
  <2> QED
    BY <2>5 DEF Atomic!Next
<1>3. ASSUME NEW p \in Processes, Load(p)
      PROVE  [Atomic!Next]_(Atomic!vars)
  <2>1. /\ job[p].step = "loading" /\ file' = file
        /\ Made(p) \in Versions \cup {Refused}
    BY <1>3, MadeType DEF Load, At
  <2>2. /\ job'[p] = [step |-> "returning", call |-> job[p].call, made |-> Made(p)]
        /\ \A q \in Processes : q # p => job'[q] = job[q]
    BY <1>0, <1>3, <2>1, OneMade DEF Load, Steps
  <2>3. Made(p) \in {file, Refused}
    <3>1. job[p].call \in Loads /\ file \in Versions
      BY <1>0, <2>1 DEF IInv, LockInv, TypeOK
    <3> QED
      BY <3>1, CallsAssumption DEF Made
  <2> QED
    BY <1>t, <2>1, <2>2, <2>3, Effective
<1>4. ASSUME NEW p \in Processes, Lock(p)
      PROVE  [Atomic!Next]_(Atomic!vars)
  <2>1. /\ job[p].step = "waiting" /\ file' = file
        /\ Made(p) \in Versions \cup {Refused}
    BY <1>4, MadeType DEF Lock, At
  <2>2. CASE job[p].call \in Blind /\ Made(p) = Refused
    <3>1. /\ job'[p] = [step |-> "returning", call |-> job[p].call, made |-> Refused]
          /\ \A q \in Processes : q # p => job'[q] = job[q]
      BY <1>0, <1>4, <2>2, OneMade DEF Lock, Steps
    <3> QED
      BY <1>t, <2>1, <2>2, <3>1, Effective
  <2>3. CASE ~ (job[p].call \in Blind /\ Made(p) = Refused)
    <3>1. PICK step \in {"opening", "reading"}, made \in Versions \cup {Refused, NoAnswer} :
            Makes(p, step, made)
      BY <1>0, <1>4, <2>1, <2>3 DEF Lock, Goes, TypeOK
    <3>2. /\ job'[p] = [step |-> step, call |-> job[p].call, made |-> made]
          /\ \A q \in Processes : q # p => job'[q] = job[q]
      BY <1>0, <3>1, OneMade DEF Steps
    <3> QED
      BY <1>0, <1>s, <2>1, <3>2, Silent DEF CallOf, AnswerOf
  <2> QED
    BY <2>2, <2>3
<1>5. ASSUME NEW p \in Processes, Read(p)
      PROVE  [Atomic!Next]_(Atomic!vars)
  <2>1. /\ job[p].step = "reading" /\ file' = file
        /\ Made(p) \in Versions \cup {Refused}
    BY <1>5, MadeType DEF Read, At
  <2>2. PICK step \in {"unlocking", "opening"} :
          /\ Makes(p, step, Made(p))
          /\ step = "unlocking" => Made(p) \in {file, Refused}
    BY <1>5 DEF Read
  <2>3. /\ job'[p] = [step |-> step, call |-> job[p].call, made |-> Made(p)]
        /\ \A q \in Processes : q # p => job'[q] = job[q]
    BY <1>0, <2>1, <2>2, OneMade DEF Steps
  <2>4. CASE step = "unlocking"
    BY <1>t, <2>1, <2>2, <2>3, <2>4, Effective
  <2>5. CASE step = "opening"
    BY <1>0, <1>s, <2>1, <2>3, <2>5, Silent DEF CallOf, AnswerOf
  <2> QED
    BY <2>4, <2>5
<1>6. ASSUME NEW p \in Processes, Open(p) \/ Fill(p) \/ Unlock(p)
      PROVE  [Atomic!Next]_(Atomic!vars)
  <2>1. PICK step \in {"filling", "replacing", "returning"} :
          /\ Goes(p, step) /\ file' = file
          /\ job[p].step \in {"opening", "filling", "unlocking"}
          /\ step = "returning" <=> job[p].step = "unlocking"
    BY <1>6 DEF Open, Fill, Unlock, At
  <2>2. /\ job'[p] = [step |-> step, call |-> job[p].call, made |-> job[p].made]
        /\ \A q \in Processes : q # p => job'[q] = job[q]
    BY <1>0, <2>1, OneGoes DEF Steps
  <2> QED
    BY <1>0, <1>s, <2>1, <2>2, Silent DEF CallOf, AnswerOf
<1>7. ASSUME NEW p \in Processes, Replace(p)
      PROVE  [Atomic!Next]_(Atomic!vars)
  <2>1. /\ job[p].step = "replacing" /\ job[p].made = Made(p) /\ Made(p) # Refused
        /\ file' = Made(p)
    BY <1>7 DEF Replace, At, IInv, LockInv
  <2>2. /\ job'[p] = [step |-> "unlocking", call |-> job[p].call, made |-> job[p].made]
        /\ \A q \in Processes : q # p => job'[q] = job[q]
    BY <1>0, <1>7, OneGoes DEF Replace, Steps
  <2> QED
    BY <1>t, <2>1, <2>2, Effective
<1>8. ASSUME NEW p \in Processes, Return(p)
      PROVE  [Atomic!Next]_(Atomic!vars)
  <2>1. /\ job[p].step = "returning" /\ job[p].made # NoAnswer
        /\ job'[p] = Idle /\ file' = file
        /\ \A q \in Processes : q # p => job'[q] = job[q]
    BY <1>0, <1>8 DEF Return, At, TypeOK, IInv, LockInv
  <2>2. /\ CallsNow' = [CallsNow EXCEPT ![p] = NoCall]
        /\ AnswersNow' = [AnswersNow EXCEPT ![p] = NoAnswer]
        /\ AnswersNow[p] # NoAnswer
    BY <1>0, <2>1, OneMoves DEF CallOf, AnswerOf, Idle, AnswersNow
  <2>3. Atomic!Return(p)
    BY <2>1, <2>2 DEF Atomic!Return, CallsNow, AnswersNow, CallOf, AnswerOf
  <2> QED
    BY <2>3 DEF Atomic!Next
<1>9. ASSUME NEW dead \in SUBSET Processes, Die(dead)
      PROVE  [Atomic!Next]_(Atomic!vars)
  <2>1. Atomic!Die(dead)
    BY <1>9 DEF Die, Atomic!Die, Idle
  <2> QED
    BY <2>1 DEF Atomic!Next
<1> QED
  BY <1>1, <1>2, <1>3, <1>4, <1>5, <1>6, <1>7, <1>8, <1>9 DEF Next, Proceed

(* status.py, "interleaved writers never lose fields": for any writers,    *)
(* calls and temp names the lock, the temp file and the rename make every  *)
(* call one atomic change of the version it found, whoever dies and when.  *)
THEOREM Implementation == Spec => ImplementsAtomicFile
BY InitIInv, StepIInv, InitRefines, StepRefines, PTL
   DEF Spec, ImplementsAtomicFile, Atomic!Spec

=============================================================================
