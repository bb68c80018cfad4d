---------------------------- MODULE LockedFile ----------------------------
(***************************************************************************)
(* A JSON file that several processes rewrite: every read, change and      *)
(* write is made under an exclusive flock on a sidecar file and lands      *)
(* through a temp file and os.replace; readers take no lock.               *)
(* squadra.status and squadra.fake_board both do it this way, with one     *)
(* temp name for all (`status.json.tmp`) and one per call (mkstemp).       *)
(*                                                                         *)
(* os.replace is atomic, an open file keeps the version it was opened on,  *)
(* and the operating system drops the flock of a process that dies.        *)
(***************************************************************************)
CONSTANTS
  Processes,
  Calls,
  Loads,      \* calls that only read, without the lock
  Blind,      \* calls that overwrite the file unread
  Skips,      \* calls that write nothing when they change nothing
  Versions, Effect,
  Temps,      \* names of temp files
  TempOf,     \* process -> the name it writes to
  Refused,    \* the answer of a call that raises
  NoCall, NoAnswer, NoOne, NoTemp,
  Torn        \* a file of which a part is written

ASSUME CallsAssumption ==
  /\ Loads \cup Blind \cup Skips \subseteq Calls
  /\ Effect \in [Calls -> [Versions -> Versions \cup {Refused}]]
  /\ \A c \in Loads : \A v \in Versions : Effect[c][v] \in {v, Refused}
  /\ \A c \in Blind : \A v, w \in Versions : Effect[c][v] = Effect[c][w]
ASSUME TempsAssumption == TempOf \in [Processes -> Temps]
ASSUME NothingsAssumption ==
  /\ NoCall \notin Calls /\ NoOne \notin Processes
  /\ Refused \notin Versions /\ NoTemp \notin Versions
  /\ NoAnswer \notin Versions \cup {Refused}

VARIABLES
  file,     \* the file: the version a reader gets
  temp,     \* temp files: a version, part of one, or none
  holder,   \* the process that holds the flock
  job       \* process -> its call, how far it is, what the call makes

vars == <<file, temp, holder, job>>

Steps ==
  {"idle", "loading", "waiting", "reading", "opening", "filling", "replacing",
   "unlocking", "returning"}
Critical == {"reading", "opening", "filling", "replacing", "unlocking"}

Idle == [step |-> "idle", call |-> NoCall, made |-> NoAnswer]

At(p, step) == job[p].step = step
Makes(p, step, made) ==
  job' = [job EXCEPT ![p] = [step |-> step, call |-> job[p].call, made |-> made]]
Goes(p, step) == Makes(p, step, job[p].made)

(* What the call of p makes of the version that is there.                  *)
Made(p) == Effect[job[p].call][file]

Init ==
  /\ file \in Versions
  /\ temp = [t \in Temps |-> NoTemp]
  /\ holder = NoOne
  /\ job = [p \in Processes |-> Idle]

(* Mutation: a change is made without taking the lock.                     *)
BegunUnlocked(c) ==
  [step |-> IF c \in Loads THEN "loading" ELSE "reading", call |-> c, made |-> NoAnswer]

Begun(c) ==
  [step |-> IF c \in Loads THEN "loading" ELSE "waiting", call |-> c, made |-> NoAnswer]

Invoke(p, c) ==
  /\ At(p, "idle")
  /\ job' = [job EXCEPT ![p] = Begun(c)]
  /\ UNCHANGED <<file, temp, holder>>

Load(p) ==
  /\ At(p, "loading")
  /\ Makes(p, "returning", Made(p))
  /\ UNCHANGED <<file, temp, holder>>

(* Mutation: the flock is shared.                                          *)
LockShared(p) ==
  /\ At(p, "waiting")
  /\ holder' = p
  /\ Goes(p, "reading")
  /\ UNCHANGED <<file, temp>>

(* A blind write is validated before it takes the lock.                    *)
Lock(p) ==
  /\ At(p, "waiting")
  /\ IF job[p].call \in Blind /\ Made(p) = Refused
       THEN Makes(p, "returning", Refused) /\ UNCHANGED holder
       ELSE /\ holder = NoOne
            /\ holder' = p
            /\ IF job[p].call \in Blind
                 THEN Makes(p, "opening", Made(p))
                 ELSE Goes(p, "reading")
  /\ UNCHANGED <<file, temp>>

(* Mutation: a refused change leaves without the lock being released.      *)
ReadAndLeave(p) ==
  /\ At(p, "reading")
  /\ IF Made(p) = Refused THEN Makes(p, "returning", Refused)
     ELSE Makes(p, "opening", Made(p))
  /\ UNCHANGED <<file, temp, holder>>

Read(p) ==
  /\ At(p, "reading")
  /\ IF Made(p) = Refused \/ (job[p].call \in Skips /\ Made(p) = file)
       THEN Makes(p, "unlocking", Made(p))
       ELSE Makes(p, "opening", Made(p))
  /\ UNCHANGED <<file, temp, holder>>

(* Mutation: the file is written where it is.                              *)
OpenInPlace(p) ==
  /\ At(p, "opening")
  /\ file' = Torn
  /\ Goes(p, "filling")
  /\ UNCHANGED <<temp, holder>>

(* The temp file is truncated, then filled; what a dead process left there *)
(* is overwritten.                                                         *)
Open(p) ==
  /\ At(p, "opening")
  /\ temp' = [temp EXCEPT ![TempOf[p]] = Torn]
  /\ Goes(p, "filling")
  /\ UNCHANGED <<file, holder>>

Fill(p) ==
  /\ At(p, "filling")
  /\ temp' = [temp EXCEPT ![TempOf[p]] = job[p].made]
  /\ Goes(p, "replacing")
  /\ UNCHANGED <<file, holder>>

(* os.replace finds the temp file: under the lock nobody else takes it.    *)
Replace(p) ==
  /\ At(p, "replacing") /\ temp[TempOf[p]] # NoTemp
  /\ file' = temp[TempOf[p]]
  /\ temp' = [temp EXCEPT ![TempOf[p]] = NoTemp]
  /\ Goes(p, "unlocking")
  /\ UNCHANGED holder

Unlock(p) ==
  /\ At(p, "unlocking")
  /\ holder' = NoOne
  /\ Goes(p, "returning")
  /\ UNCHANGED <<file, temp>>

Return(p) ==
  /\ At(p, "returning")
  /\ job' = [job EXCEPT ![p] = Idle]
  /\ UNCHANGED <<file, temp, holder>>

Die(dead) ==
  /\ job' = [p \in Processes |-> IF p \in dead THEN Idle ELSE job[p]]
  /\ holder' = IF holder \in dead THEN NoOne ELSE holder
  /\ UNCHANGED <<file, temp>>

(* What a process does by itself inside a call.                            *)
Proceed(p) ==
  Load(p) \/ Lock(p) \/ Read(p) \/ Open(p) \/ Fill(p) \/ Replace(p) \/ Unlock(p)

Next ==
  \/ \E p \in Processes : Proceed(p) \/ Return(p) \/ \E c \in Calls : Invoke(p, c)
  \/ \E dead \in SUBSET Processes : Die(dead)

Spec == Init /\ [][Next]_vars

-----------------------------------------------------------------------------

TypeOK ==
  /\ file \in Versions
  /\ temp \in [Temps -> Versions \cup {NoTemp, Torn}]
  /\ holder \in Processes \cup {NoOne}
  /\ job \in [Processes -> [step : Steps, call : Calls \cup {NoCall},
                            made : Versions \cup {Refused, NoAnswer}]]

(* _status_lock: the lock is what its critical section needs it to be.  A  *)
(* process in it holds the lock, what it is about to write is its change   *)
(* to the version that is there and no refusal, and its temp file, whose   *)
(* name others share, holds nothing else.                                  *)
LockInv ==
  \A p \in Processes :
    /\ job[p].step \in Critical => holder = p
    /\ job[p].step = "idle" <=> job[p].call = NoCall
    /\ job[p].step = "loading" => job[p].call \in Loads
    /\ job[p].step \in {"opening", "filling", "replacing"}
         => job[p].made = Made(p) /\ job[p].made # Refused
    /\ job[p].step = "replacing" => temp[TempOf[p]] = job[p].made
    /\ job[p].step \in {"unlocking", "returning"} => job[p].made # NoAnswer

(* A call has taken effect once the file was replaced, or once it read     *)
(* that there is nothing to write.                                         *)
Atomic ==
  INSTANCE AtomicFile WITH
    version <- file,
    call    <- [p \in Processes |-> job[p].call],
    answer  <- [p \in Processes |->
                  IF job[p].step \in {"unlocking", "returning"}
                    THEN job[p].made ELSE NoAnswer]

(* status.py, "interleaved writers never lose fields" and "readers never   *)
(* observe partial JSON": whatever runs between lock, read, write and      *)
(* rename, and whoever dies there, each call is one atomic change of the   *)
(* version it found.                                                       *)
ImplementsAtomicFile == Atomic!Spec

=============================================================================
