---------------------------- MODULE AtomicFile ----------------------------
(***************************************************************************)
(* What a file that several processes update promises them: a call takes   *)
(* effect at one instant between its invocation and its return, on the     *)
(* version the file has then, and a process that dies in a call has made   *)
(* it or has not.  LockedFile implements this with a lock and a rename.    *)
(***************************************************************************)
CONSTANTS
  Processes,
  Calls,      \* what a process may ask of the file
  Versions,   \* contents of the file, its absence included
  Effect,     \* call -> version -> the version it makes, or Refused
  Refused,    \* the answer of a call that raises
  NoCall,
  NoAnswer

VARIABLES
  version,    \* the file
  call,       \* process -> the call it is in
  answer      \* process -> its answer, once the call has taken effect

vars == <<version, call, answer>>

Init ==
  /\ version \in Versions
  /\ call = [p \in Processes |-> NoCall]
  /\ answer = [p \in Processes |-> NoAnswer]

Invoke(p, c) ==
  /\ call[p] = NoCall
  /\ call' = [call EXCEPT ![p] = c]
  /\ UNCHANGED <<version, answer>>

TakeEffect(p) ==
  /\ call[p] # NoCall /\ answer[p] = NoAnswer
  /\ LET made == Effect[call[p]][version] IN
       /\ answer' = [answer EXCEPT ![p] = made]
       /\ version' = IF made = Refused THEN version ELSE made
  /\ UNCHANGED call

Return(p) ==
  /\ answer[p] # NoAnswer
  /\ call' = [call EXCEPT ![p] = NoCall]
  /\ answer' = [answer EXCEPT ![p] = NoAnswer]
  /\ UNCHANGED version

(* A container that is killed takes all its processes at once.             *)
Die(dead) ==
  /\ call' = [p \in Processes |-> IF p \in dead THEN NoCall ELSE call[p]]
  /\ answer' = [p \in Processes |-> IF p \in dead THEN NoAnswer ELSE answer[p]]
  /\ UNCHANGED version

Next ==
  \/ \E p \in Processes : TakeEffect(p) \/ Return(p) \/ \E c \in Calls : Invoke(p, c)
  \/ \E dead \in SUBSET Processes : Die(dead)

Spec == Init /\ [][Next]_vars

=============================================================================
