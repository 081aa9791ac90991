----------------------------- MODULE PairingSet -----------------------------
(***************************************************************************)
(* What the pairing storage promises its callers, independently of slots,  *)
(* counters and files: one set of paired peers that survives restarts.  A  *)
(* call takes effect in one instant between its invocation and its         *)
(* response, and an enumeration answers with the whole set as it is at     *)
(* one such instant.  A restart drops the calls in progress and keeps the  *)
(* set.  PairingStorage is shown to implement this.                        *)
(***************************************************************************)
CONSTANTS
  Peer,         \* the public keys that identify peers
  NoPeer,       \* the argument of a thread that has no call
  Thread        \* the threads that call the storage functions

VARIABLES
  paired,       \* the peers that are paired
  phase,        \* where the call of each thread is: none, asked or answered
  op,           \* the operation each thread has asked for
  arg,          \* its peer
  answer        \* the peers an answered enumeration has reported

vars == <<paired, phase, op, arg, answer>>

Op == {"add", "remove", "enumerate"}

Init ==
  /\ paired = {}
  /\ phase = [t \in Thread |-> "none"]
  /\ op = [t \in Thread |-> "none"]
  /\ arg = [t \in Thread |-> NoPeer]
  /\ answer = [t \in Thread |-> {}]

(* A thread asks for an operation.                                         *)
Invoke(t, o, p) ==
  /\ phase[t] = "none"
  /\ phase' = [phase EXCEPT ![t] = "asked"]
  /\ op' = [op EXCEPT ![t] = o]
  /\ arg' = [arg EXCEPT ![t] = p]
  /\ UNCHANGED <<paired, answer>>

Answer(t) ==
  /\ phase[t] = "asked"
  /\ phase' = [phase EXCEPT ![t] = "answered"]
  /\ UNCHANGED <<op, arg>>

(* Adding a peer that is there already, and removing one that is not, are  *)
(* successes that change nothing.                                          *)
Add(t) ==
  /\ Answer(t)
  /\ op[t] = "add"
  /\ paired' = paired \union {arg[t]}
  /\ UNCHANGED answer

Remove(t) ==
  /\ Answer(t)
  /\ op[t] = "remove"
  /\ paired' = paired \ {arg[t]}
  /\ UNCHANGED answer

Enumerate(t) ==
  /\ Answer(t)
  /\ op[t] = "enumerate"
  /\ answer' = [answer EXCEPT ![t] = paired]
  /\ UNCHANGED paired

Respond(t) ==
  /\ phase[t] = "answered"
  /\ phase' = [phase EXCEPT ![t] = "none"]
  /\ op' = [op EXCEPT ![t] = "none"]
  /\ arg' = [arg EXCEPT ![t] = NoPeer]
  /\ answer' = [answer EXCEPT ![t] = {}]
  /\ UNCHANGED paired

Restart ==
  /\ phase' = [t \in Thread |-> "none"]
  /\ op' = [t \in Thread |-> "none"]
  /\ arg' = [t \in Thread |-> NoPeer]
  /\ answer' = [t \in Thread |-> {}]
  /\ UNCHANGED paired

Next ==
  \/ \E t \in Thread :
       \/ \E o \in Op, p \in Peer : Invoke(t, o, p)
       \/ Add(t)
       \/ Remove(t)
       \/ Enumerate(t)
       \/ Respond(t)
  \/ Restart

Spec == Init /\ [][Next]_vars
=============================================================================
