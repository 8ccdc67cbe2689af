------------------------------ MODULE Promises ------------------------------
(***************************************************************************)
(* What execute() promises to those who call it, without nodes, attempts,  *)
(* clocks and delays: one call of the network at a time, a limited number  *)
(* of them, and one result, once and for all.  A result that speaks for    *)
(* the network comes from a call that was under way, any other one is      *)
(* given while none is.  Module Executable implements it.                  *)
(***************************************************************************)
EXTENDS Integers

CONSTANTS Caller,      \* execute() calls
          Limit,       \* the greatest number of network calls of one
          Answer,      \* results that a network call gave
          Refusal,     \* results of the loop itself
          NoResult

VARIABLES state,    \* "new", "pending", "calling" or "settled"
          made,     \* network calls so far
          result

promiseVars == <<state, made, result>>

PromiseInit ==
  /\ state = [c \in Caller |-> "new"]
  /\ made = [c \in Caller |-> 0]
  /\ result = [c \in Caller |-> NoResult]

Begin(c) ==
  /\ state[c] = "new"
  /\ state' = [state EXCEPT ![c] = "pending"]
  /\ UNCHANGED <<made, result>>

Call(c) ==
  /\ state[c] = "pending" /\ made[c] < Limit
  /\ state' = [state EXCEPT ![c] = "calling"]
  /\ made' = [made EXCEPT ![c] = @ + 1]
  /\ UNCHANGED result

\* The call ended in a way that is tried again.
CallEnds(c) ==
  /\ state[c] = "calling"
  /\ state' = [state EXCEPT ![c] = "pending"]
  /\ UNCHANGED <<made, result>>

Settled(c, value) ==
  /\ \/ state[c] = "calling" /\ value \in Answer
     \/ state[c] = "pending" /\ value \in Refusal
  /\ result' = [result EXCEPT ![c] = value]
  /\ state' = [state EXCEPT ![c] = "settled"]
  /\ UNCHANGED made

PromiseNext ==
  \E c \in Caller :
    \/ Begin(c) \/ Call(c) \/ CallEnds(c)
    \/ \E value \in Answer \cup Refusal : Settled(c, value)

PromiseSpec == PromiseInit /\ [][PromiseNext]_promiseVars
=============================================================================
