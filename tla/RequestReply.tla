----------------------------- MODULE RequestReply -----------------------------
(***************************************************************************)
(* What a debugger session promises its callers, without saying how: a     *)
(* call that was issued is settled at most once, with the answer to that   *)
(* very call or with an error; it returns the value it was settled with    *)
(* (or the failure of its own write); a call is refused only when the      *)
(* session is gone or the call is unfit for it, and never again issued.    *)
(*                                                                         *)
(* A successful value is represented by the call it answers, so a value    *)
(* delivered to the wrong caller is visible.                               *)
(***************************************************************************)
CONSTANTS Commands,   \* the calls of sendCommand
          Unfit,      \* the calls no session like this one accepts
          Errors,     \* the errors a call can be settled with
          Open,       \* a call that is not settled yet
          Refused,    \* the error of a call made on a session that is gone
          WriteError  \* the error of a call whose own write failed

VARIABLES phase,      \* phase[c]: where the call stands for its caller
          value,      \* value[c]: what the call was settled with
          alive       \* the session accepts calls

vars == <<phase, value, alive>>

Init ==
    /\ phase = [c \in Commands |-> "new"]
    /\ value = [c \in Commands |-> Open]
    /\ alive = TRUE

(* The call is accepted: from now on it can be settled. *)
Issue(c) ==
    /\ phase[c] = "new"
    /\ alive /\ c \notin Unfit
    /\ phase' = [phase EXCEPT ![c] = "issued"]
    /\ UNCHANGED <<value, alive>>

Refuse(c) ==
    /\ phase[c] = "new"
    /\ ~alive \/ c \in Unfit
    /\ phase' = [phase EXCEPT ![c] = "returned"]
    /\ value' = [value EXCEPT ![c] = Refused]
    /\ UNCHANGED alive

(* The peer's answer to this call, and to no other, reaches it. *)
Answer(c) ==
    /\ phase[c] \in {"issued", "abandoned"}
    /\ value[c] = Open
    /\ value' = [value EXCEPT ![c] = c]
    /\ UNCHANGED <<phase, alive>>

(* One failure may settle many calls, each of them for the first time. *)
Fail(S, e) ==
    /\ \A c \in S : phase[c] \in {"issued", "abandoned"} /\ value[c] = Open
    /\ value' = [c \in Commands |-> IF c \in S THEN e ELSE value[c]]
    /\ UNCHANGED <<phase, alive>>

Return(c) ==
    /\ phase[c] = "issued"
    /\ value[c] # Open
    /\ phase' = [phase EXCEPT ![c] = "returned"]
    /\ UNCHANGED <<value, alive>>

(* The call's own write failed: its caller is told so at once. *)
ReturnWriteError(c) ==
    /\ phase[c] = "issued"
    /\ phase' = [phase EXCEPT ![c] = "returned"]
    /\ value' = [value EXCEPT ![c] = IF @ = Open THEN WriteError ELSE @]
    /\ UNCHANGED alive

(* The caller is interrupted and stops waiting. *)
Abandon(c) ==
    /\ phase[c] = "issued"
    /\ phase' = [phase EXCEPT ![c] = "abandoned"]
    /\ UNCHANGED <<value, alive>>

Close ==
    /\ alive' = FALSE
    /\ UNCHANGED <<phase, value>>

Next ==
    \/ \E c \in Commands :
         \/ Issue(c)
         \/ Refuse(c)
         \/ Answer(c)
         \/ Return(c)
         \/ ReturnWriteError(c)
         \/ Abandon(c)
    \/ \E S \in SUBSET Commands, e \in Errors : Fail(S, e)
    \/ Close

Spec == Init /\ [][Next]_vars
===============================================================================
