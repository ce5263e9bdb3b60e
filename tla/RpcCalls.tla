------------------------------ MODULE RpcCalls ------------------------------
(***************************************************************************)
(* What juggler.Client promises its callers, without pipes, ids or         *)
(* goroutines.  A call is opened once and finished once.  It may finish    *)
(* with an answer only when the browser has served that very call, it may  *)
(* finish as "closed" only when the client is down, and it may fail for    *)
(* any other reason at any time: nothing about a failed call says whether  *)
(* the browser has executed it, so a call may be served after it failed.   *)
(***************************************************************************)
CONSTANT Calls

VARIABLES
  call,     (* what each call looks like to the goroutine that makes it    *)
  served,   (* the calls the browser has executed and answered             *)
  down      (* the client no longer works                                  *)

vars == <<call, served, down>>

Finished == {"answered", "failed", "closed"}

TypeOK ==
  /\ call \in [Calls -> {"new", "open"} \cup Finished]
  /\ served \subseteq Calls
  /\ down \in BOOLEAN

Init ==
  /\ call = [c \in Calls |-> "new"]
  /\ served = {}
  /\ down = FALSE

Open(c) ==
  /\ call[c] = "new"
  /\ call' = [call EXCEPT ![c] = "open"]
  /\ UNCHANGED <<served, down>>

Serve(c) ==
  /\ call[c] # "new"
  /\ c \notin served
  /\ served' = served \cup {c}
  /\ UNCHANGED <<call, down>>

Finish(c, how) ==
  /\ call[c] = "open"
  /\ how = "answered" => c \in served
  /\ how = "closed" => down
  /\ call' = [call EXCEPT ![c] = how]
  /\ UNCHANGED <<served, down>>

GoDown ==
  /\ ~down
  /\ down' = TRUE
  /\ UNCHANGED <<call, served>>

Next ==
  \/ \E c \in Calls : Open(c) \/ Serve(c)
  \/ \E c \in Calls, how \in Finished : Finish(c, how)
  \/ GoDown

Safety == Init /\ [][Next]_vars

(* Every call that is opened finishes. *)
Fairness == \A c \in Calls : WF_vars(\E how \in Finished : Finish(c, how))

Spec == Safety /\ Fairness

=============================================================================
