------------------------------ MODULE Installer ------------------------------
(***************************************************************************)
(* What the browser cache promises to processes that use it one after      *)
(* another, without files: an install appears whole in one step and stays  *)
(* as it is until somebody asks for its removal, or the cache is emptied,  *)
(* which happens only to a cache without its mark.  Installs are handed    *)
(* out from a marked cache, and are then the active one, unless the        *)
(* network or the disk failed the operation, which may say nothing of it.  *)
(* A removal takes time; a process that dies in the middle of one, or      *)
(* fails to finish it, leaves the install spoilt; nothing else than such a *)
(* one, or a whole one, is ever handed out.                                *)
(***************************************************************************)
CONSTANT Versions

VARIABLES
  install,    (* what there is of each version                             *)
  active,     (* the version that ExecPath looks for, if any               *)
  promised,   (* the versions handed out and not withdrawn since           *)
  working,    (* whether a process is in an operation,                     *)
  leave,      (* the version it is to take away, if any,                   *)
  made,       (* the version it has installed and not yet handed out       *)
  answer,     (* what the last operation returned, if it did               *)
  marked,     (* whether the cache has the mark of its layout              *)
  hurt        (* whether network or disk have failed the last operation    *)

vars == <<install, active, promised, working, leave, made, answer, marked, hurt>>

Init ==
  /\ install = [v \in Versions |-> "absent"]
  /\ active = {} /\ promised = {} /\ working = FALSE
  /\ leave = {} /\ made = {} /\ answer = {}
  /\ marked = FALSE /\ hurt = FALSE

Begin(vs) ==
  /\ ~working
  /\ working' = TRUE /\ leave' = vs /\ answer' = {} /\ hurt' = FALSE
  /\ UNCHANGED <<install, active, promised, made, marked>>

End ==
  /\ working /\ working' = FALSE /\ leave' = {} /\ made' = {}
  /\ hurt' \in {hurt, TRUE} /\ UNCHANGED marked

(* What a step of a removal may make of an install. *)
Less(state) == {state, IF state = "whole" THEN "torn" ELSE "absent"}
Shrink(v)   == \E state \in Less(install[v]) : install' = [install EXCEPT ![v] = state]

(* A version that is to be taken away is promised to nobody. *)
Withdraw(v) ==
  /\ working /\ made = {} /\ v \in leave
  /\ promised' = promised \ {v}
  /\ Shrink(v)
  /\ UNCHANGED <<active, working, leave, made, answer, marked, hurt>>

Empty ==
  /\ working /\ made = {} /\ ~marked
  /\ promised' = {}
  /\ \/ (\E v \in Versions : Shrink(v)) /\ UNCHANGED active
     \/ active' \in SUBSET active /\ UNCHANGED install
  /\ UNCHANGED <<working, leave, made, answer, marked, hurt>>

Install(v) ==
  /\ working /\ made = {}
  /\ install[v] \in {"absent", "spoilt"}
  /\ install' = [install EXCEPT ![v] = "whole"] /\ made' = {v}
  /\ UNCHANGED <<active, promised, working, leave, answer, marked, hurt>>

Mark ==
  /\ working /\ made # {}
  /\ marked' = TRUE
  /\ UNCHANGED <<install, active, promised, working, leave, made, answer, hurt>>

(* While the new one is made active, none is. *)
Deactivate ==
  /\ working /\ made # {}
  /\ active' = {}
  /\ UNCHANGED <<install, promised, working, leave, made, answer, marked, hurt>>

(* What was installed is handed out, or what was there. *)
HandOut(v) ==
  /\ End
  /\ marked \/ hurt'
  /\ \/ made = {v} /\ (active' = {v} \/ (hurt' /\ UNCHANGED active))
     \/ made = {} /\ leave = {} /\ UNCHANGED active
  /\ install[v] \in {"whole", "spoilt"}
  /\ promised' = promised \cup {v} /\ answer' = {v}
  /\ UNCHANGED install

(* The installs a removal may be cutting. *)
Going     == {v \in Versions : made = {} /\ (v \in leave \/ ~marked)}
Spoil(hit) ==
  install' = [v \in Versions |-> IF v \in hit /\ install[v] # "absent"
                                 THEN "spoilt" ELSE install[v]]

(* Something fails, and the operation goes on, without the installs it     *)
(* gave up removing.                                                       *)
Fail ==
  /\ working /\ hurt' = TRUE
  /\ \E hit \in SUBSET Going : Spoil(hit) /\ promised' = promised \ hit
  /\ UNCHANGED <<active, working, leave, made, answer, marked>>

(* An operation fails before it has installed anything. *)
Refuse ==
  /\ End /\ made = {}
  /\ \E hit \in SUBSET Going :
       /\ hit = {} \/ hurt'
       /\ Spoil(hit) /\ promised' = promised \ hit
  /\ answer' = {"error"}
  /\ UNCHANGED active

(* It is done when what it was to take away is gone. *)
Finish ==
  /\ End /\ made = {}
  /\ \A v \in leave : install[v] = "absent"
  /\ promised' = promised \ leave /\ answer' = {"ok"}
  /\ UNCHANGED <<install, active>>

(* The process dies.  What it may have been removing counts as spoilt, and *)
(* nothing stays torn.                                                     *)
Die ==
  /\ End
  /\ \E hit \in SUBSET Going :
       /\ \A v \in Versions : install[v] = "torn" => v \in hit
       /\ Spoil(hit)
  /\ UNCHANGED <<active, promised, answer>>

Next ==
  \/ Begin({}) \/ \E v \in Versions : Begin({v})
  \/ \E v \in Versions : Withdraw(v) \/ Install(v) \/ HandOut(v)
  \/ Empty \/ Mark \/ Deactivate \/ Fail \/ Refuse \/ Finish \/ Die

Spec == Init /\ [][Next]_vars
=============================================================================
