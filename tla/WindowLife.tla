----------------------------- MODULE WindowLife -----------------------------
(***************************************************************************)
(* What internal/queue promises about one window, without saying how: a    *)
(* window (system_id, window_start) is in at most one place of the         *)
(* process, and moves through those places in one order.                   *)
(*                                                                         *)
(*   free      not known to the process; a bundle for it may be offered    *)
(*   offered   a request claimed it and has not yet sent it to the buffer  *)
(*   queued    acknowledged and buffered                                   *)
(*   running   one worker's handler is analysing it                        *)
(*   orphaned  its request died between claim and send                     *)
(***************************************************************************)
CONSTANT Window

VARIABLE stage          \* stage[w]: where window w is

Stage == {"free", "offered", "queued", "running", "orphaned"}

TypeOK == stage \in [Window -> Stage]

Init == stage = [w \in Window |-> "free"]

Move(w, from, to) ==
  /\ stage[w] = from
  /\ stage' = [stage EXCEPT ![w] = to]

Offer(w)  == Move(w, "free", "offered")
Accept(w) == Move(w, "offered", "queued")
Refuse(w) == Move(w, "offered", "free")
Orphan(w) == Move(w, "offered", "orphaned")
Run(w)    == Move(w, "queued", "running")
Retire(w) == Move(w, "running", "free")

\* A process restart: nothing the process held survives it.
Restart == stage' = [w \in Window |-> "free"]

Next ==
  \/ \E w \in Window :
       \/ Offer(w)
       \/ Accept(w)
       \/ Refuse(w)
       \/ Orphan(w)
       \/ Run(w)
       \/ Retire(w)
  \/ Restart

Spec == Init /\ [][Next]_stage
=============================================================================
