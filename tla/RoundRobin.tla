----------------------------- MODULE RoundRobin -----------------------------
(***************************************************************************)
(* FairAPIRuntime with a history variable that counts how often one batch  *)
(* was served while another one was waiting: the promise the round robin   *)
(* of _ready_batches makes.                                                *)
(***************************************************************************)
EXTENDS FairAPIRuntime

VARIABLE served  \* served[c][d]: dispatches of d since c last was unable to
                 \* dispatch or was served itself

Waits(c) == c \in batches /\ CanDispatch(c, batch[c])

Recount(c, d) ==
  IF ~Waits(c) \/ batch'[c].next > batch[c].next THEN 0
  ELSE served[c][d] + (batch'[d].next - batch[d].next)

TurnInit == Init /\ served = [c \in Calls |-> [d \in Calls |-> 0]]
TurnNext == Next /\ served' = [c \in Calls |-> [d \in Calls |-> Recount(c, d)]]
TurnSpec == TurnInit /\ [][TurnNext]_<<vars, served>>
FairTurnSpec == TurnSpec /\ Fairness

\* Round robin: no other batch is served twice while a batch that can
\* dispatch waits for its turn (README: 各帖子共享固定大小的 API worker 池).
AtMostOneOvertake == \A c, d \in Calls : served[c][d] <= 1
=============================================================================
