--------------------------- MODULE CommandService ---------------------------
(***************************************************************************)
(* What the controllers of units/ (MIM, CIM, MOM, BufSync: one command     *)
(* queue, one handler thread, a completion callback) promise a client: an  *)
(* accepted command is answered exactly once, by its completion callback,  *)
(* and the service goes away only when every command has been answered.    *)
(***************************************************************************)
EXTENDS Naturals

CONSTANT Commands

VARIABLES open,     \* does the context exist?
          pending   \* pending[c]: commands c accepted and not yet answered

serviceVars == <<open, pending>>

Idle == [c \in Commands |-> 0]

ServiceInit == ~open /\ pending = Idle

Open == ~open /\ open' = TRUE /\ UNCHANGED pending

Accept(c) ==
  /\ open
  /\ pending' = [pending EXCEPT ![c] = @ + 1]
  /\ UNCHANGED open

Answer(c) ==
  /\ pending[c] > 0
  /\ pending' = [pending EXCEPT ![c] = @ - 1]
  /\ UNCHANGED open

Close == open /\ pending = Idle /\ open' = FALSE /\ UNCHANGED pending

ServiceNext ==
  \/ Open
  \/ \E c \in Commands : Accept(c) \/ Answer(c)
  \/ Close

ServiceSpec ==
  /\ ServiceInit /\ [][ServiceNext]_serviceVars
  /\ \A c \in Commands : WF_serviceVars(Answer(c))
=============================================================================
