------------------------------ MODULE LazyCore ------------------------------
(***************************************************************************)
(* What an administrator who sends one request at a time is promised of a  *)
(* proxy core ("lazy start", docs/MASTER_PLAN.md:166).  The core is either *)
(* down or serves a configuration.  A request may change what is wanted    *)
(* and take the core down; it can only bring the core up with what is      *)
(* wanted at that moment, never with an older configuration; and it is     *)
(* over only when the core serves what is wanted, or is down because       *)
(* nothing is.                                                             *)
(***************************************************************************)
CONSTANTS
  Config,     \* configurations
  Wish,       \* what an administrator may want
  Nothing(_), \* a wish for no core at all
  Meets(_, _),\* a configuration is what a wish asks for
  Down

VARIABLES wanted, served, busy

vars == <<wanted, served, busy>>

Settled ==
  IF Nothing(wanted) THEN served = Down
  ELSE served # Down /\ Meets(served, wanted)

Init ==
  /\ wanted \in Wish
  /\ Settled
  /\ busy = FALSE

\* A request arrives; it may change what is wanted, at once or later.
Request ==
  /\ ~busy /\ busy'
  /\ wanted' \in Wish
  /\ UNCHANGED served

Change ==
  /\ busy
  /\ wanted' \in Wish
  /\ UNCHANGED <<served, busy>>

TakeDown ==
  /\ busy
  /\ served' = Down
  /\ UNCHANGED <<wanted, busy>>

BringUp ==
  /\ busy
  /\ served = Down
  /\ ~Nothing(wanted)
  /\ served' \in Config \ {Down}
  /\ Meets(served', wanted)
  /\ UNCHANGED <<wanted, busy>>

Done ==
  /\ busy /\ ~busy'
  /\ Settled
  /\ UNCHANGED <<wanted, served>>

Next == Request \/ Change \/ TakeDown \/ BringUp \/ Done

Spec == Init /\ [][Next]_vars
=============================================================================
