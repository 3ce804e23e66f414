--------------------------- MODULE ExclusiveAccess ---------------------------
(***************************************************************************)
(* What the maintenance coordinator promises, with nothing said about how: *)
(* either any number of workers may change library state, or one           *)
(* maintenance transaction owns it, never both.  MaintenanceGate is shown  *)
(* to implement this specification.                                        *)
(***************************************************************************)
CONSTANTS
  Worker,     \* everything that changes library state under a lease
  Job,        \* maintenance jobs
  Nobody      \* the library has no exclusive owner

VARIABLES
  holders,    \* the workers that hold a lease
  owner       \* the job inside its transaction, or Nobody

accessVars == <<holders, owner>>

AccessInit ==
  /\ holders = {}
  /\ owner = Nobody

\* A lease is granted only while no transaction owns the library.
Grant(w) ==
  /\ owner = Nobody
  /\ w \notin holders
  /\ holders' = holders \cup {w}
  /\ UNCHANGED owner

Return(w) ==
  /\ w \in holders
  /\ holders' = holders \ {w}
  /\ UNCHANGED owner

\* A transaction begins only when every lease has been returned.
Own(j) ==
  /\ owner = Nobody
  /\ holders = {}
  /\ owner' = j
  /\ UNCHANGED holders

Disown(j) ==
  /\ owner = j
  /\ owner' = Nobody
  /\ UNCHANGED holders

AccessNext ==
  \/ \E w \in Worker : Grant(w) \/ Return(w)
  \/ \E j \in Job : Own(j) \/ Disown(j)

AccessSpec == AccessInit /\ [][AccessNext]_accessVars
=============================================================================
