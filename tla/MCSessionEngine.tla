--------------------------- MODULE MCSessionEngine ---------------------------
(* Small games for SessionEngine. *)
EXTENDS SessionEngine

Phase(duration, events) == [duration |-> duration, events |-> events]

Event(minimum, maximum, cooldown, duration, chance, allowed) ==
  [minimum |-> minimum, maximum |-> maximum, cooldown |-> cooldown,
   duration |-> duration, chance |-> chance, allowed |-> allowed]

(* Two events that alternate by chance, with a boundary inside them. *)
Alternating ==
  [duration |-> 6,
   phases |-> <<Phase(2, <<"cue", "rest">>), Phase(1, <<>>),
                Phase(9, <<"rest", "cue">>)>>,
   events |-> [cue  |-> Event(0, 2, 3, 1, "maybe", {1, 3}),
               rest |-> Event(0, 2, 1, 2, "maybe", {})]]

(* A required event that its cooldown does not stop, an event longer than  *)
(* the phase, a phase that ends with an event, and a session longer than   *)
(* its phases.                                                             *)
Required2 ==
  [duration |-> 7,
   phases |-> <<Phase(2, <<"must", "may">>), Phase(2, <<"may", "must">>)>>,
   events |-> [must |-> Event(1, 3, 4, 1, "maybe", {}),
               may  |-> Event(0, 2, 2, 3, "maybe", {2})]]

(* Certain and impossible events. *)
Certain ==
  [duration |-> 5,
   phases |-> <<Phase(1, <<"no", "sure">>), Phase(2, <<"no", "sure">>),
                Phase(1, <<"sure">>)>>,
   events |-> [no   |-> Event(0, 1, 0, 1, "never", {}),
               sure |-> Event(0, 3, 2, 1, "always", {})]]

SmallGames == {Alternating, Required2, Certain}
=============================================================================
