--------------------------- MODULE PlayerBridgeProofs ---------------------------
(***************************************************************************)
(* Proofs about the embedded player, for every bound and queue capacity:   *)
(* the last pause or resume wins over the panic key                        *)
(* (PlayerBridge!PauseIsRestored), and a status is about the medium that   *)
(* is played now (TypeOK and StatusIsOwn).                                 *)
(*                                                                         *)
(* The first argument follows the last pause or resume in the queue.       *)
(* While it is there, it is one of the states that may be in force; once   *)
(* it is not, the state that libmpv has, or that the worker will give      *)
(* back, is.  What the worker gives back is applied after the first        *)
(* command it takes when the panic has ended, so this command must not be  *)
(* that last one: the volume that panic_restore sends before the pause     *)
(* state sees to it; when it hid no video it sends neither, and history    *)
(* lets the first pause or resume be either.                               *)
(*                                                                         *)
(* The second one follows a status on its way: what libmpv has still to    *)
(* say, what is queued, what the window believes.  Generations never go    *)
(* back along the queue to the worker, and the first command of a          *)
(* generation is a Load or a Stop; when the worker comes to it, what       *)
(* libmpv says of an older medium is what history calls left.  Draining    *)
(* and labelling are folds of any length, followed step by step: the first *)
(* step that breaks the promise would have a step before it that keeps it. *)
(***************************************************************************)
EXTENDS PlayerBridge, TLAPS, WellFoundedInduction

Asking == {"pause", "resume"}

Kinds == Asking \cup {"load", "stop", "set", "shutdown"}

Commands == [generation : Nat, kind : Kinds]

\* No command of the queue pauses or resumes, ...
Silent(q) == \A i \in DOMAIN q : q[i].kind \notin Asking

\* ... the last that does is among the kinds a, ...
LastIn(q, a) ==
  \A i \in DOMAIN q :
    /\ q[i].kind \in Asking
    /\ \A j \in DOMAIN q : j > i => q[j].kind \notin Asking
    => q[i].kind \in a

\* ... and the first is also the last.
FirstIsLast(q) ==
  /\ q # <<>>
  /\ q[1].kind \in Asking
  /\ \A j \in DOMAIN q : j > 1 => q[j].kind \notin Asking

\* r is q and commands that neither pause nor resume.
Extends(q, r) ==
  /\ r \in Seq(Commands)
  /\ Len(q) <= Len(r)
  /\ \A i \in 1..Len(q) : r[i] = q[i]
  /\ \A i \in 1..Len(r) : i > Len(q) => r[i].kind \notin Asking

Types ==
  /\ generation \in Nat
  /\ commands \in Seq(Commands)
  /\ suspended \in BOOLEAN /\ wasSuspended \in BOOLEAN /\ restorePaused \in BOOLEAN
  /\ "paused" \in DOMAIN mpv /\ mpv.paused \in BOOLEAN
  /\ "active" \in DOMAIN view

\* The window is hidden exactly while the flag is set, and libmpv starts playing.
Modes ==
  /\ ui = "open" => (suspended <=> panic # {})
  /\ ui = "restoring" => ~suspended
  /\ worker \in {"none", "starting", "dead"} => ~mpv.paused

Promise ==
  ui = "open" /\ ~suspended =>
    /\ worker \in {"starting", "turn", "pull"} => LastIn(commands, asked)
    /\ worker = "starting" /\ Silent(commands) => "resume" \in asked
    /\ worker \in {"turn", "pull"} /\ Silent(commands) =>
         Pausing(IF wasSuspended THEN restorePaused ELSE mpv.paused) \in asked
    /\ worker \in {"turn", "pull"} /\ wasSuspended /\ FirstIsLast(commands) =>
         Asking \subseteq asked

IInv == Types /\ Modes /\ Promise

-----------------------------------------------------------------------------
(* The queue.                                                              *)

\* What the promise says of a queue holds of what extends it.
LEMMA ExtendsKeeps ==
  ASSUME NEW q \in Seq(Commands), NEW r, Extends(q, r), NEW a
  PROVE  /\ LastIn(q, a) => LastIn(r, a)
         /\ Silent(r) => Silent(q)
         /\ FirstIsLast(r) => FirstIsLast(q)
         /\ q # <<>> => r # <<>>
<1>1. r \in Seq(Commands) /\ DOMAIN q = 1..Len(q) /\ DOMAIN r = 1..Len(r)
  BY DEF Extends
<1>2. Len(q) \in Nat /\ Len(r) \in Nat /\ Len(q) <= Len(r)
  BY <1>1 DEF Extends
<1>3. q # <<>> => r # <<>>
  BY <1>1, <1>2 DEF Extends
<1>4. Silent(r) => Silent(q)
  BY <1>1, <1>2 DEF Extends, Silent
<1>5. ASSUME FirstIsLast(r)
      PROVE  FirstIsLast(q)
  <2>1. 1 \in 1..Len(r) /\ ~(1 > Len(q))
    BY <1>1, <1>2, <1>5 DEF Extends, FirstIsLast
  <2> QED
    BY <1>1, <1>2, <1>5, <2>1 DEF Extends, FirstIsLast
<1>6. ASSUME LastIn(q, a), NEW i \in DOMAIN r, r[i].kind \in Asking,
             \A j \in DOMAIN r : j > i => r[j].kind \notin Asking
      PROVE  r[i].kind \in a
  <2>1. i \in 1..Len(q) /\ r[i] = q[i]
    BY <1>1, <1>2, <1>6 DEF Extends
  <2>2. \A j \in DOMAIN q : j > i => q[j].kind \notin Asking
    BY <1>1, <1>2, <1>6 DEF Extends
  <2> QED
    BY <1>1, <1>6, <2>1, <2>2 DEF LastIn
<1> QED
  BY <1>3, <1>4, <1>5, <1>6 DEF LastIn

LEMMA ExtendsItself ==
  ASSUME NEW q \in Seq(Commands)
  PROVE  Extends(q, q)
BY DEF Extends

\* A command that was sent, or refused, which neither pauses nor resumes.
LEMMA SentExtends ==
  ASSUME NEW q \in Seq(Commands), NEW p, NEW g \in Nat, NEW kind \in Kinds \ Asking
  PROVE  Extends(q, Sent(p, g, q, kind).commands)
<1>1. CASE Accepts(q)
  <2>1. Sent(p, g, q, kind).commands = Append(q, Command(g, kind))
    BY <1>1 DEF Sent
  <2>2. Command(g, kind) \in Commands /\ Command(g, kind).kind = kind
    BY DEF Command, Commands, Kinds
  <2> QED
    BY <2>1, <2>2 DEF Extends
<1>2. CASE ~Accepts(q)
  BY <1>2, ExtendsItself DEF Sent
<1> QED
  BY <1>1, <1>2

-----------------------------------------------------------------------------
(* What an operation of the user interface leaves behind.                  *)

\* A worker that is started anew has one Load to take; another keeps what it
\* was asked to do.
Outcome(q, o) ==
  /\ DOMAIN o = {"generation", "player", "commands", "fresh", "view"}
  /\ o.generation \in Nat
  /\ "active" \in DOMAIN o.view
  /\ \/ /\ o.fresh
        /\ worker \in {"none", "dead"}
        /\ \E c \in Commands : c.kind = "load" /\ o.commands = <<c>>
     \/ ~o.fresh /\ Extends(q, o.commands)

LEMMA PlayedOutcome ==
  ASSUME NEW q \in Seq(Commands), NEW p, NEW g \in Nat
  PROVE  Outcome(q, Played(p, g, q))
<1> DEFINE loading == [Renewed(p) EXCEPT !.loading = TRUE, !.timed = TRUE, !.paused = FALSE]
<1> DEFINE o == Played(p, g, q)
<1>1. CASE worker \in {"none", "dead"}
  <2>1. o.fresh /\ o.commands = <<Command(g + 1, "load")>>
    BY <1>1 DEF Played
  <2>2. Command(g + 1, "load") \in Commands /\ Command(g + 1, "load").kind = "load"
    BY DEF Command, Commands, Kinds
  <2>3. DOMAIN o = {"generation", "player", "commands", "fresh", "view"}
        /\ o.generation = g + 1 /\ "active" \in DOMAIN o.view
    BY DEF Played
  <2> QED
    BY <1>1, <2>1, <2>2, <2>3 DEF Outcome
<1>2. CASE worker \notin {"none", "dead"}
  <2>1. ~o.fresh /\ o.commands = Sent(loading, g + 1, q, "load").commands
    <3>1. ~o.fresh
      <4>1. o.fresh = (worker \in {"none", "dead"})
        BY Zenon DEF Played
      <4> QED
        BY <1>2, <4>1
    <3>2. o.commands = Sent(loading, g + 1, q, "load").commands
      BY <1>2, Zenon DEF Played
    <3> QED
      BY <3>1, <3>2
  <2>2. Extends(q, Sent(loading, g + 1, q, "load").commands)
    BY SentExtends DEF Kinds, Asking
  <2>3. DOMAIN o = {"generation", "player", "commands", "fresh", "view"}
        /\ o.generation = g + 1 /\ "active" \in DOMAIN o.view
    BY DEF Played
  <2> QED
    BY <2>1, <2>2, <2>3 DEF Outcome
<1> QED
  BY <1>1, <1>2

LEMMA StoppedOutcome ==
  ASSUME NEW q \in Seq(Commands), NEW p, NEW g \in Nat, NEW v, "active" \in DOMAIN v
  PROVE  Outcome(q, Stopped(p, g, q, v))
<1> DEFINE stopped == [Renewed(p) EXCEPT !.loading = FALSE, !.timed = FALSE]
<1> DEFINE o == Stopped(p, g, q, v)
<1>1. ~o.fresh /\ o.commands = Sent(stopped, g + 1, q, "stop").commands
      /\ DOMAIN o = {"generation", "player", "commands", "fresh", "view"}
      /\ o.generation = g + 1 /\ o.view = v
  BY DEF Stopped
<1>2. Extends(q, Sent(stopped, g + 1, q, "stop").commands)
  BY SentExtends DEF Kinds, Asking
<1> QED
  BY <1>1, <1>2 DEF Outcome

LEMMA UnplayableOutcome ==
  ASSUME NEW q \in Seq(Commands), NEW p, NEW g \in Nat, "active" \in DOMAIN view
  PROVE  Outcome(q, Unplayable(p, g, q))
<1> DEFINE o == Unplayable(p, g, q)
<1>1. /\ DOMAIN o = {"generation", "player", "commands", "fresh", "view"}
      /\ o.generation = g /\ o.commands = q /\ ~o.fresh /\ "active" \in DOMAIN o.view
  BY DEF Unplayable
<1> QED
  BY <1>1, ExtendsItself DEF Outcome

\* An outcome may also change what the view reports.
LEMMA ReportedOutcome ==
  ASSUME NEW q, NEW o, Outcome(q, o), NEW p
  PROVE  Outcome(q, [o EXCEPT !.view = Reported(@, p)])
<1> DEFINE n == [o EXCEPT !.view = Reported(@, p)]
<1>1. /\ DOMAIN n = DOMAIN o
      /\ n.generation = o.generation /\ n.commands = o.commands /\ n.fresh = o.fresh
      /\ n.view = Reported(o.view, p)
  BY DEF Outcome
<1>2. "active" \in DOMAIN n.view
  BY <1>1 DEF Outcome, Reported
<1> QED
  BY <1>1, <1>2 DEF Outcome

\* An outcome for what extends a queue is one for the queue.
LEMMA OutcomeExtends ==
  ASSUME NEW q \in Seq(Commands), NEW r, Extends(q, r), NEW o, Outcome(r, o)
  PROVE  Outcome(q, o)
<1>1. CASE o.fresh
  BY <1>1 DEF Outcome
<1>2. CASE ~o.fresh
  <2>1. Extends(r, o.commands)
    BY <1>2 DEF Outcome
  <2>2. Extends(q, o.commands)
    BY <2>1 DEF Extends
  <2> QED
    BY <1>2, <2>2 DEF Outcome
<1> QED
  BY <1>1, <1>2

LEMMA AdvancedOutcome ==
  ASSUME NEW q \in Seq(Commands), NEW p, NEW g \in Nat, NEW v, "active" \in DOMAIN v,
         "active" \in DOMAIN view, NEW o \in Advanced(p, g, q, v)
  PROVE  Outcome(q, o)
<1> DEFINE handled == [v EXCEPT !.handled = p.ended]
<1> DEFINE next == Played(p, g, q)
<1> DEFINE none == Unplayable(p, g, q)
<1>1. "active" \in DOMAIN handled
  OBVIOUS
<1> HIDE DEF handled
<1>2. Outcome(q, [generation |-> g, player |-> p, view |-> handled, commands |-> q,
                  fresh |-> FALSE])
  BY <1>1, ExtendsItself DEF Outcome
<1>3. \A u : "active" \in DOMAIN u => "active" \in DOMAIN Emptied(u, q)
  BY DEF Emptied
<1>4. Outcome(q, Stopped(p, g, q, Emptied(handled, q)))
  <2> DEFINE e == Emptied(handled, q)
  <2>1. "active" \in DOMAIN e
    BY <1>1, <1>3
  <2> HIDE DEF e
  <2> QED
    BY <2>1, StoppedOutcome DEF e
<1>5. Outcome(q, next)
  BY PlayedOutcome
<1>6. Outcome(q, Stopped(next.player, g + 1, q, Emptied(next.view, q)))
  <2> DEFINE e == Emptied(next.view, q)
  <2>1. "active" \in DOMAIN next.view
    BY <1>5 DEF Outcome
  <2>2. "active" \in DOMAIN e
    BY <1>3, <2>1
  <2>3. g + 1 \in Nat
    OBVIOUS
  <2> HIDE DEF next, e
  <2>4. Outcome(q, Stopped(next.player, g + 1, q, e))
    BY <2>2, <2>3, StoppedOutcome
  <2> QED
    BY <2>4 DEF e
<1>7. Outcome(q, none) /\ Outcome(q, Stopped(p, g, q, Emptied(none.view, q)))
  <2> DEFINE e == Emptied(none.view, q)
  <2>1. Outcome(q, none)
    BY UnplayableOutcome
  <2>2. "active" \in DOMAIN e
    BY <1>3, <2>1 DEF Outcome
  <2> HIDE DEF none, e
  <2>3. Outcome(q, Stopped(p, g, q, e))
    BY <2>2, StoppedOutcome
  <2> QED
    BY <2>1, <2>3 DEF e
<1>8. \/ o = [generation |-> g, player |-> p, view |-> handled, commands |-> q, fresh |-> FALSE]
      \/ o = none
      \/ o = Stopped(p, g, q, Emptied(none.view, q))
      \/ o = Stopped(p, g, q, Emptied(handled, q))
      \/ o = next
      \/ o = Stopped(next.player, g + 1, q, Emptied(next.view, q))
  <2> HIDE DEF handled, next, none
  <2>1. \/ o \in {[generation |-> g, player |-> p, view |-> handled, commands |-> q,
                    fresh |-> FALSE],
                  none, Stopped(p, g, q, Emptied(none.view, q))}
        \/ o \in IF g >= MaxLoads THEN {Stopped(p, g, q, Emptied(handled, q))}
                 ELSE {Stopped(p, g, q, Emptied(handled, q)),
                       IF next.view.active THEN next
                       ELSE Stopped(next.player, g + 1, q, Emptied(next.view, q))}
    BY Zenon DEF Advanced, handled, next, none
  <2> QED
    BY <2>1
<1> QED
  BY <1>2, <1>4, <1>5, <1>6, <1>7, <1>8

LEMMA OutcomeKeeps ==
  ASSUME IInv, NEW o, Outcome(commands, o), Becomes(o), ui = "open",
         UNCHANGED <<ui, panic, suspended, wasSuspended, restorePaused, mpv>>
  PROVE  IInv'
<1>1. Types'
  <2>1. commands' \in Seq(Commands)
    <3>1. CASE o.fresh
      <4>1. PICK c \in Commands : o.commands = <<c>>
        BY <3>1 DEF Outcome
      <4> QED
        BY <4>1 DEF Becomes
    <3>2. CASE ~o.fresh
      BY <3>2 DEF Becomes, Outcome, Extends
    <3> QED
      BY <3>1, <3>2 DEF Outcome
  <2> QED
    BY <2>1 DEF IInv, Types, Becomes, Outcome
<1>2. Modes'
  BY DEF IInv, Modes, Types, Becomes, Outcome
<1>3. ASSUME ~suspended
      PROVE  Promise'
  <2>1. CASE o.fresh
    <3>1. PICK c \in Commands : c.kind = "load" /\ commands' = <<c>>
      BY <2>1 DEF Becomes, Outcome
    <3>2. worker' = "starting" /\ asked' = {"resume"}
      BY <2>1 DEF Becomes
    <3>3. LastIn(commands, asked)'
      BY <3>1 DEF LastIn, Asking
    <3> QED
      BY <3>2, <3>3 DEF Promise
  <2>2. CASE ~o.fresh
    <3>1. UNCHANGED <<worker, asked>> /\ commands' = o.commands /\ view' = o.view
      BY <2>2 DEF Becomes
    <3>2. Extends(commands, commands') /\ commands \in Seq(Commands)
      BY <2>2, <3>1 DEF Outcome, IInv, Types
    <3>3. /\ LastIn(commands, asked) => LastIn(commands', asked)
          /\ Silent(commands') => Silent(commands)
          /\ FirstIsLast(commands') => FirstIsLast(commands)
          /\ commands # <<>> => commands' # <<>>
      BY <3>2, ExtendsKeeps
    <3> QED
      BY <1>3, <3>1, <3>2, <3>3 DEF IInv, Promise, LastIn, Silent, FirstIsLast
  <2> QED
    BY <2>1, <2>2 DEF Outcome
<1> QED
  BY <1>1, <1>2, <1>3 DEF IInv, Promise

-----------------------------------------------------------------------------
(* The steps.                                                              *)

\* What a step sends that is neither a pause nor a resume keeps the invariant.
LEMMA QueueExtendsKeeps ==
  ASSUME IInv, Extends(commands, commands'), generation' \in Nat,
         "active" \in DOMAIN view',
         UNCHANGED <<ui, panic, suspended, worker, wasSuspended, restorePaused, mpv, asked>>
  PROVE  IInv'
<1>1. commands \in Seq(Commands) /\ commands' \in Seq(Commands)
  BY DEF IInv, Types, Extends
<1>2. /\ LastIn(commands, asked) => LastIn(commands', asked)
      /\ Silent(commands') => Silent(commands)
      /\ FirstIsLast(commands') => FirstIsLast(commands)
      /\ commands # <<>> => commands' # <<>>
  BY <1>1, ExtendsKeeps
<1>3. Types' /\ Modes'
  BY <1>1 DEF IInv, Types, Modes
<1>4. Promise'
  BY <1>2 DEF IInv, Promise, LastIn, Silent, FirstIsLast
<1> QED
  BY <1>3, <1>4 DEF IInv

LEMMA TickKeeps ==
  ASSUME IInv, NEW late \in BOOLEAN, Tick(late)
  PROVE  IInv'
<1> DEFINE g == IF late THEN generation + 1 ELSE generation
<1> DEFINE queued == IF late /\ Accepts(commands)
                     THEN Append(commands, Command(g, "stop")) ELSE commands
<1>1. PICK drained \in {Drained} : \E shown \in {Shown(drained)} :
        LET status  == IF late THEN Failed(shown, {g}) ELSE shown
            news    == late \/ shown # drained \/ News
            advance == news /\ status.ended # {} /\ view.handled = {} /\ panic = {}
        IN  /\ late => shown.timed /\ ~suspended
            /\ \E o \in IF advance THEN Advanced(status, g, queued, view)
                        ELSE {[generation |-> g, player |-> status, view |-> view,
                               commands |-> queued, fresh |-> FALSE]} :
                 Becomes(IF news THEN [o EXCEPT !.view = Reported(@, status)] ELSE o)
  BY Zenon DEF Tick, g, queued
<1>2. PICK shown \in {Shown(drained)} :
        LET status  == IF late THEN Failed(shown, {g}) ELSE shown
            news    == late \/ shown # drained \/ News
            advance == news /\ status.ended # {} /\ view.handled = {} /\ panic = {}
        IN  /\ late => shown.timed /\ ~suspended
            /\ \E o \in IF advance THEN Advanced(status, g, queued, view)
                        ELSE {[generation |-> g, player |-> status, view |-> view,
                               commands |-> queued, fresh |-> FALSE]} :
                 Becomes(IF news THEN [o EXCEPT !.view = Reported(@, status)] ELSE o)
  BY <1>1
<1> DEFINE status == IF late THEN Failed(shown, {g}) ELSE shown
<1> DEFINE news == late \/ shown # drained \/ News
<1> DEFINE advance == news /\ status.ended # {} /\ view.handled = {} /\ panic = {}
<1> DEFINE quiet == [generation |-> g, player |-> status, view |-> view,
                     commands |-> queued, fresh |-> FALSE]
<1>3. late => ~suspended
  BY <1>2
<1>4. PICK o \in IF advance THEN Advanced(status, g, queued, view) ELSE {quiet} :
        Becomes(IF news THEN [o EXCEPT !.view = Reported(@, status)] ELSE o)
  BY <1>2
<1>5. /\ ui = "open" /\ commands \in Seq(Commands) /\ generation \in Nat
      /\ "active" \in DOMAIN view
      /\ UNCHANGED <<ui, panic, suspended, wasSuspended, restorePaused, mpv>>
  BY DEF Tick, IInv, Types, locals
<1>6. g \in Nat
  BY <1>5
<1>7. Extends(commands, queued)
  <2>1. CASE late /\ Accepts(commands)
    <3>1. Command(g, "stop") \in Commands /\ Command(g, "stop").kind = "stop"
      BY <1>6 DEF Command, Commands, Kinds
    <3> QED
      BY <1>5, <2>1, <3>1 DEF Extends, Asking
  <2>2. CASE ~(late /\ Accepts(commands))
    BY <1>5, <2>2, ExtendsItself
  <2> QED
    BY <2>1, <2>2
<1>8. queued \in Seq(Commands)
  BY <1>7 DEF Extends
<1> HIDE DEF g, queued
<1>9. Outcome(queued, o)
  <2>1. CASE advance
    <3>1. o \in Advanced(status, g, queued, view)
      BY <1>4, <2>1
    <3> HIDE DEF status
    <3> QED
      BY <1>5, <1>6, <1>8, <3>1, AdvancedOutcome
  <2>2. CASE ~advance
    <3>1. o = quiet
      BY <1>4, <2>2
    <3> HIDE DEF status
    <3> QED
      BY <1>5, <1>6, <1>8, <3>1, ExtendsItself DEF Outcome
  <2> QED
    BY <2>1, <2>2
<1>10. Outcome(commands, o)
  BY <1>5, <1>7, <1>9, OutcomeExtends
<1>11. PICK n : n = (IF news THEN [o EXCEPT !.view = Reported(@, status)] ELSE o)
                /\ Becomes(n)
  BY <1>4
<1>12. Outcome(commands, n)
  <2> HIDE DEF status, news
  <2> QED
    BY <1>10, <1>11, ReportedOutcome
<1> QED
  BY <1>5, <1>11, <1>12, OutcomeKeeps

\* The pause button: the new state is the last that is asked for.
LEMMA SetPausedKeeps ==
  ASSUME IInv, SetPaused
  PROVE  IInv'
<1> DEFINE paused == ~view.paused
<1>1. /\ ui = "open" /\ ~suspended /\ commands \in Seq(Commands) /\ generation \in Nat
      /\ UNCHANGED <<ui, generation, panic, suspended, worker, wasSuspended, restorePaused, mpv>>
  BY DEF SetPaused, Input, Visible, IInv, Types, Modes, locals
<1>2. "active" \in DOMAIN view'
  BY DEF SetPaused, IInv, Types
<1>3. CASE ~view.active
  BY <1>1, <1>2, <1>3, ExtendsItself, QueueExtendsKeeps DEF SetPaused
<1>4. CASE view.active /\ ~Accepts(commands)
  <2>1. UNCHANGED <<commands, asked>>
    BY <1>4 DEF SetPaused, Sent
  <2> QED
    BY <1>1, <1>2, <2>1, ExtendsItself, QueueExtendsKeeps
<1>5. CASE view.active /\ Accepts(commands)
  <2> DEFINE c == Command(generation, Pausing(paused))
  <2>1. /\ commands' = Append(commands, c)
        /\ asked' = IF GivesBack THEN Asking ELSE {Pausing(paused)}
    BY <1>5 DEF SetPaused, Sent, Asking
  <2>2. c.kind = Pausing(paused) /\ c.kind \in Asking /\ c \in Commands
    BY <1>1 DEF Command, Commands, Kinds, Asking, Pausing
  <2> HIDE DEF c
  <2>3. /\ commands' \in Seq(Commands) /\ Len(commands') = Len(commands) + 1
        /\ commands'[Len(commands) + 1] = c /\ Len(commands) \in Nat
    BY <1>1, <2>1, <2>2
  <2>4. Types' /\ Modes'
    BY <1>1, <1>2, <2>3 DEF IInv, Types, Modes
  <2>5. LastIn(commands, asked)'
    BY <2>1, <2>2, <2>3 DEF LastIn
  <2>6. ~Silent(commands')
    BY <2>2, <2>3 DEF Silent
  <2>7. commands # <<>> => ~FirstIsLast(commands')
    BY <1>1, <2>2, <2>3 DEF FirstIsLast
  <2>8. wasSuspended /\ commands = <<>> => asked' = Asking
    BY <2>1 DEF GivesBack
  <2> QED
    BY <1>1, <1>5, <2>4, <2>5, <2>6, <2>7, <2>8 DEF IInv, Promise, Silent, FirstIsLast
<1> QED
  BY <1>3, <1>4, <1>5

\* The end of the panic: the volume comes before the pause state, so what the
\* worker gives back at once is not the last word.
LEMMA RestoreKeeps ==
  ASSUME IInv, Restore
  PROVE  IInv'
<1>1. /\ ui = "restoring" /\ ui' = "open" /\ panic' = {} /\ ~suspended
      /\ commands \in Seq(Commands) /\ generation \in Nat
      /\ UNCHANGED <<generation, suspended, worker, wasSuspended, restorePaused, mpv>>
  BY DEF Restore, IInv, Types, Modes, locals
<1>2. PICK paused \in panic :
        /\ view' = [view EXCEPT !.paused = paused]
        /\ IF view.active
           THEN LET volume == Sent(player, generation, commands, "set")
                    sent   == Sent([volume.player EXCEPT !.paused = paused], generation,
                                   volume.commands, Pausing(paused))
                IN  /\ player' = sent.player /\ commands' = sent.commands
                    /\ asked' = IF Accepts(volume.commands) THEN {Pausing(paused)}
                                ELSE {"pause", "resume"}
           ELSE asked' = {"pause", "resume"} /\ UNCHANGED <<player, commands>>
  BY Zenon DEF Restore
<1>3. "active" \in DOMAIN view' /\ (view'.active => view.active)
  BY <1>2 DEF IInv, Types
<1>4. CASE ~view.active
  <2>1. commands' = commands /\ asked' = Asking
    BY <1>2, <1>4 DEF Asking
  <2>2. LastIn(commands', Asking)
    BY <1>1, <2>1 DEF LastIn
  <2>3. Types' /\ Modes'
    BY <1>1, <1>3, <2>1 DEF IInv, Types, Modes
  <2>4. \A b : Pausing(b) \in Asking
    BY DEF Pausing, Asking
  <2>5. Promise'
    BY <1>3, <1>4, <2>1, <2>2, <2>4 DEF Promise, Asking
  <2> QED
    BY <2>3, <2>5 DEF IInv
<1>5. CASE view.active
  <2> DEFINE q == Sent(player, generation, commands, "set").commands
  <2> DEFINE c == Command(generation, Pausing(paused))
  <2>1. Extends(commands, q) /\ (Accepts(commands) => q # <<>>)
    <3>1. Extends(commands, q)
      BY <1>1, SentExtends DEF Kinds, Asking
    <3>2. Accepts(commands) => q = Append(commands, Command(generation, "set"))
      BY DEF Sent
    <3> QED
      BY <1>1, <3>1, <3>2
  <2>2. q = commands \/ (Len(q) = Len(commands) + 1 /\ q \in Seq(Commands))
    BY <1>1, <2>1 DEF Sent, Extends
  <2>3. /\ commands' = IF Accepts(q) THEN Append(q, c) ELSE q
        /\ asked' = IF Accepts(q) THEN {Pausing(paused)} ELSE Asking
    BY <1>2, <1>5, Zenon DEF Sent, Asking
  <2>4. c.kind = Pausing(paused) /\ c.kind \in Asking /\ c \in Commands
    BY <1>1 DEF Command, Commands, Kinds, Asking, Pausing
  <2>5. q \in Seq(Commands) /\ Len(q) \in Nat
    BY <2>1 DEF Extends
  <2>6. Accepts(q) => q # <<>>
    <3>1. ASSUME Accepts(q), q = <<>>
          PROVE  FALSE
      <4>1. commands = <<>>
        BY <1>1, <2>5, <3>1, <2>1 DEF Extends
      <4>2. Accepts(commands)
        BY <3>1, <4>1
      <4> QED
        BY <2>1, <3>1, <4>2
    <3> QED
      BY <3>1
  <2> HIDE DEF q, c
  <2>7. CASE Accepts(q)
    <3>1. /\ commands' \in Seq(Commands) /\ Len(commands') = Len(q) + 1
          /\ commands'[Len(q) + 1] = c
      BY <2>3, <2>4, <2>5, <2>7
    <3>2. Types' /\ Modes'
      BY <1>1, <1>3, <3>1 DEF IInv, Types, Modes
    <3>3. LastIn(commands, asked)'
      BY <2>3, <2>4, <2>5, <2>7, <3>1 DEF LastIn
    <3>4. ~Silent(commands') /\ commands' # <<>>
      BY <2>4, <2>5, <3>1 DEF Silent
    <3>5. ~FirstIsLast(commands')
      BY <2>4, <2>5, <2>6, <2>7, <3>1 DEF FirstIsLast
    <3> QED
      BY <3>2, <3>3, <3>4, <3>5 DEF IInv, Promise, Silent, FirstIsLast
  <2>8. CASE ~Accepts(q)
    <3>1. commands' = q /\ asked' = Asking
      BY <2>3, <2>8
    <3>2. Types' /\ Modes'
      BY <1>1, <1>3, <2>5, <3>1 DEF IInv, Types, Modes
    <3>3. LastIn(commands', Asking)
      BY <2>5, <3>1 DEF LastIn
    <3>4. \A b : Pausing(b) \in Asking
      BY DEF Pausing, Asking
    <3>5. worker \in {"turn", "pull"} => q # <<>>
      BY <2>5, <2>8, PlayerAssumption DEF Accepts, Receiving
    <3>6. Promise'
      BY <1>1, <3>1, <3>3, <3>4, <3>5 DEF Promise, Asking
    <3> QED
      BY <3>2, <3>6 DEF IInv
  <2> QED
    BY <2>7, <2>8
<1> QED
  BY <1>4, <1>5

\* The worker takes a command, and gives back what it found before the panic.
LEMMA TurnCommandKeeps ==
  ASSUME IInv, TurnCommand
  PROVE  IInv'
<1> DEFINE c == Head(commands)
<1>1. /\ worker = "turn" /\ worker' = "pull" /\ commands # <<>> /\ commands' = Tail(commands)
      /\ commands \in Seq(Commands) /\ c.kind # "shutdown"
      /\ UNCHANGED <<ui, generation, view, panic, suspended>>
  BY DEF TurnCommand, IInv, Types, native
<1>2. /\ c = commands[1] /\ c \in Commands /\ commands' \in Seq(Commands)
      /\ Len(commands) \in Nat /\ Len(commands) > 0 /\ Len(commands') = Len(commands) - 1
      /\ \A i \in DOMAIN commands' : i + 1 \in DOMAIN commands /\ commands'[i] = commands[i + 1]
  BY <1>1
<1>3. \/ Suspending(Applied(mpv, c)) /\ asked' = asked
      \/ /\ Suspending(mpv)
         /\ asked' = IF c.kind \in {"pause", "resume"} THEN {"pause", "resume"} ELSE asked
  BY Zenon DEF TurnCommand
<1>4. PICK m : /\ Suspending(m)
               /\ "paused" \in DOMAIN m /\ m.paused \in BOOLEAN
               /\ \/ asked' = Asking
                  \/ /\ asked' = asked
                     /\ c.kind \in Asking => Pausing(m.paused) = c.kind
                     /\ c.kind \notin Asking => m.paused = mpv.paused
  <2>1. "paused" \in DOMAIN mpv /\ mpv.paused \in BOOLEAN
    BY DEF IInv, Types
  <2>2. CASE /\ Suspending(mpv)
             /\ asked' = IF c.kind \in {"pause", "resume"} THEN {"pause", "resume"} ELSE asked
    BY <2>1, <2>2 DEF Asking
  <2>3. CASE Suspending(Applied(mpv, c)) /\ asked' = asked
    <3> DEFINE m == Applied(mpv, c)
    <3>1. CASE c.kind = "load"
      <4>1. m = [mpv EXCEPT !.medium = c.generation, !.stage = "opening", !.events = Replacing(mpv)]
        BY <3>1 DEF Applied
      <4> QED
        BY <2>1, <2>3, <3>1, <4>1 DEF Asking
    <3>2. CASE c.kind = "stop"
      <4>1. m = [mpv EXCEPT !.stage = "idle", !.events = Replacing(mpv)]
        BY <3>2 DEF Applied
      <4> QED
        BY <2>1, <2>3, <3>2, <4>1 DEF Asking
    <3>3. CASE c.kind = "pause"
      <4>1. m = [mpv EXCEPT !.paused = TRUE]
        BY <3>3 DEF Applied
      <4> QED
        BY <2>1, <2>3, <3>3, <4>1 DEF Asking, Pausing
    <3>4. CASE c.kind = "resume"
      <4>1. m = [mpv EXCEPT !.paused = FALSE]
        BY <3>4 DEF Applied
      <4> QED
        BY <2>1, <2>3, <3>4, <4>1 DEF Asking, Pausing
    <3>5. CASE c.kind = "set"
      <4>1. m = mpv
        BY <3>5 DEF Applied
      <4> QED
        BY <2>1, <2>3, <3>5, <4>1 DEF Asking
    <3> QED
      BY <1>1, <1>2, <3>1, <3>2, <3>3, <3>4, <3>5 DEF Commands, Kinds, Asking
  <2> QED
    BY <1>3, <2>2, <2>3
<1> HIDE DEF c
<1>5. /\ wasSuspended' = suspended /\ restorePaused' \in BOOLEAN
      /\ "paused" \in DOMAIN mpv' /\ mpv'.paused \in BOOLEAN
      /\ ~suspended => mpv'.paused = IF wasSuspended THEN restorePaused ELSE m.paused
  BY <1>4 DEF Suspending, IInv, Types
<1>6. Types' /\ Modes'
  BY <1>1, <1>2, <1>5 DEF IInv, Types, Modes
<1>7. CASE asked' = Asking
  <2>1. \A b : Pausing(b) \in Asking
    BY DEF Pausing, Asking
  <2>2. LastIn(commands, asked)'
    BY <1>7 DEF LastIn
  <2>3. (Pausing(IF wasSuspended THEN restorePaused ELSE mpv.paused) \in asked)'
    BY <1>7, <2>1
  <2>4. worker' # "starting" /\ Asking \subseteq asked'
    BY <1>1, <1>7
  <2>5. Promise'
    BY <2>2, <2>3, <2>4, Zenon DEF Promise
  <2> QED
    BY <1>6, <2>5 DEF IInv
<1>8. ASSUME ui = "open", ~suspended, asked' = asked, asked # Asking
      PROVE  Promise'
  <2>1. LastIn(commands, asked)
    BY <1>1, <1>8 DEF IInv, Promise
  <2>2. LastIn(commands', asked)
    <3> SUFFICES ASSUME NEW i \in DOMAIN commands', commands'[i].kind \in Asking,
                        \A j \in DOMAIN commands' : j > i => commands'[j].kind \notin Asking
                 PROVE  commands'[i].kind \in asked
      BY DEF LastIn
    <3>1. i \in Nat /\ i + 1 \in DOMAIN commands /\ commands[i + 1] = commands'[i]
      BY <1>2
    <3>2. ASSUME NEW j \in DOMAIN commands, j > i + 1
          PROVE  commands[j].kind \notin Asking
      <4>1. j - 1 \in DOMAIN commands' /\ commands'[j - 1] = commands[j] /\ j - 1 > i
        BY <1>1, <1>2, <3>1, <3>2
      <4> QED
        BY <4>1
    <3> QED
      BY <2>1, <3>1, <3>2 DEF LastIn
  <2>3. ASSUME Silent(commands')
        PROVE  Pausing(mpv'.paused) \in asked
    <3>1. \A j \in DOMAIN commands : j > 1 => commands[j].kind \notin Asking
      <4> SUFFICES ASSUME NEW j \in DOMAIN commands, j > 1
                   PROVE  commands[j].kind \notin Asking
        OBVIOUS
      <4>1. j - 1 \in DOMAIN commands' /\ commands'[j - 1] = commands[j]
        BY <1>1, <1>2
      <4> QED
        BY <2>3, <4>1 DEF Silent
    <3>2. CASE c.kind \in Asking
      <4>1. FirstIsLast(commands)
        BY <1>1, <1>2, <3>1, <3>2 DEF FirstIsLast
      <4>2. c.kind \in asked
        BY <1>1, <1>2, <2>1, <3>1, <3>2 DEF LastIn
      <4>3. wasSuspended => Asking \subseteq asked
        BY <1>1, <1>8, <4>1 DEF IInv, Promise
      <4>4. \A b : Pausing(b) \in Asking
        BY DEF Pausing, Asking
      <4> QED
        BY <1>4, <1>5, <1>8, <3>2, <4>2, <4>3, <4>4
    <3>3. CASE c.kind \notin Asking
      <4>1. Silent(commands)
        BY <1>1, <1>2, <3>1, <3>3 DEF Silent
      <4>2. Pausing(IF wasSuspended THEN restorePaused ELSE mpv.paused) \in asked
        BY <1>1, <1>8, <4>1 DEF IInv, Promise
      <4> QED
        BY <1>4, <1>5, <1>8, <3>3, <4>2
    <3> QED
      BY <3>2, <3>3
  <2> QED
    BY <1>1, <1>5, <1>8, <2>2, <2>3 DEF Promise, LastIn, Silent
<1> QED
  BY <1>1, <1>4, <1>6, <1>7, <1>8 DEF IInv, Promise

LEMMA InitIInv == Init => IInv
<1> SUFFICES ASSUME Init PROVE IInv
  OBVIOUS
<1>1. Types
  <2>1. <<>> \in Seq(Commands)
    OBVIOUS
  <2>2. "paused" \in DOMAIN Idle /\ Idle.paused \in BOOLEAN
    BY DEF Idle
  <2>3. "active" \in DOMAIN view
    BY DEF Init
  <2> QED
    BY <2>1, <2>2, <2>3 DEF Init, Types
<1>2. Modes
  BY DEF Init, Idle, Modes
<1>3. Promise
  BY DEF Init, Idle, Promise
<1> QED
  BY <1>1, <1>2, <1>3 DEF IInv

\* Every step keeps the invariant.
LEMMA NextIInv == IInv /\ [Next]_vars => IInv'
<1> SUFFICES ASSUME IInv, [Next]_vars PROVE IInv'
  OBVIOUS
<1>1. commands \in Seq(Commands) /\ generation \in Nat /\ "active" \in DOMAIN view
  BY DEF IInv, Types
<1>2. CASE Play
  <2>1. Outcome(commands, Played(player, generation, commands))
    BY <1>1, PlayedOutcome
  <2>2. Becomes(Played(player, generation, commands)) /\ ui = "open"
        /\ UNCHANGED <<ui, panic, suspended, wasSuspended, restorePaused, mpv>>
    BY <1>2, Zenon DEF Play, Visible, locals
  <2> QED
    BY <2>1, <2>2, OutcomeKeeps
<1>3. CASE Stop
  <2>1. PICK video \in BOOLEAN, waits \in BOOLEAN, paused \in {view.paused, player.paused} :
          Becomes(Stopped(player, generation, commands,
                          [view EXCEPT !.active  = @ /\ video,
                                       !.pending = @ /\ waits, !.paused = paused]))
    BY <1>3 DEF Stop
  <2> DEFINE v == [view EXCEPT !.active = @ /\ video, !.pending = @ /\ waits, !.paused = paused]
  <2>2. "active" \in DOMAIN v
    BY <1>1
  <2> HIDE DEF v
  <2>3. Outcome(commands, Stopped(player, generation, commands, v))
    BY <1>1, <2>2, StoppedOutcome
  <2>4. ui = "open" /\ UNCHANGED <<ui, panic, suspended, wasSuspended, restorePaused, mpv>>
    BY <1>3 DEF Stop, Input, Visible, locals
  <2> QED
    BY <2>1, <2>3, <2>4, OutcomeKeeps DEF v
<1>4. CASE SetPaused
  BY <1>4, SetPausedKeeps
<1>5. CASE Set
  <2>1. commands' = Sent(player, generation, commands, "set").commands
    BY <1>5, Zenon DEF Set
  <2>2. Extends(commands, commands')
    BY <1>1, <2>1, SentExtends DEF Kinds, Asking
  <2>3. "active" \in DOMAIN view'
    BY <1>1, <1>5 DEF Set
  <2>4. UNCHANGED <<ui, generation, panic, suspended, worker, wasSuspended, restorePaused,
                    mpv, asked>>
    BY <1>5 DEF Set, locals, history
  <2> QED
    BY <1>1, <2>2, <2>3, <2>4, QueueExtendsKeeps
<1>6. CASE Hide
  BY <1>6 DEF Hide, Visible, native, shared, locals, history, IInv, Types, Modes, Promise
<1>7. CASE Unsuspend
  BY <1>7 DEF Unsuspend, native, shared, locals, history, IInv, Types, Modes, Promise
<1>8. CASE Restore
  BY <1>8, RestoreKeeps
<1>9. CASE Shutdown
  <2>1. Command(generation, "shutdown") \in Commands
    BY <1>1 DEF Command, Commands, Kinds
  <2>2. commands' \in Seq(Commands)
    BY <1>1, <1>9, <2>1 DEF Shutdown
  <2> QED
    BY <1>9, <2>2 DEF Shutdown, native, locals, history, IInv, Types, Modes, Promise
<1>10. CASE Joined
  BY <1>10 DEF Joined, native, shared, locals, history, IInv, Types, Modes, Promise
<1>11. CASE \E late \in BOOLEAN : Tick(late)
  BY <1>11, TickKeeps
<1>12. CASE Stall
  <2> DEFINE v == [view EXCEPT !.pending = FALSE]
  <2>1. Becomes(Stopped(player, generation, commands, v)) /\ ui = "open"
        /\ UNCHANGED <<ui, panic, suspended, wasSuspended, restorePaused, mpv>>
    BY <1>12 DEF Stall, Visible, locals
  <2>2. "active" \in DOMAIN v
    BY <1>1
  <2> HIDE DEF v
  <2>3. Outcome(commands, Stopped(player, generation, commands, v))
    BY <1>1, <2>2, StoppedOutcome
  <2> QED
    BY <2>1, <2>3, OutcomeKeeps
<1>13. CASE Start
  <2>1. /\ worker = "starting" /\ worker' \in {"turn", "ending"}
        /\ wasSuspended' = FALSE /\ restorePaused' = FALSE
        /\ UNCHANGED <<ui, generation, view, panic, suspended, commands, mpv, asked>>
    BY <1>13 DEF Start, native
  <2>2. Types' /\ Modes' /\ ~mpv.paused
    BY <2>1 DEF IInv, Types, Modes
  <2>3. Pausing(mpv.paused) = "resume"
    BY <2>2 DEF Pausing
  <2>4. Promise'
    BY <2>1, <2>3 DEF IInv, Promise, LastIn, Silent, FirstIsLast
  <2> QED
    BY <2>2, <2>4 DEF IInv
<1>14. CASE TurnCommand
  BY <1>14, TurnCommandKeeps
<1>15. CASE TurnIdle
  <2>1. /\ worker = "turn" /\ worker' = "pull" /\ commands = <<>>
        /\ UNCHANGED <<ui, generation, view, panic, suspended, commands, asked>>
        /\ Suspending(mpv)
    BY <1>15 DEF TurnIdle, native, shared, history
  <2>2. /\ wasSuspended' = suspended /\ restorePaused' \in BOOLEAN
        /\ "paused" \in DOMAIN mpv' /\ mpv'.paused \in BOOLEAN
        /\ ~suspended => mpv'.paused = IF wasSuspended THEN restorePaused ELSE mpv.paused
    BY <2>1 DEF Suspending, IInv, Types
  <2>3. Types' /\ Modes'
    BY <2>1, <2>2 DEF IInv, Types, Modes
  <2>4. Promise'
    BY <2>1, <2>2 DEF IInv, Promise, LastIn, Silent, FirstIsLast
  <2> QED
    BY <2>3, <2>4 DEF IInv
<1>16. CASE TurnEnds
  BY <1>16 DEF TurnEnds, native, shared, locals, history, IInv, Types, Modes, Promise
<1>17. CASE End
  <2>1. commands' = <<>> /\ <<>> \in Seq(Commands)
    BY <1>17 DEF End
  <2>2. mpv' = Idle /\ "paused" \in DOMAIN Idle /\ Idle.paused = FALSE
    BY <1>17 DEF End, Idle
  <2>3. /\ worker' = "dead"
        /\ UNCHANGED <<ui, generation, view, panic, suspended, wasSuspended, restorePaused>>
    BY <1>17 DEF End, native, locals
  <2>4. Types' /\ Modes'
    BY <2>1, <2>2, <2>3 DEF IInv, Types, Modes
  <2>5. Promise'
    BY <2>3 DEF Promise
  <2> QED
    BY <2>4, <2>5 DEF IInv
<1>18. CASE \E n \in 0..Len(mpv.events), video, progress \in BOOLEAN,
               end \in {"none", "render error", "shut down"} : Pull(n, video, progress, end)
  <2>1. PICK n \in 0..Len(mpv.events), video \in BOOLEAN, progress \in BOOLEAN,
             end \in {"none", "render error", "shut down"} : Pull(n, video, progress, end)
    BY <1>18
  <2>2. /\ worker = "pull" /\ worker' \in {"turn", "ending"}
        /\ UNCHANGED <<ui, generation, view, panic, suspended, commands, wasSuspended,
                       restorePaused, asked>>
        /\ mpv' = [mpv EXCEPT !.events = SubSeq(@, n + 1, Len(@))]
    BY <2>1 DEF Pull, native
  <2>3. "paused" \in DOMAIN mpv' /\ mpv'.paused = mpv.paused
    BY <2>2 DEF IInv, Types
  <2>4. Types' /\ Modes'
    BY <2>2, <2>3 DEF IInv, Types, Modes
  <2>5. Promise'
    BY <2>2, <2>3 DEF IInv, Promise, LastIn, Silent, FirstIsLast
  <2> QED
    BY <2>4, <2>5 DEF IInv
<1>19. CASE Opens \/ Breaks \/ Finishes
  <2>1. PICK stage, kind : Happens(stage, kind)
    BY <1>19 DEF Opens, Breaks, Finishes
  <2>2. /\ worker \in {"turn", "pull"}
        /\ UNCHANGED <<ui, generation, view, panic, suspended, commands, worker, wasSuspended,
                       restorePaused, asked>>
        /\ mpv' = [mpv EXCEPT !.stage = stage,
                              !.events = Append(@, [kind |-> kind, medium |-> mpv.medium])]
    BY <2>1 DEF Happens, native, shared, locals, history
  <2>3. "paused" \in DOMAIN mpv' /\ mpv'.paused = mpv.paused
    BY <2>2 DEF IInv, Types
  <2>4. Types' /\ Modes'
    BY <2>2, <2>3 DEF IInv, Types, Modes
  <2>5. Promise'
    BY <2>2, <2>3 DEF IInv, Promise, LastIn, Silent, FirstIsLast
  <2> QED
    BY <2>4, <2>5 DEF IInv
<1>20. CASE UNCHANGED vars
  BY <1>20 DEF vars, native, shared, locals, history, IInv, Types, Modes, Promise, LastIn,
               Silent, FirstIsLast
<1>21. CASE PlayUnplayable
  <2>1. Outcome(commands, Unplayable(player, generation, commands))
    BY <1>1, UnplayableOutcome
  <2>2. Becomes(Unplayable(player, generation, commands)) /\ ui = "open"
        /\ UNCHANGED <<ui, panic, suspended, wasSuspended, restorePaused, mpv>>
    BY <1>21, Zenon DEF PlayUnplayable, Input, Visible, locals
  <2> QED
    BY <2>1, <2>2, OutcomeKeeps
<1> QED
  BY <1>2, <1>3, <1>4, <1>5, <1>6, <1>7, <1>8, <1>9, <1>10, <1>11, <1>12, <1>13, <1>14, <1>15,
     <1>16, <1>17, <1>18, <1>19, <1>20, <1>21 DEF Next, User, Worker

\* After a panic libmpv is paused or not as the window promised, however the
\* worker sees the flag and the commands: the pause state of the snapshot, or
\* what the user asked for later, wins over what the worker found, unless it was
\* refused or the panic hid no video
\* (panic_restore, desktop/src/lib.rs; player_worker, desktop/src/player.rs).
THEOREM PauseRestored == Spec => []PauseIsRestored
<1>1. IInv => PauseIsRestored
  <2> SUFFICES ASSUME IInv, ui = "open", worker \in {"turn", "pull"}, commands = <<>>,
                      ~suspended, ~wasSuspended
               PROVE  Pausing(mpv.paused) \in asked
    BY DEF PauseIsRestored
  <2>1. Silent(commands)
    BY DEF Silent
  <2> QED
    BY <2>1 DEF IInv, Promise
<1> QED
  BY <1>1, InitIInv, NextIInv, PTL DEF Spec

-----------------------------------------------------------------------------
(* Whose status it is.                                                     *)

Stages     == {"idle", "opening", "playing", "ended"}
TellKinds  == {"loaded", "eof", "broke"}
EventKinds == TellKinds \cup {"replaced"}
ReportKinds == EventKinds \cup {"startup", "audio", "progress", "error"}

\* The values that name no generation after g.
Players(g) ==
  [loaded : BOOLEAN, timed : BOOLEAN, loading : BOOLEAN,
   failed : SUBSET (0..g), ended : SUBSET (0..g), paused : BOOLEAN]
Views(g) ==
  [pending : BOOLEAN, active : BOOLEAN, handled : SUBSET (0..g), paused : BOOLEAN]
CommandsTo(g) == [generation : 0..g, kind : Kinds]
ReportsTo(g)  == [kind : ReportKinds, generation : 0..g, medium : 0..g, paused : BOOLEAN]
EventsTo(g)   == [kind : EventKinds, medium : 0..g]
LibrariesTo(g) ==
  [medium : 0..g, stage : Stages, paused : BOOLEAN, events : Seq(EventsTo(g))]

\* What the window, the user and the flags say.
WindowTypes ==
  /\ ui \in {"open", "restoring", "joining", "closed"}
  /\ count \in Nat /\ count <= MaxEvents
  /\ panic \in SUBSET BOOLEAN /\ suspended \in BOOLEAN
  /\ ui = "open" => suspended = (panic # {})
  /\ ui = "restoring" => ~suspended
  /\ renderReady \in BOOLEAN /\ wasSuspended \in BOOLEAN /\ restorePaused \in BOOLEAN

PlayTypes ==
  /\ generation \in Nat
  /\ player \in Players(generation) /\ view \in Views(generation)
  /\ commands \in Seq(CommandsTo(generation)) /\ Len(commands) <= CommandCapacity
  /\ statuses \in Seq(ReportsTo(generation)) /\ Len(statuses) <= StatusCapacity
  /\ frame \in SUBSET (0..generation)
  /\ worker \in Receiving \cup {"none", "dead"}
  /\ wGeneration \in 0..generation
  /\ mpv \in LibrariesTo(generation)

\* The worker's generations never go back, and a Load is later than what was
\* sent before it.
Ordered(q, w) ==
  \A i \in DOMAIN q :
    /\ w <= q[i].generation /\ (q[i].kind = "load" => w < q[i].generation)
    /\ \A j \in DOMAIN q : j < i =>
         /\ q[j].generation <= q[i].generation
         /\ q[i].kind = "load" => q[j].generation < q[i].generation

\* A worker that starts takes the queue from its beginning.
From == IF worker = "starting" THEN 0 ELSE wGeneration

Labels ==
  /\ Ordered(commands, From)
  /\ \A i \in DOMAIN statuses :
       statuses[i].kind # "startup" => statuses[i].generation <= wGeneration
  /\ worker \in {"none", "starting", "dead"} => mpv = Idle
  /\ worker = "starting" => statuses = <<>> /\ wGeneration < generation

\* A medium that ends was loaded after every other that was loaded before.
Sequenced ==
  LET e == mpv.events
  IN  /\ \A i, j \in DOMAIN e :
           i < j /\ e[i].kind = "loaded" /\ e[j].kind = "eof" =>
             \E k \in DOMAIN e : i <= k /\ k < j /\ e[k].kind = "loaded"
                                 /\ e[k].medium = e[j].medium
      /\ mpv.stage = "playing" =>
           \A i \in DOMAIN e : e[i].kind = "loaded" =>
             \E k \in DOMAIN e : i <= k /\ e[k].kind = "loaded"
                                 /\ e[k].medium = mpv.medium

\* The first command of generation g is a Load or a Stop.
Begins(q, g) ==
  \E i \in DOMAIN q :
    /\ q[i].generation = g /\ q[i].kind \in {"load", "stop"}
    /\ \A j \in DOMAIN q : j < i => q[j].generation # g

Own(m, kind) == m = generation \/ [kind |-> kind, medium |-> m] \in left

\* The report with number i, of the current generation, is of this kind.
Says(i, kind) == statuses[i].generation = generation /\ statuses[i].kind = kind

\* A status says nothing before the worker has come to its generation.
Fresh(p) ==
  /\ p.timed => p.failed = {}
  /\ \A m \in p.failed : Own(m, "broke")
  /\ wGeneration # generation =>
       /\ p.failed \subseteq {generation}
       /\ p.failed = {} => ~p.loaded /\ p.ended = {}

\* Unless a command was lost, the worker comes to it with a Load or a Stop.
Reaches ==
  wGeneration # generation /\ worker \in Receiving => Begins(commands, generation)

\* What is reported, and what libmpv has still to say, may be said, ...
ReportsOwn(n) ==
  \A i \in DOMAIN statuses : \A k \in TellKinds :
    i > n /\ Says(i, k) => Own(statuses[i].medium, k)

LibraryOwn ==
  /\ mpv.stage \in {"opening", "playing"} => \A k \in TellKinds : Own(mpv.medium, k)
  /\ \A i \in DOMAIN mpv.events : \A k \in TellKinds :
       mpv.events[i].kind = k => Own(mpv.events[i].medium, k)

\* ... and an end that will be believed is of a medium that was left loaded.
ReportsLoaded(loaded, n) ==
  \A j \in DOMAIN statuses :
    /\ j > n /\ Says(j, "eof")
    /\ loaded \/ \E i \in DOMAIN statuses : n < i /\ i < j /\ Says(i, "loaded")
    => Own(statuses[j].medium, "loaded")

EventsLoaded(loaded, n) ==
  \A j \in DOMAIN mpv.events :
    /\ mpv.events[j].kind = "eof"
    /\ \/ loaded
       \/ \E i \in DOMAIN statuses : n < i /\ Says(i, "loaded")
       \/ \E i \in DOMAIN mpv.events : i < j /\ mpv.events[i].kind = "loaded"
    => Own(mpv.events[j].medium, "loaded")

\* What is so of a status p when n reports have been handled.  A failure is the
\* last that is said of a generation.
StatusInv(p, n) ==
  /\ Fresh(p)
  /\ p.failed = {} =>
       /\ \A m \in p.ended : Own(m, "eof") /\ Own(m, "loaded")
       /\ Reaches
       /\ ReportsOwn(n)
       /\ wGeneration = generation =>
            LibraryOwn /\ ReportsLoaded(p.loaded, n) /\ EventsLoaded(p.loaded, n)

PlayInv == PlayTypes /\ Labels /\ Sequenced /\ StatusInv(player, 0)

OwnInv == WindowTypes /\ PlayInv

LEMMA NatSetInduction ==
  ASSUME NEW S, 0 \in S, \A n \in Nat : n \in S => n + 1 \in S
  PROVE  Nat \subseteq S
<1> DEFINE R == OpToRel(<, Nat)
<1> DEFINE T == {n \in Nat : n \notin S}
<1>1. IsWellFoundedOn(R, Nat)  BY NatLessThanWellFounded
<1>2. \A x, y \in Nat : x < y => <<x, y>> \in R  BY DEF OpToRel
<1>3. SUFFICES ASSUME T # {} PROVE FALSE  OBVIOUS
<1> HIDE DEF R
<1>4. PICK x \in T : \A y \in T : <<y, x>> \notin R
  <2> HIDE DEF T
  <2>1. T \subseteq Nat  BY DEF T
  <2> QED  BY <1>1, <1>3, <2>1, WFMin
<1>5. x # 0 /\ x - 1 \in Nat /\ x - 1 < x /\ x = (x - 1) + 1  BY <1>4
<1>6. x - 1 \in S  BY <1>2, <1>4, <1>5
<1> QED  BY <1>4, <1>5, <1>6

\* The greatest of some of the first n numbers.
LEMMA MaxOfSome ==
  ASSUME NEW n \in Nat, NEW s \in SUBSET (1..n), s # {}
  PROVE  Max(s) \in s /\ \A y \in s : y <= Max(s)
<1> DEFINE S == {k \in Nat : \A t \in SUBSET (1..k) :
                   t # {} => \E x \in t : \A y \in t : y <= x}
<1>1. 0 \in S
  <2>1. 1..0 = {}  OBVIOUS
  <2>. QED  BY <2>1
<1>2. ASSUME NEW k \in Nat, k \in S PROVE k + 1 \in S
  <2>1. ASSUME NEW t \in SUBSET (1..(k + 1)), t # {}
        PROVE  \E x \in t : \A y \in t : y <= x
    <3>1. CASE k + 1 \in t  BY <2>1, <3>1
    <3>2. CASE k + 1 \notin t
      <4>1. t \in SUBSET (1..k)  BY <2>1, <3>2
      <4>. QED  BY <1>2, <2>1, <4>1
    <3>. QED  BY <3>1, <3>2
  <2>. QED  BY <2>1
<1>3. n \in S
  <2> HIDE DEF S
  <2>. QED  BY <1>1, <1>2, NatSetInduction
<1>4. \E x \in s : \A y \in s : y <= x  BY <1>3
<1>5. \E x \in s : \A y \in s : x >= y  BY <1>4
<1>. QED  BY <1>5 DEF Max

LEMMA MaxOfFirst ==
  ASSUME NEW n \in Nat, n # 0
  PROVE  Max(1..n) = n /\ (1..n) \ {n} = 1..(n - 1)
<1>1. 1..n # {} /\ n \in 1..n  OBVIOUS
<1>2. Max(1..n) \in 1..n /\ n <= Max(1..n)  BY <1>1, MaxOfSome
<1>. QED  BY <1>2

\* What the fold has made of the reports with the numbers s.
Folds(n, g) ==
  g = [s \in SUBSET (1..n) |->
        IF s = {} THEN player
        ELSE Handled(g[s \ {Max(s)}], statuses[Max(s)])]

LEMMA FoldExists == \A n \in Nat : \E g : Folds(n, g)
<1> DEFINE S == {n \in Nat : \E g : Folds(n, g)}
<1>1. 0 \in S
  <2> DEFINE g0 == [s \in SUBSET (1..0) |-> player]
  <2>1. Folds(0, g0)  BY DEF Folds
  <2>. QED  BY <2>1
<1>2. ASSUME NEW n \in Nat, n \in S PROVE n + 1 \in S
  <2>1. PICK g : Folds(n, g)  BY <1>2
  <2> DEFINE h == [s \in SUBSET (1..(n + 1)) |->
                    IF n + 1 \in s THEN Handled(g[s \ {n + 1}], statuses[n + 1])
                                   ELSE g[s]]
  <2>2. ASSUME NEW s \in SUBSET (1..(n + 1))
        PROVE  h[s] = IF s = {} THEN player
                      ELSE Handled(h[s \ {Max(s)}], statuses[Max(s)])
    <3>1. CASE n + 1 \in s
      <4>0. n + 1 \in Nat /\ s # {}  BY <3>1
      <4>1. Max(s) \in s /\ n + 1 <= Max(s)  BY <3>1, <4>0, MaxOfSome
      <4>2. Max(s) = n + 1
        <5> DEFINE m == Max(s)
        <5>1. m \in 1..(n + 1) /\ n + 1 <= m  BY <4>1
        <5> HIDE DEF m
        <5>2. m = n + 1  BY <5>1
        <5>. QED  BY <5>2 DEF m
      <4>3. s \ {n + 1} \in SUBSET (1..(n + 1)) /\ n + 1 \notin s \ {n + 1}
        OBVIOUS
      <4>4. h[s \ {n + 1}] = g[s \ {n + 1}]  BY <4>3
      <4>5. h[s] = Handled(g[s \ {n + 1}], statuses[n + 1])  BY <3>1
      <4>. QED  BY <3>1, <4>2, <4>4, <4>5
    <3>2. CASE n + 1 \notin s
      <4>1. s \in SUBSET (1..n)  BY <3>2
      <4>2. h[s] = g[s]  BY <3>2
      <4>3. g[s] = IF s = {} THEN player
                   ELSE Handled(g[s \ {Max(s)}], statuses[Max(s)])
        BY <2>1, <4>1 DEF Folds
      <4>4. s # {} => h[s \ {Max(s)}] = g[s \ {Max(s)}]  BY <3>2
      <4>. QED  BY <4>2, <4>3, <4>4
    <3>. QED  BY <3>1, <3>2
  <2>3. Folds(n + 1, h)
    <3> HIDE DEF h
    <3>1. h = [s \in SUBSET (1..(n + 1)) |-> h[s]]  BY DEF h
    <3>. QED  BY <2>2, <3>1 DEF Folds
  <2>. QED  BY <2>3
<1> HIDE DEF S
<1>3. Nat \subseteq S  BY <1>1, <1>2, NatSetInduction
<1>. QED  BY <1>3 DEF S

\* drain_events, report by report.
LEMMA DrainedSteps ==
  ASSUME Len(statuses) \in Nat, DOMAIN statuses = 1..Len(statuses)
  PROVE  \E p : /\ p[0] = player
                /\ p[Len(statuses)] = Drained
                /\ \A k \in 1..Len(statuses) :
                     p[k] = Handled(p[k - 1], statuses[k])
<1> DEFINE n == Len(statuses)
<1> DEFINE g == CHOOSE h : Folds(n, h)
<1>1. Folds(n, g)  BY FoldExists
<1>2. Drained = g[1..n]
  BY DEF Drained, FoldLeft, MapThenFoldSet, Folds
<1> HIDE DEF g
<1> DEFINE p == [k \in 0..n |-> g[1..k]]
<1>3. p[0] = player  BY <1>1 DEF Folds
<1>4. ASSUME NEW k \in 1..n PROVE p[k] = Handled(p[k - 1], statuses[k])
  <2>0. n \in Nat /\ k \in Nat /\ k # 0 /\ k <= n  BY <1>4
  <2> HIDE DEF n
  <2>1. 1..k \in SUBSET (1..n) /\ 1..k # {}
    <3>1. \A i \in 1..k : i \in 1..n  BY <2>0
    <3>2. k \in 1..k  BY <2>0
    <3>. QED  BY <3>1, <3>2
  <2>2. g[1..k] = Handled(g[(1..k) \ {Max(1..k)}], statuses[Max(1..k)])
    BY <1>1, <2>1 DEF Folds
  <2>3. g[1..k] = Handled(g[1..(k - 1)], statuses[k])
    BY <2>0, <2>2, MaxOfFirst
  <2>4. k \in 0..n /\ k - 1 \in 0..n  BY <2>0
  <2>. QED  BY <2>3, <2>4
<1>5. n \in Nat /\ n \in 0..n  OBVIOUS
<1>6. p[n] = g[1..n]  BY <1>5
<1>. QED  BY <1>2, <1>3, <1>4, <1>6

-----------------------------------------------------------------------------
(* Types and the queue.                                                    *)

\* What names no generation after g names none after a later one.
LEMMA TypesGrow ==
  ASSUME NEW g \in Nat, NEW h \in Nat, g <= h
  PROVE  /\ Players(g) \subseteq Players(h)
         /\ Views(g) \subseteq Views(h)
         /\ Seq(CommandsTo(g)) \subseteq Seq(CommandsTo(h))
         /\ Seq(ReportsTo(g)) \subseteq Seq(ReportsTo(h))
         /\ LibrariesTo(g) \subseteq LibrariesTo(h)
         /\ 0..g \subseteq 0..h
<1>1. 0..g \subseteq 0..h  OBVIOUS
<1>2. Players(g) \subseteq Players(h) /\ Views(g) \subseteq Views(h)
  BY <1>1 DEF Players, Views
<1>3. Seq(CommandsTo(g)) \subseteq Seq(CommandsTo(h))
  <2>1. CommandsTo(g) \subseteq CommandsTo(h)  BY <1>1 DEF CommandsTo
  <2>. QED  BY <2>1
<1>4. Seq(ReportsTo(g)) \subseteq Seq(ReportsTo(h))
  <2>1. ReportsTo(g) \subseteq ReportsTo(h)  BY <1>1 DEF ReportsTo
  <2>. QED  BY <2>1
<1>5. Seq(EventsTo(g)) \subseteq Seq(EventsTo(h))
  <2>1. EventsTo(g) \subseteq EventsTo(h)  BY <1>1 DEF EventsTo
  <2>. QED  BY <2>1
<1>6. LibrariesTo(g) \subseteq LibrariesTo(h)
  BY <1>1, <1>5 DEF LibrariesTo
<1>. QED  BY <1>1, <1>2, <1>3, <1>4, <1>6

LEMMA OrderedAppend ==
  ASSUME NEW g \in Nat, NEW q \in Seq(CommandsTo(g)), NEW w \in Nat, w <= g,
         Ordered(q, w), NEW h \in Nat, g <= h,
         NEW kind \in Kinds, kind = "load" => g < h
  PROVE  LET r == Append(q, Command(h, kind))
         IN  r \in Seq(CommandsTo(h)) /\ Ordered(r, w) /\ Len(r) = Len(q) + 1
<1> DEFINE c == Command(h, kind)
<1>1. c \in CommandsTo(h) /\ c.generation = h /\ c.kind = kind
  BY DEF CommandsTo, Command
<1> HIDE DEF c
<1> DEFINE r == Append(q, c)
<1>2. q \in Seq(CommandsTo(h))  BY TypesGrow
<1>3. r \in Seq(CommandsTo(h)) /\ Len(r) = Len(q) + 1  BY <1>1, <1>2
<1>0. \A i \in 1..Len(q) : q[i] \in CommandsTo(g)  OBVIOUS
<1>4. /\ \A i \in 1..Len(q) : r[i] = q[i] /\ q[i].generation \in 0..g
      /\ r[Len(q) + 1] = c /\ DOMAIN r = 1..(Len(q) + 1) /\ DOMAIN q = 1..Len(q)
  <2>1. \A i \in 1..Len(q) : r[i] = q[i]  OBVIOUS
  <2>2. \A i \in 1..Len(q) : q[i].generation \in 0..g  BY <1>0 DEF CommandsTo
  <2>3. r[Len(q) + 1] = c /\ DOMAIN r = 1..(Len(q) + 1) /\ DOMAIN q = 1..Len(q)
    OBVIOUS
  <2>. QED  BY <2>1, <2>2, <2>3
<1>5. Ordered(r, w)
  <2> HIDE DEF r
  <2>1. ASSUME NEW i \in DOMAIN r
        PROVE  /\ w <= r[i].generation
               /\ r[i].kind = "load" => w < r[i].generation
    BY <1>1, <1>4 DEF Ordered
  <2>2. ASSUME NEW i \in DOMAIN r, NEW j \in DOMAIN r, j < i
        PROVE  /\ r[j].generation <= r[i].generation
               /\ r[i].kind = "load" => r[j].generation < r[i].generation
    <3>1. CASE i = Len(q) + 1  BY <1>1, <1>4, <2>2, <3>1
    <3>2. CASE i \in 1..Len(q)  BY <1>4, <2>2, <3>2 DEF Ordered
    <3>. QED  BY <1>4, <3>1, <3>2
  <2>. QED  BY <2>1, <2>2 DEF Ordered
<1>. QED  BY <1>3, <1>5 DEF c

LEMMA BeginsAppend ==
  ASSUME NEW g \in Nat, NEW q \in Seq(CommandsTo(g)), NEW h \in Nat,
         NEW kind \in Kinds
  PROVE  LET r == Append(q, Command(h, kind))
         IN  /\ g < h /\ kind \in {"load", "stop"} => Begins(r, h)
             /\ \A k : Begins(q, k) => Begins(r, k)
<1> DEFINE c == Command(h, kind)
<1>1. c.generation = h /\ c.kind = kind  BY DEF Command
<1> HIDE DEF c
<1> DEFINE r == Append(q, c)
<1>0. \A i \in 1..Len(q) : q[i] \in CommandsTo(g)  OBVIOUS
<1>4. /\ \A i \in 1..Len(q) : r[i] = q[i] /\ q[i].generation \in 0..g
      /\ r[Len(q) + 1] = c /\ DOMAIN r = 1..(Len(q) + 1) /\ DOMAIN q = 1..Len(q)
      /\ Len(q) \in Nat
  <2>1. \A i \in 1..Len(q) : r[i] = q[i]  OBVIOUS
  <2>2. \A i \in 1..Len(q) : q[i].generation \in 0..g  BY <1>0 DEF CommandsTo
  <2>3. r[Len(q) + 1] = c /\ DOMAIN r = 1..(Len(q) + 1) /\ DOMAIN q = 1..Len(q)
        /\ Len(q) \in Nat
    OBVIOUS
  <2>. QED  BY <2>1, <2>2, <2>3
<1> HIDE DEF r
<1>5. ASSUME g < h, kind \in {"load", "stop"} PROVE Begins(r, h)
  <2>1. \A j \in DOMAIN r : j < Len(q) + 1 => r[j].generation # h
    BY <1>4, <1>5
  <2>. QED  BY <1>1, <1>4, <1>5, <2>1 DEF Begins
<1>6. ASSUME NEW k, Begins(q, k) PROVE Begins(r, k)
  BY <1>4, <1>6 DEF Begins
<1>. QED  BY <1>5, <1>6 DEF c, r

-----------------------------------------------------------------------------
(* What an operation of the user interface leaves of a status.             *)

LEMMA FailedStatus ==
  ASSUME NEW g, NEW p \in Players(g), NEW m \in SUBSET (0..g)
  PROVE  LET f == Failed(p, m)
         IN  /\ f \in Players(g)
             /\ f.loaded = p.loaded /\ f.ended = p.ended /\ ~f.timed
             /\ f.failed = IF p.failed = {} THEN m ELSE p.failed
BY DEF Players, Failed

LEMMA RenewedStatus ==
  ASSUME NEW g, NEW p \in Players(g)
  PROVE  LET r == Renewed(p)
         IN  /\ r \in Players(g)
             /\ ~r.loaded /\ r.ended = {} /\ r.failed = {} /\ r.timed = p.timed
BY DEF Players, Renewed

Queue(q, g) ==
  /\ q \in Seq(CommandsTo(g)) /\ Len(q) <= CommandCapacity
  /\ Ordered(q, From)

\* What the sending of a command leaves.
SentInv(s, p, h, q, kind) ==
  /\ s.player \in Players(h)
  /\ s.player.loaded = p.loaded /\ s.player.ended = p.ended
  /\ s.player.timed => p.timed
  /\ Accepts(q) => s.player = p /\ s.commands = Append(q, Command(h, kind))
  /\ ~Accepts(q) =>
       /\ ~s.player.timed /\ s.commands = q
       /\ p.failed = {} => s.player.failed = {h}
       /\ p.failed # {} => s.player.failed = p.failed
  /\ Queue(s.commands, h)
  /\ \A k : Begins(q, k) => Begins(s.commands, k)

LEMMA SentStatus ==
  ASSUME NEW g \in Nat, NEW h \in Nat, g <= h, NEW p \in Players(h),
         NEW q, Queue(q, g), From \in Nat, From <= g,
         NEW kind \in Kinds, kind = "load" => g < h
  PROVE  SentInv(Sent(p, h, q, kind), p, h, q, kind)
<1> DEFINE s == Sent(p, h, q, kind)
<1>1. CASE Accepts(q)
  <2>1. s.player = p /\ s.commands = Append(q, Command(h, kind))
    BY <1>1 DEF Sent
  <2>2. Append(q, Command(h, kind)) \in Seq(CommandsTo(h))
        /\ Ordered(Append(q, Command(h, kind)), From)
        /\ Len(Append(q, Command(h, kind))) = Len(q) + 1
    BY OrderedAppend DEF Queue
  <2>3. Len(q) + 1 <= CommandCapacity
    BY <1>1, PlayerAssumption DEF Accepts, Queue
  <2>4. \A k : Begins(q, k) => Begins(Append(q, Command(h, kind)), k)
    BY BeginsAppend DEF Queue
  <2> HIDE DEF s
  <2>5. SentInv(s, p, h, q, kind)
    BY <1>1, <2>1, <2>2, <2>3, <2>4 DEF SentInv, Queue
  <2>. QED  BY <2>5 DEF s
<1>2. CASE ~Accepts(q)
  <2>1. s.player = Failed(p, {h}) /\ s.commands = q
    BY <1>2 DEF Sent
  <2>2. {h} \in SUBSET (0..h)  OBVIOUS
  <2>3. Queue(q, h)  BY TypesGrow DEF Queue
  <2> HIDE DEF s
  <2>4. /\ s.player \in Players(h)
        /\ s.player.loaded = p.loaded /\ s.player.ended = p.ended /\ ~s.player.timed
        /\ s.player.failed = IF p.failed = {} THEN {h} ELSE p.failed
    BY <2>1, <2>2, FailedStatus
  <2>5. SentInv(s, p, h, q, kind)
    BY <1>2, <2>1, <2>3, <2>4 DEF SentInv
  <2>. QED  BY <2>5 DEF s
<1>. QED  BY <1>1, <1>2

\* An outcome of a later generation.
Renews(o) ==
  /\ o.generation \in Nat
  /\ o.player \in Players(o.generation) /\ o.view \in Views(o.generation)
  /\ o.player.failed \subseteq {o.generation}
  /\ o.player.timed => o.player.failed = {}
  /\ o.player.failed = {} => ~o.player.loaded /\ o.player.ended = {}
  /\ o.fresh \in BOOLEAN /\ (o.fresh => worker \in {"none", "dead"})
  /\ o.commands \in Seq(CommandsTo(o.generation))
  /\ Len(o.commands) <= CommandCapacity
  /\ Ordered(o.commands, IF o.fresh THEN 0 ELSE From)
  /\ o.player.failed = {} /\ (o.fresh \/ worker \in Receiving) =>
       Begins(o.commands, o.generation)

\* What the first command of a generation leaves.
SentRenewsInv(s, p, h, q) ==
  /\ s.player \in Players(h)
  /\ s.player.failed \subseteq {h}
  /\ s.player.timed => p.timed /\ s.player.failed = {}
  /\ ~s.player.loaded /\ s.player.ended = {}
  /\ s.commands \in Seq(CommandsTo(h)) /\ Len(s.commands) <= CommandCapacity
  /\ Ordered(s.commands, From)
  /\ Accepts(q) => s.player = p
  /\ s.player.failed = {} => Begins(s.commands, h)

LEMMA SentRenews ==
  ASSUME NEW g \in Nat, NEW h, h = g + 1, NEW p \in Players(h),
         ~p.loaded, p.ended = {}, p.failed = {},
         NEW q, Queue(q, g), From \in Nat, From <= g,
         NEW kind \in {"load", "stop"}
  PROVE  SentRenewsInv(Sent(p, h, q, kind), p, h, q)
<1> DEFINE s == Sent(p, h, q, kind)
<1>0. h \in Nat /\ g <= h /\ g < h /\ kind \in Kinds  BY DEF Kinds
<1>1. SentInv(s, p, h, q, kind)  BY <1>0, SentStatus, Zenon
<1>2. Begins(Append(q, Command(h, kind)), h)  BY <1>0, BeginsAppend DEF Queue
<1> HIDE DEF s
<1>3. s.player.failed = {} => Accepts(q)
  BY <1>1 DEF SentInv
<1>4. s.player.failed \subseteq {h}
  BY <1>1 DEF SentInv
<1>5. SentRenewsInv(s, p, h, q)
  BY <1>1, <1>2, <1>3, <1>4 DEF SentRenewsInv, SentInv, Queue
<1>. QED  BY <1>5 DEF s

StoppedInv(o, g, v) ==
  /\ Renews(o) /\ o.generation = g + 1 /\ ~o.player.timed
  /\ o.view = v /\ o.fresh = FALSE
  /\ DOMAIN o = {"generation", "player", "commands", "fresh", "view"}

LEMMA StoppedRenews ==
  ASSUME NEW g \in Nat, NEW p \in Players(g), NEW q, Queue(q, g),
         From \in Nat, From <= g, NEW v \in Views(g + 1)
  PROVE  StoppedInv(Stopped(p, g, q, v), g, v)
<1> DEFINE h == g + 1
<1> DEFINE r == [Renewed(p) EXCEPT !.loading = FALSE, !.timed = FALSE]
<1> DEFINE s == Sent(r, h, q, "stop")
<1> DEFINE o == Stopped(p, g, q, v)
<1>0. h \in Nat /\ g <= h /\ g < h  OBVIOUS
<1>1. r \in Players(h) /\ ~r.loaded /\ r.ended = {} /\ r.failed = {} /\ ~r.timed
  <2>1. Renewed(p) \in Players(h)  BY <1>0, RenewedStatus, TypesGrow
  <2>2. ~Renewed(p).loaded /\ Renewed(p).ended = {} /\ Renewed(p).failed = {}
    BY RenewedStatus
  <2> HIDE DEF h
  <2>. QED  BY <2>1, <2>2 DEF Players
<1>2. /\ o.generation = h /\ o.player = s.player /\ o.commands = s.commands
      /\ o.fresh = FALSE /\ o.view = v
      /\ DOMAIN o = {"generation", "player", "commands", "fresh", "view"}
  BY DEF Stopped
<1>3. h = g + 1  OBVIOUS
<1> HIDE DEF h, r, o
<1>4. SentRenewsInv(s, r, h, q)
  BY <1>1, <1>3, SentRenews, Zenon
<1> HIDE DEF s
<1>5. v \in Views(h)  BY <1>3
<1>6. Renews(o)
  BY <1>0, <1>1, <1>2, <1>4, <1>5 DEF Renews, SentRenewsInv
<1>7. ~o.player.timed
  BY <1>1, <1>2, <1>4 DEF SentRenewsInv
<1>8. StoppedInv(o, g, v)  BY <1>2, <1>3, <1>6, <1>7 DEF StoppedInv
<1>. QED  BY <1>8 DEF o

LEMMA PlayedRenews ==
  ASSUME NEW g \in Nat, NEW p \in Players(g), NEW q, Queue(q, g),
         From \in Nat, From <= g
  PROVE  LET o == Played(p, g, q)
         IN  /\ Renews(o) /\ o.generation = g + 1
             /\ DOMAIN o = {"generation", "player", "commands", "fresh", "view"}
<1> DEFINE h == g + 1
<1> DEFINE fresh == worker \in {"none", "dead"}
<1> DEFINE r == [Renewed(p) EXCEPT !.loading = TRUE, !.timed = TRUE, !.paused = FALSE]
<1> DEFINE s == IF fresh THEN [player |-> r, commands |-> <<Command(g + 1, "load")>>]
                ELSE Sent(r, g + 1, q, "load")
<1> DEFINE o == Played(p, g, q)
<1>0. h \in Nat /\ g <= h /\ g < h  OBVIOUS
<1>1. r \in Players(h) /\ ~r.loaded /\ r.ended = {} /\ r.failed = {}
  <2>1. Renewed(p) \in Players(h)  BY <1>0, RenewedStatus, TypesGrow
  <2>2. ~Renewed(p).loaded /\ Renewed(p).ended = {} /\ Renewed(p).failed = {}
    BY RenewedStatus
  <2> HIDE DEF h
  <2>. QED  BY <2>1, <2>2 DEF Players
<1>2. /\ o.generation = h /\ o.player = s.player /\ o.commands = s.commands
      /\ o.fresh = fresh
      /\ o.view = [pending |-> fresh \/ Accepts(q), active |-> fresh \/ Accepts(q),
                   handled |-> {}, paused |-> FALSE]
      /\ DOMAIN o = {"generation", "player", "commands", "fresh", "view"}
  BY Zenon DEF Played
<1>3. o.view \in Views(h)
  <2> DEFINE ok == fresh \/ Accepts(q)
  <2>1. ok \in BOOLEAN  BY DEF Accepts
  <2>2. o.view = [pending |-> ok, active |-> ok, handled |-> {}, paused |-> FALSE]
    BY <1>2
  <2> HIDE DEF o, ok
  <2>. QED  BY <2>1, <2>2 DEF Views
<1>4. h = g + 1  OBVIOUS
<1> HIDE DEF r, o
<1>5. CASE fresh
  <2> DEFINE c == Command(h, "load")
  <2>1. s.player = r /\ s.commands = <<c>>  BY <1>5
  <2>2. c \in CommandsTo(h) /\ c.generation = h /\ c.kind = "load"
    BY <1>0 DEF CommandsTo, Command, Kinds
  <2>0. o.fresh = TRUE  BY <1>2, <1>5
  <2> HIDE DEF c, s, h
  <2>3. <<c>> \in Seq(CommandsTo(h)) /\ Len(<<c>>) = 1 /\ DOMAIN <<c>> = {1}
        /\ <<c>>[1] = c
    BY <2>2
  <2> DEFINE q1 == <<c>>
  <2>8. q1 = <<c>>  OBVIOUS
  <2> HIDE DEF q1
  <2>4. Ordered(q1, 0) /\ Begins(q1, h)
    BY <1>0, <2>2, <2>3, <2>8 DEF Ordered, Begins
  <2>5. 1 <= CommandCapacity  BY PlayerAssumption
  <2>6. o.player = r /\ o.commands = q1  BY <1>2, <2>1, <2>8
  <2>7. q1 \in Seq(CommandsTo(h)) /\ Len(q1) = 1  BY <2>3, <2>8
  <2>9. Renews(o)
    BY <1>0, <1>1, <1>2, <1>3, <1>5, <2>0, <2>4, <2>5, <2>6, <2>7 DEF Renews
  <2>. QED
    BY <1>2, <1>4, <2>9 DEF o
<1>6. CASE ~fresh
  <2>0. s = Sent(r, g + 1, q, "load")  BY <1>6
  <2>3. o.fresh = FALSE
    <3>1. fresh = FALSE  BY <1>6
    <3>. QED  BY <1>2, <3>1, Zenon
  <2> HIDE DEF s, h
  <2>1. SentRenewsInv(s, r, h, q)
    BY <1>1, <1>4, <2>0, SentRenews, Zenon
  <2>4. Renews(o)
    BY <1>0, <1>2, <1>3, <2>1, <2>3 DEF Renews, SentRenewsInv
  <2>. QED
    BY <1>2, <1>4, <2>4 DEF o
<1>. QED  BY <1>5, <1>6

\* An outcome of the same generation keeps the status and the queue.
Result(o, g, p, q) ==
  /\ DOMAIN o = {"generation", "player", "commands", "fresh", "view"}
  /\ \/ Renews(o) /\ g < o.generation
     \/ /\ o.generation = g /\ o.player = p /\ o.commands = q /\ o.fresh = FALSE
        /\ o.view \in Views(g)

LEMMA AdvancedResult ==
  ASSUME NEW g \in Nat, NEW p \in Players(g), NEW q, Queue(q, g),
         From \in Nat, From <= g, NEW v \in Views(g), view \in Views(g),
         NEW o \in Advanced(p, g, q, v)
  PROVE  Result(o, g, p, q)
<1> DEFINE handled == [v EXCEPT !.handled = p.ended]
<1> DEFINE stay == [generation |-> g, player |-> p, view |-> handled,
                    commands |-> q, fresh |-> FALSE]
<1> DEFINE none == Unplayable(p, g, q)
<1> DEFINE stop == Stopped(p, g, q, Emptied(handled, q))
<1> DEFINE halt == Stopped(p, g, q, Emptied(none.view, q))
<1> DEFINE next == Played(p, g, q)
<1> DEFINE last == Stopped(next.player, g + 1, q, Emptied(next.view, q))
<1>1. o \in {stay, none, halt, stop, next, last}
  <2> HIDE DEF stay, none, halt, stop, last, next
  <2>1. \/ o \in {stay, none, halt}
        \/ o \in IF g >= MaxLoads THEN {stop}
                 ELSE {stop, IF next.view.active THEN next ELSE last}
    BY Zenon DEF Advanced, stay, none, halt, stop, last, next
  <2>. QED  BY <2>1
<1>2. handled \in Views(g)
  BY DEF Views, Players
<1>3. CASE o = stay
  <2> HIDE DEF handled
  <2>1. /\ DOMAIN o = {"generation", "player", "commands", "fresh", "view"}
        /\ o.generation = g /\ o.player = p /\ o.commands = q /\ o.fresh = FALSE
        /\ o.view = handled
    BY <1>3
  <2>. QED  BY <1>2, <2>1 DEF Result
<1>4. /\ DOMAIN none = {"generation", "player", "commands", "fresh", "view"}
      /\ none.generation = g /\ none.player = p /\ none.commands = q /\ none.fresh = FALSE
      /\ none.view \in Views(g)
  BY DEF Unplayable, Views
<1>5. CASE o = none
  <2> HIDE DEF none
  <2>. QED  BY <1>4, <1>5 DEF Result
<1>6. ASSUME NEW w \in Views(g) PROVE Emptied(w, q) \in Views(g + 1)
  <2>1. Accepts(q) \in BOOLEAN  BY DEF Accepts
  <2>2. Emptied(w, q) \in Views(g)  BY <2>1 DEF Emptied, Views
  <2>. QED  BY <2>2, TypesGrow
<1>7. ASSUME NEW w \in Views(g), o = Stopped(p, g, q, Emptied(w, q))
      PROVE  Result(o, g, p, q)
  <2> DEFINE e == Emptied(w, q)
  <2>1. e \in Views(g + 1)  BY <1>6
  <2>2. o = Stopped(p, g, q, e)  BY <1>7
  <2> HIDE DEF e
  <2>3. StoppedInv(o, g, e)
    BY <2>1, <2>2, StoppedRenews, Zenon
  <2>. QED  BY <2>3 DEF Result, StoppedInv
<1>8. CASE o \in {stop, halt}
  <2> HIDE DEF none, handled
  <2>. QED  BY <1>2, <1>4, <1>7, <1>8
<1>9. /\ Renews(next) /\ next.generation = g + 1
      /\ DOMAIN next = {"generation", "player", "commands", "fresh", "view"}
  BY PlayedRenews
<1>10. CASE o = next
  <2> HIDE DEF next
  <2>. QED  BY <1>9, <1>10 DEF Result
<1>11. CASE o = last
  <2> DEFINE e == Emptied(next.view, q)
  <2>1. e \in Views(g + 2)
    <3>1. next.view \in Views(g + 1)  BY <1>9 DEF Renews
    <3>2. Accepts(q) \in BOOLEAN  BY DEF Accepts
    <3> HIDE DEF next
    <3>3. e \in Views(g + 1)  BY <3>1, <3>2 DEF Emptied, Views
    <3> HIDE DEF e
    <3>. QED  BY <3>3, TypesGrow
  <2>2. o = Stopped(next.player, g + 1, q, e)  BY <1>11
  <2>3. next.player \in Players(g + 1)  BY <1>9 DEF Renews
  <2>4. Queue(q, g + 1)  BY TypesGrow DEF Queue
  <2> HIDE DEF e, next, last
  <2>5. StoppedInv(o, g + 1, e)
    <3>1. e \in Views((g + 1) + 1)  BY <2>1
    <3>2. g + 1 \in Nat /\ From <= g + 1  OBVIOUS
    <3>. QED  BY <2>2, <2>3, <2>4, <3>1, <3>2, StoppedRenews, Zenon
  <2>6. o.generation = g + 2  BY <2>5 DEF StoppedInv
  <2>. QED  BY <2>5, <2>6 DEF Result, StoppedInv
<1> HIDE DEF stay, none, halt, stop, next, last
<1>. QED  BY <1>1, <1>3, <1>5, <1>8, <1>10, <1>11

LEMMA ReportedResult ==
  ASSUME NEW o, NEW g \in Nat, NEW p \in Players(g), NEW q,
         Result(o, g, p, q)
  PROVE  Result([o EXCEPT !.view = Reported(@, p)], g, p, q)
<1> DEFINE v == Reported(o.view, p)
<1> DEFINE r == [o EXCEPT !.view = v]
<1>1. /\ DOMAIN r = {"generation", "player", "commands", "fresh", "view"}
      /\ r.generation = o.generation /\ r.player = o.player
      /\ r.commands = o.commands /\ r.fresh = o.fresh /\ r.view = v
  BY DEF Result
<1>2. o.generation \in Nat /\ o.view \in Views(o.generation)
  BY DEF Result, Renews
<1>3. v \in Views(o.generation) /\ v.handled = o.view.handled
      /\ (v.pending => o.view.pending)
  BY <1>2 DEF Reported, Views, Players
<1> HIDE DEF v, r
<1>5. Renews(o) => Renews(r)
  BY <1>1, <1>3 DEF Renews
<1>6. Result(r, g, p, q)
  BY <1>1, <1>2, <1>3, <1>5 DEF Result
<1>. QED  BY <1>6 DEF r, v

-----------------------------------------------------------------------------
(* The invariant, when the user interface does something.                  *)

\* What is said of a status depends on four of its fields.
LEMMA StatusSame ==
  ASSUME NEW p, NEW n, StatusInv(p, n), NEW r,
         r.loaded = p.loaded, r.ended = p.ended, r.failed = p.failed,
         r.timed => p.timed
  PROVE  StatusInv(r, n)
<1>1. Fresh(r)  BY DEF StatusInv, Fresh
<1>2. r.failed = {} => \A m \in r.ended : Own(m, "eof") /\ Own(m, "loaded")
  BY DEF StatusInv
<1>3. r.failed = {} => Reaches /\ ReportsOwn(n)
  BY DEF StatusInv
<1>4. r.failed = {} /\ wGeneration = generation =>
        LibraryOwn /\ ReportsLoaded(r.loaded, n) /\ EventsLoaded(r.loaded, n)
  BY Zenon DEF StatusInv
<1>. QED  BY <1>1, <1>2, <1>3, <1>4 DEF StatusInv

\* A failure leaves nothing to be said.
LEMMA StatusFailed ==
  ASSUME NEW p, NEW n, p.failed # {}, ~p.timed,
         \A m \in p.failed : Own(m, "broke"),
         wGeneration # generation => p.failed \subseteq {generation}
  PROVE  StatusInv(p, n)
BY DEF StatusInv, Fresh

LEMMA SentKeeps ==
  ASSUME NEW p \in Players(generation), NEW q, NEW kind, NEW n,
         StatusInv(p, n), NEW s, SentInv(s, p, generation, q, kind)
  PROVE  StatusInv(s.player, n)
<1>1. CASE Accepts(q)
  BY <1>1 DEF SentInv
<1>2. CASE ~Accepts(q)
  <2>1. ~s.player.timed /\ s.player.failed = IF p.failed = {} THEN {generation} ELSE p.failed
    BY <1>2 DEF SentInv
  <2>2. s.player.failed # {}  BY <2>1
  <2>3. \A m \in s.player.failed : Own(m, "broke")
    <3>1. CASE p.failed = {}  BY <2>1, <3>1 DEF Own
    <3>2. CASE p.failed # {}  BY <2>1, <3>2 DEF StatusInv, Fresh
    <3>. QED  BY <3>1, <3>2
  <2>4. wGeneration # generation => s.player.failed \subseteq {generation}
    BY <2>1 DEF StatusInv, Fresh
  <2>. QED  BY <2>1, <2>2, <2>3, <2>4, StatusFailed
<1>. QED  BY <1>1, <1>2

\* The generation remains.
LEMMA StayKeeps ==
  ASSUME PlayInv, NEW n,
         generation' = generation,
         player' \in Players(generation), view' \in Views(generation),
         StatusInv(player', n),
         statuses' = <<>> \/ (n = 0 /\ statuses' = statuses),
         Queue(commands', generation),
         \A k : Begins(commands, k) => Begins(commands', k),
         frame' \in SUBSET (0..generation),
         UNCHANGED <<worker, wGeneration, mpv, left>>
  PROVE  PlayInv'
<1>1. PlayTypes'
  <2>1. statuses' \in Seq(ReportsTo(generation)) /\ Len(statuses') <= StatusCapacity
    <3>1. CASE statuses' = <<>>  BY <3>1, PlayerAssumption
    <3>2. CASE statuses' = statuses  BY <3>2 DEF PlayInv, PlayTypes
    <3>. QED  BY <3>1, <3>2
  <2>. QED  BY <2>1 DEF PlayInv, PlayTypes, Queue
<1>2. Labels'
  <2>1. From' = From  BY DEF From
  <2>2. Ordered(commands, From)'
    BY <2>1 DEF Queue, Ordered
  <2>. QED  BY <2>2 DEF PlayInv, Labels
<1>3. Sequenced'
  BY DEF PlayInv, Sequenced
<1>4. StatusInv(player, 0)'
  <2>1. Fresh(player)'
    BY DEF StatusInv, Fresh, Own
  <2>2. player'.failed = {} => \A m \in player'.ended : (Own(m, "eof") /\ Own(m, "loaded"))'
    BY DEF StatusInv, Own
  <2>3. player'.failed = {} => Reaches'
    BY DEF StatusInv, Reaches, Begins
  <2>4. player'.failed = {} => ReportsOwn(0)'
    BY DEF StatusInv, ReportsOwn, Says, Own
  <2>5. player'.failed = {} /\ wGeneration' = generation' => LibraryOwn'
    BY DEF StatusInv, LibraryOwn, Own
  <2>6. player'.failed = {} /\ wGeneration' = generation' => ReportsLoaded(player.loaded, 0)'
    BY DEF StatusInv, ReportsLoaded, Says, Own
  <2>7. player'.failed = {} /\ wGeneration' = generation' => EventsLoaded(player.loaded, 0)'
    BY DEF StatusInv, EventsLoaded, Says, Own
  <2>. QED  BY <2>1, <2>2, <2>3, <2>4, <2>5, <2>6, <2>7 DEF StatusInv
<1>. QED  BY <1>1, <1>2, <1>3, <1>4 DEF PlayInv

\* A later generation begins.
LEMMA RenewKeeps ==
  ASSUME PlayInv, NEW o, Renews(o), generation < o.generation,
         Becomes(o),
         statuses' = <<>> \/ (statuses' = statuses /\ ~o.fresh),
         frame' = {} \/ frame' = frame,
         UNCHANGED <<wGeneration, mpv, left>>
  PROVE  PlayInv'
<1> DEFINE h == o.generation
<1>1. /\ generation \in Nat /\ h \in Nat /\ generation <= h /\ wGeneration \in 0..generation
      /\ generation' = h /\ player' = o.player /\ view' = o.view /\ commands' = o.commands
      /\ o.fresh \in BOOLEAN
      /\ o.fresh => worker \in {"none", "dead"} /\ worker' = "starting"
      /\ ~o.fresh => worker' = worker
      /\ wGeneration' = wGeneration /\ mpv' = mpv /\ left' = left
  BY DEF PlayInv, PlayTypes, Renews, Becomes
<1> HIDE DEF h
<1>2. wGeneration' \in 0..h /\ wGeneration' < h /\ wGeneration' # generation'
  BY <1>1 DEF h
<1>3. PlayTypes'
  <2>1. statuses' \in Seq(ReportsTo(h)) /\ Len(statuses') <= StatusCapacity
    <3>1. statuses \in Seq(ReportsTo(h))
      BY <1>1, TypesGrow DEF PlayInv, PlayTypes
    <3>2. CASE statuses' = <<>>  BY <3>2, PlayerAssumption
    <3>3. CASE statuses' = statuses  BY <3>1, <3>3 DEF PlayInv, PlayTypes
    <3>. QED  BY <3>2, <3>3
  <2>2. mpv' \in LibrariesTo(h)
    BY <1>1, TypesGrow DEF PlayInv, PlayTypes
  <2>3. frame' \in SUBSET (0..h)
    <3>1. 0..generation \subseteq 0..h  BY <1>1
    <3>2. frame \in SUBSET (0..generation)  BY DEF PlayInv, PlayTypes
    <3>. QED  BY <3>1, <3>2
  <2>4. worker' \in Receiving \cup {"none", "dead"}
    BY <1>1 DEF PlayInv, PlayTypes, Receiving
  <2>6. player' \in Players(h) /\ view' \in Views(h)
        /\ commands' \in Seq(CommandsTo(h)) /\ Len(commands') <= CommandCapacity
    BY <1>1 DEF Renews, h
  <2>7. generation' = h  BY <1>1
  <2>. QED  BY <1>1, <1>2, <2>1, <2>2, <2>3, <2>4, <2>6, <2>7 DEF PlayTypes
<1>4. Labels'
  <2>1. Ordered(commands, From)'
    <3>1. From' = IF o.fresh THEN 0 ELSE From  BY <1>1 DEF From
    <3>2. Ordered(commands', From')  BY <1>1, <3>1 DEF Renews
    <3>. QED  BY <3>2 DEF Ordered
  <2>2. \A i \in DOMAIN statuses' :
          statuses'[i].kind # "startup" => statuses'[i].generation <= wGeneration'
    BY <1>1 DEF PlayInv, Labels
  <2>3. worker' \in {"none", "starting", "dead"} => mpv' = Idle
    BY <1>1 DEF PlayInv, Labels, Idle, NoEvents
  <2>4. worker' = "starting" => statuses' = <<>> /\ wGeneration' < generation'
    BY <1>1, <1>2 DEF PlayInv, Labels
  <2>. QED  BY <2>1, <2>2, <2>3, <2>4 DEF Labels, Idle, NoEvents
<1>5. Sequenced'
  BY DEF PlayInv, Sequenced
<1>6. StatusInv(player, 0)'
  <2>1. Fresh(player)'
    BY <1>1, <1>2 DEF Renews, Fresh, Own, h
  <2>2. player'.failed = {} => player'.ended = {}
    BY <1>1 DEF Renews
  <2>3. player'.failed = {} => Reaches'
    BY <1>1 DEF Renews, Reaches, Begins, h, Receiving
  <2>4. ReportsOwn(0)'
    <3>1. \A i \in DOMAIN statuses' : \A k \in TellKinds :
            statuses'[i].kind = k => statuses'[i].generation # generation'
      <4>1. ASSUME NEW i \in DOMAIN statuses', statuses'[i].kind # "startup"
            PROVE  statuses'[i].generation # generation'
        <5>1. statuses' = statuses /\ i \in DOMAIN statuses  BY <4>1
        <5>2. statuses[i].generation <= wGeneration
          BY <4>1, <5>1 DEF PlayInv, Labels
        <5>3. statuses[i] \in ReportsTo(generation)
          BY <5>1 DEF PlayInv, PlayTypes
        <5>4. statuses[i].generation \in 0..generation  BY <5>3 DEF ReportsTo
        <5>. QED  BY <1>1, <1>2, <5>1, <5>2, <5>4
      <4>. QED  BY <4>1 DEF TellKinds
    <3>. QED  BY <3>1 DEF ReportsOwn, Says
  <2>. QED  BY <1>2, <2>1, <2>2, <2>3, <2>4 DEF StatusInv
<1>. QED  BY <1>3, <1>4, <1>5, <1>6 DEF PlayInv

-----------------------------------------------------------------------------
(* The reports are drained.                                                *)

\* One report less to come.
LEMMA StatusLess ==
  ASSUME NEW p, NEW n \in Nat, n # 0, DOMAIN statuses \subseteq Nat,
         StatusInv(p, n - 1)
  PROVE  StatusInv(p, n)
<1>1. \A i \in DOMAIN statuses : (i > n => i > n - 1) /\ (n < i => n - 1 < i)
  OBVIOUS
<1>2. ReportsOwn(n - 1) => ReportsOwn(n)
  BY <1>1 DEF ReportsOwn
<1>3. ASSUME NEW b, ReportsLoaded(b, n - 1) PROVE ReportsLoaded(b, n)
  BY <1>1, <1>3 DEF ReportsLoaded
<1>4. ASSUME NEW b, EventsLoaded(b, n - 1) PROVE EventsLoaded(b, n)
  BY <1>1, <1>4 DEF EventsLoaded
<1>. QED  BY <1>2, <1>3, <1>4, Zenon DEF StatusInv

\* What a report makes of a status.
HandledInv(r, p, n) ==
  /\ r \in Players(generation)
  /\ r.timed => p.timed
  /\ StatusInv(r, n)

LEMMA HandledKeeps ==
  ASSUME PlayInv, NEW n \in 1..Len(statuses),
         NEW p \in Players(generation), StatusInv(p, n - 1)
  PROVE  HandledInv(Handled(p, statuses[n]), p, n)
<1> DEFINE e == statuses[n]
<1> DEFINE r == Handled(p, e)
<1>1. /\ e \in ReportsTo(generation) /\ n \in DOMAIN statuses /\ n \in Nat /\ n # 0
      /\ n > n - 1 /\ DOMAIN statuses \subseteq Nat
  BY DEF PlayInv, PlayTypes
<1>2. /\ e.kind \in ReportKinds /\ e.generation \in 0..generation
      /\ e.medium \in 0..generation /\ e.paused \in BOOLEAN
  BY <1>1 DEF ReportsTo
<1>3. StatusInv(p, n)  BY <1>1, StatusLess
<1>4. generation \in Nat /\ wGeneration \in 0..generation
  BY DEF PlayInv, PlayTypes
<1>5. e.kind # "startup" /\ e.generation = generation => wGeneration = generation
  BY <1>1, <1>4 DEF PlayInv, Labels
<1>6. ASSUME NEW m \in SUBSET (0..generation), m # {},
             \A x \in m : p.failed = {} => Own(x, "broke"),
             wGeneration # generation => m \subseteq {generation}
      PROVE  HandledInv(Failed(p, m), p, n)
  <2> DEFINE f == Failed(p, m)
  <2>1. /\ f \in Players(generation) /\ ~f.timed
        /\ f.failed = IF p.failed = {} THEN m ELSE p.failed
    BY FailedStatus
  <2> HIDE DEF f
  <2>2. f.failed # {} /\ \A x \in f.failed : Own(x, "broke")
    <3>1. CASE p.failed = {}  BY <1>6, <2>1, <3>1
    <3>2. CASE p.failed # {}  BY <2>1, <3>2 DEF StatusInv, Fresh
    <3>. QED  BY <3>1, <3>2
  <2>3. wGeneration # generation => f.failed \subseteq {generation}
    BY <1>6, <2>1 DEF StatusInv, Fresh
  <2>4. StatusInv(f, n)  BY <2>1, <2>2, <2>3, StatusFailed
  <2>. QED  BY <2>1, <2>4 DEF HandledInv, f
<1>7. {generation} \in SUBSET (0..generation) /\ {e.medium} \in SUBSET (0..generation)
  BY <1>2, <1>4
<1>8. \A x : x = generation => Own(x, "broke")  BY DEF Own
<1>9. CASE e.kind = "startup" \/ (e.kind = "error" /\ e.generation = generation)
  <2>1. r = Failed(p, {generation})  BY <1>9 DEF Handled
  <2>. QED  BY <1>6, <1>7, <1>8, <2>1
<1>10. CASE e.kind = "broke" /\ e.generation = generation
  <2>1. r = Failed(p, {e.medium})  BY <1>10 DEF Handled
  <2>2. p.failed = {} => Own(e.medium, "broke")
    BY <1>1, <1>10 DEF StatusInv, ReportsOwn, Says, TellKinds
  <2>. QED  BY <1>5, <1>6, <1>7, <1>10, <2>1, <2>2
<1>11. CASE \/ e.kind # "startup" /\ e.generation # generation
            \/ e.kind = "replaced" /\ e.generation = generation
  <2>1. r = p  BY <1>11 DEF Handled
  <2>. QED  BY <1>3, <2>1 DEF HandledInv
<1>12. CASE e.kind = "audio" /\ e.generation = generation
  <2>1. r = [p EXCEPT !.loading = FALSE, !.timed = FALSE]  BY <1>12 DEF Handled
  <2> HIDE DEF e, r
  <2>2. r \in Players(generation) /\ r.loaded = p.loaded /\ r.ended = p.ended
        /\ r.failed = p.failed /\ ~r.timed
    BY <2>1 DEF Players
  <2>3. StatusInv(r, n)  BY <1>3, <2>2, StatusSame
  <2>. QED  BY <2>2, <2>3 DEF HandledInv, r, e
<1>13. CASE e.kind = "progress" /\ e.generation = generation
  <2>1. r = [p EXCEPT !.paused = e.paused]  BY <1>13 DEF Handled
  <2> HIDE DEF e, r
  <2>2. r \in Players(generation) /\ r.loaded = p.loaded /\ r.ended = p.ended
        /\ r.failed = p.failed /\ (r.timed => p.timed)
    BY <1>2, <2>1 DEF Players
  <2>3. StatusInv(r, n)  BY <1>3, <2>2, StatusSame
  <2>. QED  BY <2>2, <2>3 DEF HandledInv, r, e
<1>14. CASE e.kind = "loaded" /\ e.generation = generation
  <2>1. r = [p EXCEPT !.loaded = TRUE, !.ended = {}]  BY <1>14 DEF Handled
  <2>0. Says(n, "loaded") /\ wGeneration = generation  BY <1>5, <1>14 DEF Says
  <2> HIDE DEF e, r
  <2>2. r \in Players(generation) /\ r.loaded = TRUE /\ r.ended = {}
        /\ r.failed = p.failed /\ (r.timed => p.timed)
    BY <2>1 DEF Players
  <2>3. Fresh(r)
    BY <1>3, <2>0, <2>2 DEF StatusInv, Fresh
  <2>4. ReportsLoaded(p.loaded, n - 1) => ReportsLoaded(TRUE, n)
    BY <1>1, <2>0 DEF ReportsLoaded
  <2>5. EventsLoaded(p.loaded, n - 1) => EventsLoaded(TRUE, n)
    BY <1>1, <2>0 DEF EventsLoaded
  <2>6. p.failed = {} => ReportsLoaded(p.loaded, n - 1) /\ EventsLoaded(p.loaded, n - 1)
    BY <2>0, Zenon DEF StatusInv
  <2>7. r.failed = {} => Reaches /\ ReportsOwn(n) /\ LibraryOwn
    BY <1>3, <2>0, <2>2 DEF StatusInv
  <2>8. r.failed = {} => ReportsLoaded(r.loaded, n) /\ EventsLoaded(r.loaded, n)
    BY <2>2, <2>4, <2>5, <2>6, Zenon
  <2>9. StatusInv(r, n)
    BY <2>2, <2>3, <2>7, <2>8 DEF StatusInv
  <2>. QED  BY <2>2, <2>9 DEF HandledInv, r, e
<1>15. CASE e.kind = "eof" /\ e.generation = generation
  <2>0. Says(n, "eof") /\ wGeneration = generation  BY <1>5, <1>15 DEF Says
  <2>1. r = IF p.loaded THEN [p EXCEPT !.ended = {e.medium}] ELSE p
    BY <1>15 DEF Handled
  <2>2. CASE ~p.loaded
    <3>1. r = p  BY <2>1, <2>2
    <3>. QED  BY <1>3, <3>1 DEF HandledInv
  <2>3. CASE p.loaded
    <3>1. r = [p EXCEPT !.ended = {e.medium}]  BY <2>1, <2>3
    <3>2. p.failed = {} => Own(e.medium, "eof") /\ Own(e.medium, "loaded")
      <4>1. p.failed = {} => Own(e.medium, "eof")
        BY <1>1, <2>0 DEF StatusInv, ReportsOwn, TellKinds
      <4>2. p.failed = {} => ReportsLoaded(p.loaded, n - 1)
        BY <2>0, Zenon DEF StatusInv
      <4>3. ReportsLoaded(p.loaded, n - 1) => Own(e.medium, "loaded")
        BY <1>1, <2>0, <2>3 DEF ReportsLoaded
      <4>. QED  BY <4>1, <4>2, <4>3
    <3> DEFINE m == e.medium
    <3>3. m \in 0..generation  BY <1>2
    <3>4. r = [p EXCEPT !.ended = {m}]  BY <3>1
    <3>5. p.failed = {} => Own(m, "eof") /\ Own(m, "loaded")  BY <3>2
    <3> HIDE DEF e, r, m
    <3>6. r \in Players(generation) /\ r.loaded = p.loaded /\ r.ended = {m}
          /\ r.failed = p.failed /\ (r.timed => p.timed)
      BY <3>3, <3>4 DEF Players
    <3>7. Fresh(r)
      BY <1>3, <2>0, <3>6 DEF StatusInv, Fresh
    <3>8. r.failed = {} => Reaches /\ ReportsOwn(n) /\ LibraryOwn
      BY <1>3, <2>0, <3>6 DEF StatusInv
    <3>9. r.failed = {} => ReportsLoaded(r.loaded, n) /\ EventsLoaded(r.loaded, n)
      BY <1>3, <2>0, <3>6, Zenon DEF StatusInv
    <3>10. StatusInv(r, n)
      BY <3>5, <3>6, <3>7, <3>8, <3>9 DEF StatusInv
    <3>. QED  BY <3>6, <3>10 DEF HandledInv, r, e
  <2>. QED  BY <2>2, <2>3
<1>. QED
  BY <1>2, <1>9, <1>10, <1>11, <1>12, <1>13, <1>14, <1>15
  DEF ReportKinds, EventKinds, TellKinds

\* drain_events.
LEMMA DrainKeeps ==
  ASSUME PlayInv
  PROVE  HandledInv(Drained, player, Len(statuses))
<1> DEFINE n == Len(statuses)
<1>1. n \in Nat /\ DOMAIN statuses = 1..n  BY DEF PlayInv, PlayTypes
<1>2. PICK p : /\ p[0] = player /\ p[n] = Drained
               /\ \A k \in 1..n : p[k] = Handled(p[k - 1], statuses[k])
  BY <1>1, DrainedSteps
<1> DEFINE S == {k \in Nat : k <= n => HandledInv(p[k], player, k)}
<1>3. 0 \in S
  BY <1>2 DEF HandledInv, PlayInv, PlayTypes
<1>4. ASSUME NEW k \in Nat, k \in S PROVE k + 1 \in S
  <2>1. CASE k + 1 <= n
    <3>1. k + 1 \in 1..n /\ (k + 1) - 1 = k /\ k <= n  BY <1>1, <2>1
    <3>2. p[k] \in Players(generation) /\ (p[k].timed => player.timed)
          /\ StatusInv(p[k], (k + 1) - 1)
      BY <1>4, <3>1 DEF HandledInv
    <3>3. HandledInv(p[k + 1], p[k], k + 1)
      BY <1>2, <3>1, <3>2, HandledKeeps
    <3>4. HandledInv(p[k + 1], player, k + 1)
      BY <3>2, <3>3 DEF HandledInv
    <3>. QED  BY <3>4
  <2>2. CASE ~(k + 1 <= n)
    <3>. QED  BY <2>2
  <2>. QED  BY <2>1, <2>2
<1>5. n \in S
  <2> HIDE DEF S, n
  <2>. QED  BY <1>1, <1>3, <1>4, NatSetInduction
<1>6. n <= n  BY <1>1
<1>. QED  BY <1>2, <1>5, <1>6

-----------------------------------------------------------------------------
(* The events of the user, and the tick.                                   *)

LEMMA QueueNow ==
  ASSUME PlayInv
  PROVE  /\ generation \in Nat /\ player \in Players(generation)
         /\ view \in Views(generation)
         /\ From \in Nat /\ From <= generation /\ Queue(commands, generation)
         /\ frame \in SUBSET (0..generation) /\ StatusInv(player, 0)
BY DEF PlayInv, PlayTypes, Labels, From, Queue

LEMMA PlayOwn == OwnInv /\ Play => OwnInv'
<1> SUFFICES ASSUME OwnInv, Play PROVE OwnInv'  OBVIOUS
<1> DEFINE o == Played(player, generation, commands)
<1>1. PlayInv /\ MaxLoads \in Nat  BY PlayerAssumption DEF OwnInv
<1>2. /\ Renews(o) /\ o.generation = generation + 1
      /\ DOMAIN o = {"generation", "player", "commands", "fresh", "view"}
  BY <1>1, QueueNow, PlayedRenews
<1>3. /\ generation < MaxLoads /\ Becomes(o)
      /\ IF o.fresh THEN statuses' = <<>> /\ frame' = {}
                    ELSE UNCHANGED <<statuses, frame>>
      /\ UNCHANGED <<ui, count, panic, suspended, locals, mpv, left, lost>>
  BY DEF Play
<1> HIDE DEF o
<1>5. generation < o.generation  BY <1>1, <1>2, QueueNow
<1>6. statuses' = <<>> \/ (statuses' = statuses /\ ~o.fresh)  BY <1>3
<1>7. frame' = {} \/ frame' = frame  BY <1>3
<1>8. UNCHANGED <<wGeneration, mpv, left>>  BY <1>3 DEF locals
<1>9. PlayInv'
  BY <1>1, <1>2, <1>3, <1>5, <1>6, <1>7, <1>8, RenewKeeps
<1>10. WindowTypes'
  BY <1>3 DEF OwnInv, WindowTypes, locals
<1>. QED  BY <1>9, <1>10 DEF OwnInv

LEMMA UnplayableOwn == OwnInv /\ PlayUnplayable => OwnInv'
<1> SUFFICES ASSUME OwnInv, PlayUnplayable PROVE OwnInv'  OBVIOUS
<1> DEFINE o == Unplayable(player, generation, commands)
<1>1. PlayInv  BY DEF OwnInv
<1>2. /\ o.generation = generation /\ o.player = player /\ o.commands = commands
      /\ ~o.fresh /\ o.view \in Views(generation)
  BY <1>1, QueueNow DEF Unplayable, Views
<1>3. /\ Becomes(o) /\ count' = count + 2 /\ count + 2 <= MaxEvents
      /\ UNCHANGED <<ui, panic, suspended, statuses, frame, locals, mpv, left>>
  BY Zenon DEF PlayUnplayable, Input, Counted, Costs
<1> HIDE DEF o
<1>4. /\ generation' = generation /\ player' = player /\ view' \in Views(generation)
      /\ UNCHANGED <<commands, worker>>
  BY <1>2, <1>3 DEF Becomes
<1>5. StatusInv(player', 0)  BY <1>1, <1>4, QueueNow, Zenon
<1>6. PlayInv'
  BY <1>1, <1>3, <1>4, <1>5, QueueNow, StayKeeps DEF locals
<1>7. WindowTypes'
  BY <1>3, PlayerAssumption DEF OwnInv, WindowTypes, locals
<1>. QED  BY <1>6, <1>7 DEF OwnInv

LEMMA StopOwn == OwnInv /\ Stop => OwnInv'
<1> SUFFICES ASSUME OwnInv, Stop PROVE OwnInv'  OBVIOUS
<1>1. PlayInv /\ MaxLoads \in Nat  BY PlayerAssumption DEF OwnInv
<1>2. PICK video \in BOOLEAN, waits \in BOOLEAN, paused \in {view.paused, player.paused} :
        Becomes(Stopped(player, generation, commands,
                        [view EXCEPT !.active  = @ /\ video,
                                     !.pending = @ /\ waits, !.paused = paused]))
  BY DEF Stop
<1> DEFINE v == [view EXCEPT !.active  = @ /\ video,
                             !.pending = @ /\ waits, !.paused = paused]
<1> DEFINE o == Stopped(player, generation, commands, v)
<1>3. v \in Views(generation)
  BY <1>1, QueueNow DEF Views, Players
<1>4. v \in Views(generation + 1)
  <2> HIDE DEF v
  <2>. QED  BY <1>1, <1>3, QueueNow, TypesGrow
<1>5. Becomes(o)  BY <1>2
<1> HIDE DEF v
<1>6. StoppedInv(o, generation, v)
  BY <1>1, <1>4, QueueNow, StoppedRenews
<1> HIDE DEF o
<1>7. /\ generation < MaxLoads /\ ui' = ui /\ count' = count + 2 /\ count + 2 <= MaxEvents
      /\ UNCHANGED <<panic, suspended, statuses, frame, locals, mpv, left, lost>>
  BY DEF Stop, Input, Counted, Costs
<1>8. Renews(o) /\ generation < o.generation /\ ~o.fresh
  BY <1>1, <1>6, <1>7, QueueNow DEF StoppedInv
<1>9. PlayInv'
  BY <1>1, <1>5, <1>7, <1>8, RenewKeeps DEF locals
<1>10. WindowTypes'
  BY <1>7, PlayerAssumption DEF OwnInv, WindowTypes, locals
<1>. QED  BY <1>9, <1>10 DEF OwnInv

LEMMA StallOwn == OwnInv /\ Stall => OwnInv'
<1> SUFFICES ASSUME OwnInv, Stall PROVE OwnInv'  OBVIOUS
<1> DEFINE v == [view EXCEPT !.pending = FALSE]
<1> DEFINE o == Stopped(player, generation, commands, v)
<1>1. PlayInv /\ MaxLoads \in Nat  BY PlayerAssumption DEF OwnInv
<1>2. v \in Views(generation) /\ ~v.pending /\ v.handled = view.handled
  BY <1>1, QueueNow DEF Views
<1>3. Becomes(o)  BY DEF Stall
<1> HIDE DEF v
<1>4. v \in Views(generation + 1)
  BY <1>1, <1>2, QueueNow, TypesGrow
<1>5. StoppedInv(o, generation, v)
  BY <1>1, <1>4, QueueNow, StoppedRenews
<1> HIDE DEF o
<1>7. /\ view.pending /\ ui' = ui /\ count' = count + 2 /\ count + 2 <= MaxEvents
      /\ UNCHANGED <<panic, suspended, statuses, frame, locals, mpv, left, lost>>
  BY DEF Stall, Counted, Costs
<1>8. Renews(o) /\ generation < o.generation /\ ~o.fresh
  BY <1>1, <1>2, <1>5, <1>7, QueueNow DEF StoppedInv
<1>9. PlayInv'
  BY <1>1, <1>3, <1>7, <1>8, RenewKeeps DEF locals
<1>10. WindowTypes'
  BY <1>7, PlayerAssumption DEF OwnInv, WindowTypes, locals
<1>. QED  BY <1>9, <1>10 DEF OwnInv

\* What a command of the same generation leaves.
LEMMA SentStays ==
  ASSUME PlayInv, NEW p \in Players(generation), NEW n, StatusInv(p, n),
         NEW q, Queue(q, generation), NEW kind \in Kinds \ {"load"}
  PROVE  LET s == Sent(p, generation, q, kind)
         IN  /\ s.player \in Players(generation) /\ (s.player.timed => p.timed)
             /\ StatusInv(s.player, n)
             /\ Queue(s.commands, generation)
             /\ \A k : Begins(q, k) => Begins(s.commands, k)
<1> DEFINE s == Sent(p, generation, q, kind)
<1>1. generation <= generation /\ kind \in Kinds /\ kind # "load"
  BY QueueNow
<1>2. SentInv(s, p, generation, q, kind)
  BY <1>1, QueueNow, SentStatus
<1> HIDE DEF s
<1>3. StatusInv(s.player, n)  BY <1>2, SentKeeps
<1>4. /\ s.player \in Players(generation) /\ (s.player.timed => p.timed)
      /\ Queue(s.commands, generation)
      /\ \A k : Begins(q, k) => Begins(s.commands, k)
  BY <1>2 DEF SentInv
<1>. QED  BY <1>3, <1>4 DEF s

\* Pausing changes nothing else of a status.
LEMMA PausedStays ==
  ASSUME NEW g, NEW p \in Players(g), NEW n, StatusInv(p, n), NEW b \in BOOLEAN
  PROVE  LET r == [p EXCEPT !.paused = b]
         IN  r \in Players(g) /\ (r.timed => p.timed) /\ StatusInv(r, n)
<1> DEFINE r == [p EXCEPT !.paused = b]
<1>1. r \in Players(g) /\ r.loaded = p.loaded /\ r.ended = p.ended
      /\ r.failed = p.failed /\ (r.timed => p.timed)
  BY DEF Players
<1> HIDE DEF r
<1>2. StatusInv(r, n)  BY <1>1, StatusSame
<1>. QED  BY <1>1, <1>2 DEF r

LEMMA SetPausedOwn ==
  ASSUME OwnInv, SetPaused
  PROVE  OwnInv'
<1>1. PlayInv  BY DEF OwnInv
<1> DEFINE paused == ~view.paused
<1> DEFINE p == [player EXCEPT !.paused = paused]
<1> DEFINE s == Sent(p, generation, commands, Pausing(paused))
<1>2. /\ IF view.active THEN player' = s.player /\ commands' = s.commands
                        ELSE UNCHANGED <<player, commands>>
      /\ view' = [view EXCEPT !.paused  = ~@,
                              !.pending = @ /\ (view.active => player'.failed = {})]
      /\ count + 1 <= MaxEvents /\ count' = count + 1
      /\ UNCHANGED <<ui, generation, panic, suspended, statuses, frame, worker, locals, mpv,
                     left, lost>>
  BY DEF SetPaused, Costs
<1>3. paused \in BOOLEAN /\ Pausing(paused) \in Kinds \ {"load"}
  BY DEF Pausing, Kinds, Asking
<1>4. p \in Players(generation) /\ (p.timed => player.timed) /\ StatusInv(p, 0)
  <2> HIDE DEF paused
  <2>. QED  BY <1>1, <1>3, QueueNow, PausedStays
<1> HIDE DEF p, paused
<1>5. /\ s.player \in Players(generation) /\ (s.player.timed => p.timed)
      /\ StatusInv(s.player, 0)
      /\ Queue(s.commands, generation)
      /\ \A k : Begins(commands, k) => Begins(s.commands, k)
  BY <1>1, <1>3, <1>4, QueueNow, SentStays
<1> HIDE DEF s
<1>6. /\ player' \in Players(generation) /\ (player'.timed => player.timed)
      /\ StatusInv(player', 0)
      /\ Queue(commands', generation)
      /\ \A k : Begins(commands, k) => Begins(commands', k)
  <2>1. CASE view.active
    <3>1. player' = s.player /\ commands' = s.commands  BY <1>2, <2>1
    <3>2. s.player.timed => player.timed  BY <1>4, <1>5
    <3>3. StatusInv(player', 0)  BY <1>5, <3>1, Zenon
    <3>. QED  BY <1>5, <3>1, <3>2, <3>3
  <2>2. CASE ~view.active
    <3>1. player' = player /\ commands' = commands  BY <1>2, <2>2
    <3>2. StatusInv(player', 0)  BY <1>1, <3>1, QueueNow, Zenon
    <3>. QED  BY <1>1, <3>1, <3>2, QueueNow
  <2>. QED  BY <2>1, <2>2
<1>7. view' \in Views(generation) /\ view'.handled = view.handled
      /\ (view'.pending => view.pending)
  BY <1>1, <1>2, QueueNow DEF Views
<1>9. PlayInv'
  <2>1. frame' \in SUBSET (0..generation)  BY <1>1, <1>2, QueueNow
  <2>. QED  BY <1>1, <1>2, <1>6, <1>7, <2>1, StayKeeps DEF locals
<1>10. WindowTypes'
  BY <1>2, PlayerAssumption DEF OwnInv, WindowTypes, locals
<1>. QED  BY <1>9, <1>10 DEF OwnInv

LEMMA SetOwn == OwnInv /\ Set => OwnInv'
<1> SUFFICES ASSUME OwnInv, Set PROVE OwnInv'  OBVIOUS
<1>1. PlayInv  BY DEF OwnInv
<1> DEFINE s == Sent(player, generation, commands, "set")
<1>2. /\ player' = s.player /\ commands' = s.commands
      /\ view' = [view EXCEPT !.paused = player.paused, !.pending = @ /\ player'.failed = {}]
      /\ count + 2 <= MaxEvents /\ count' = count + 2
      /\ UNCHANGED <<ui, generation, panic, suspended, statuses, frame, worker, locals, mpv,
                     history>>
  BY DEF Set, Input, Counted, Costs
<1>3. "set" \in Kinds \ {"load"}  BY DEF Kinds
<1>5. /\ s.player \in Players(generation) /\ (s.player.timed => player.timed)
      /\ StatusInv(s.player, 0)
      /\ Queue(s.commands, generation)
      /\ \A k : Begins(commands, k) => Begins(s.commands, k)
  BY <1>1, <1>3, QueueNow, SentStays
<1> HIDE DEF s
<1>6. StatusInv(player', 0)  BY <1>2, <1>5, Zenon
<1>7. view' \in Views(generation) /\ view'.handled = view.handled
      /\ (view'.pending => view.pending)
  <2>1. player.paused \in BOOLEAN  BY <1>1, QueueNow DEF Players
  <2>. QED  BY <1>1, <1>2, <2>1, QueueNow DEF Views
<1>9. PlayInv'
  <2>1. frame' \in SUBSET (0..generation)  BY <1>1, <1>2, QueueNow
  <2>. QED  BY <1>1, <1>2, <1>5, <1>6, <1>7, <2>1, StayKeeps DEF locals, history
<1>10. WindowTypes'
  BY <1>2, PlayerAssumption DEF OwnInv, WindowTypes, locals
<1>. QED  BY <1>9, <1>10 DEF OwnInv

LEMMA RestoreOwn ==
  ASSUME OwnInv, Restore
  PROVE  OwnInv'
<1>1. PlayInv  BY DEF OwnInv
<1>2. PICK paused \in panic :
        /\ view' = [view EXCEPT !.paused = paused]
        /\ IF view.active
           THEN LET volume == Sent(player, generation, commands, "set")
                    sent   == Sent([volume.player EXCEPT !.paused = paused], generation,
                                   volume.commands, Pausing(paused))
                IN  player' = sent.player /\ commands' = sent.commands
           ELSE UNCHANGED <<player, commands>>
  BY DEF Restore
<1>3. /\ ui = "restoring" /\ ui' = "open" /\ panic' = {}
      /\ UNCHANGED <<count, generation, suspended, statuses, frame, worker, locals, mpv,
                     left, lost>>
  BY DEF Restore
<1>4. paused \in BOOLEAN  BY <1>2 DEF OwnInv, WindowTypes
<1> DEFINE volume == Sent(player, generation, commands, "set")
<1> DEFINE p == [volume.player EXCEPT !.paused = paused]
<1> DEFINE s == Sent(p, generation, volume.commands, Pausing(paused))
<1>5. "set" \in Kinds \ {"load"} /\ Pausing(paused) \in Kinds \ {"load"}
  BY <1>4 DEF Kinds, Pausing, Asking
<1>6. /\ volume.player \in Players(generation) /\ (volume.player.timed => player.timed)
      /\ StatusInv(volume.player, 0)
      /\ Queue(volume.commands, generation)
      /\ \A k : Begins(commands, k) => Begins(volume.commands, k)
  BY <1>1, <1>5, QueueNow, SentStays
<1>7. IF view.active THEN player' = s.player /\ commands' = s.commands
                     ELSE UNCHANGED <<player, commands>>
  BY <1>2
<1> HIDE DEF volume
<1>8. p \in Players(generation) /\ (p.timed => volume.player.timed) /\ StatusInv(p, 0)
  BY <1>4, <1>6, PausedStays
<1> HIDE DEF p
<1>9. /\ s.player \in Players(generation) /\ (s.player.timed => p.timed)
      /\ StatusInv(s.player, 0)
      /\ Queue(s.commands, generation)
      /\ \A k : Begins(volume.commands, k) => Begins(s.commands, k)
  BY <1>1, <1>5, <1>6, <1>8, SentStays
<1> HIDE DEF s
<1>10. /\ player' \in Players(generation) /\ (player'.timed => player.timed)
       /\ StatusInv(player', 0)
       /\ Queue(commands', generation)
       /\ \A k : Begins(commands, k) => Begins(commands', k)
  <2>1. CASE view.active
    <3>1. player' = s.player /\ commands' = s.commands  BY <1>7, <2>1
    <3>2. s.player.timed => player.timed  BY <1>6, <1>8, <1>9
    <3>3. StatusInv(player', 0)  BY <1>9, <3>1, Zenon
    <3>. QED  BY <1>6, <1>9, <3>1, <3>2, <3>3
  <2>2. CASE ~view.active
    <3>1. player' = player /\ commands' = commands  BY <1>7, <2>2
    <3>2. StatusInv(player', 0)  BY <1>1, <3>1, QueueNow, Zenon
    <3>. QED  BY <1>1, <3>1, <3>2, QueueNow
  <2>. QED  BY <2>1, <2>2
<1>11. view' \in Views(generation) /\ view'.handled = view.handled
       /\ (view'.pending => view.pending)
  BY <1>1, <1>2, <1>4, QueueNow DEF Views
<1>13. PlayInv'
  <2>1. frame' \in SUBSET (0..generation)  BY <1>1, <1>3, QueueNow
  <2>. QED  BY <1>1, <1>3, <1>10, <1>11, <2>1, StayKeeps DEF locals
<1>14. WindowTypes'
  BY <1>3, PlayerAssumption DEF OwnInv, WindowTypes, locals
<1>. QED  BY <1>13, <1>14 DEF OwnInv

LEMMA ShutdownOwn == OwnInv /\ Shutdown => OwnInv'
<1> SUFFICES ASSUME OwnInv, Shutdown PROVE OwnInv'  OBVIOUS
<1>1. PlayInv  BY DEF OwnInv
<1>2. /\ count + 2 <= MaxEvents /\ count' = count + 2 /\ ui = "open" /\ ui' = "joining"
      /\ commands' = IF Accepts(commands)
                     THEN Append(commands, Command(generation, "shutdown")) ELSE commands
      /\ statuses' = <<>> /\ frame' = {}
      /\ UNCHANGED <<native, view, panic, suspended, worker, locals, mpv, history>>
  BY DEF Shutdown, Counted, Costs
<1> DEFINE s == Sent(player, generation, commands, "shutdown")
<1>3. "shutdown" \in Kinds \ {"load"}  BY DEF Kinds
<1>4. commands' = s.commands  BY <1>2 DEF Sent
<1>5. /\ Queue(s.commands, generation)
      /\ \A k : Begins(commands, k) => Begins(s.commands, k)
  BY <1>1, <1>3, QueueNow, SentStays
<1> HIDE DEF s
<1>6. player' = player /\ view' = view /\ generation' = generation
  BY <1>2 DEF native
<1>7. StatusInv(player', 0)
  BY <1>1, <1>6, QueueNow, Zenon
<1>8. PlayInv'
  <2>1. frame' \in SUBSET (0..generation)  BY <1>2
  <2>. QED  BY <1>1, <1>2, <1>4, <1>5, <1>6, <1>7, <2>1, QueueNow, StayKeeps DEF locals, history
<1>9. WindowTypes'
  BY <1>2, PlayerAssumption DEF OwnInv, WindowTypes, locals
<1>. QED  BY <1>8, <1>9 DEF OwnInv

\* Steps that the player does not see.
LEMMA SameKeeps ==
  ASSUME PlayInv,
         UNCHANGED <<generation, player, view, commands, statuses, frame, worker,
                     wGeneration, mpv, left>>
  PROVE  PlayInv'
<1>1. StatusInv(player', 0)
  BY QueueNow, Zenon
<1>. QED  BY <1>1, QueueNow, StayKeeps

LEMMA WindowOwn == OwnInv /\ (Hide \/ Unsuspend \/ Joined \/ UNCHANGED vars) => OwnInv'
<1>1. OwnInv /\ (Hide \/ Unsuspend \/ Joined \/ UNCHANGED vars) => PlayInv'
  BY SameKeeps
  DEF OwnInv, Hide, Unsuspend, Joined, vars, native, shared, locals, history
<1>2. ASSUME OwnInv, Hide PROVE WindowTypes'
  <2>1. /\ ui = "open" /\ ui' = ui /\ count + 1 <= MaxEvents /\ count' = count + 1
        /\ panic' = {view.paused} /\ suspended' = TRUE /\ UNCHANGED locals
    BY <1>2 DEF Hide, Visible, Costs
  <2>2. view.paused \in BOOLEAN  BY <1>2, QueueNow DEF OwnInv, Views
  <2>3. panic' \in SUBSET BOOLEAN /\ panic' # {}  BY <2>1, <2>2
  <2>. QED
    <3>1. suspended' = (panic' # {}) /\ suspended' \in BOOLEAN
      BY <2>1, <2>3
    <3>2. count' \in Nat /\ count' <= MaxEvents
      BY <1>2, <2>1, PlayerAssumption DEF OwnInv, WindowTypes
    <3>. QED  BY <1>2, <2>1, <2>3, <3>1, <3>2 DEF OwnInv, WindowTypes, locals
<1>3. ASSUME OwnInv, Unsuspend PROVE WindowTypes'
  BY <1>3 DEF OwnInv, WindowTypes, Unsuspend, locals
<1>4. ASSUME OwnInv, Joined PROVE WindowTypes'
  BY <1>4 DEF OwnInv, WindowTypes, Joined, locals
<1>5. ASSUME OwnInv, UNCHANGED vars PROVE WindowTypes'
  BY <1>5 DEF OwnInv, WindowTypes, vars, locals
<1>. QED  BY <1>1, <1>2, <1>3, <1>4, <1>5 DEF OwnInv

LEMMA ShownKeeps ==
  ASSUME NEW p, NEW n, HandledInv(p, player, n)
  PROVE  HandledInv(Shown(p), player, n)
<1> DEFINE r == Shown(p)
<1>1. \/ r = p
      \/ r = [p EXCEPT !.loading = FALSE, !.timed = FALSE]
  BY DEF Shown
<1> HIDE DEF r
<1>2. CASE r = p  BY <1>2 DEF r
<1>3. CASE r = [p EXCEPT !.loading = FALSE, !.timed = FALSE]
  <2>1. /\ r \in Players(generation) /\ r.loaded = p.loaded /\ r.ended = p.ended
        /\ r.failed = p.failed /\ ~r.timed
    BY <1>3 DEF HandledInv, Players
  <2>2. StatusInv(r, n)  BY <2>1, StatusSame DEF HandledInv
  <2>3. HandledInv(r, player, n)  BY <2>1, <2>2 DEF HandledInv
  <2>. QED  BY <2>3 DEF r
<1>. QED  BY <1>1, <1>2, <1>3

\* The tick keeps the generation, or begins one, or two.
LEMMA TickOwn ==
  ASSUME OwnInv, NEW late \in BOOLEAN, Tick(late)
  PROVE  OwnInv'
<1>1. PlayInv /\ MaxLoads \in Nat  BY PlayerAssumption DEF OwnInv
<1> DEFINE n == Len(statuses)
<1> DEFINE shown == Shown(Drained)
<1> DEFINE g == IF late THEN generation + 1 ELSE generation
<1> DEFINE status == IF late THEN Failed(shown, {g}) ELSE shown
<1> DEFINE queued == IF late /\ Accepts(commands)
                     THEN Append(commands, Command(g, "stop")) ELSE commands
<1> DEFINE news == late \/ shown # Drained \/ News
<1> DEFINE stay == [generation |-> g, player |-> status, view |-> view,
                    commands |-> queued, fresh |-> FALSE]
<1>2. /\ late => shown.timed /\ ~suspended
      /\ \E o : /\ o = stay \/ (/\ o \in Advanced(status, g, queued, view)
                                /\ status.ended # {} /\ view.handled = {})
                /\ Becomes(IF news THEN [o EXCEPT !.view = Reported(@, status)] ELSE o)
  <2> DEFINE advance == news /\ status.ended # {} /\ view.handled = {} /\ panic = {}
  <2>1. /\ late => shown.timed /\ ~suspended
        /\ \E o \in IF advance THEN Advanced(status, g, queued, view) ELSE {stay} :
             Becomes(IF news THEN [o EXCEPT !.view = Reported(@, status)] ELSE o)
    BY Zenon DEF Tick
  <2> HIDE DEF g, status, queued, news, stay
  <2>2. CASE advance  BY <2>1, <2>2
  <2>3. CASE ~advance  BY <2>1, <2>3
  <2>. QED  BY <2>2, <2>3
<1>3. /\ statuses' = <<>> /\ frame' = {}
      /\ count' = count \/ (count + 2 <= MaxEvents /\ count' = count + 2)
      /\ UNCHANGED <<ui, panic, suspended, locals, mpv, left>>
  BY Zenon DEF Tick, Counted, Costs
<1>4. HandledInv(shown, player, n)
  BY <1>1, DrainKeeps, ShownKeeps
<1>5. /\ g \in Nat /\ generation <= g /\ (late => g = generation + 1)
      /\ (~late => g = generation)
  BY <1>1, QueueNow
<1>6. /\ status \in Players(g)
      /\ late => status.failed = {g} /\ ~status.timed
      /\ ~late => status = shown
  <2>1. CASE late
    <3>1. shown \in Players(generation) /\ StatusInv(shown, n)
      BY <1>4 DEF HandledInv
    <3>2. shown.failed = {}  BY <1>2, <2>1, <3>1 DEF StatusInv, Fresh
    <3>3. shown \in Players(g)
      <4> HIDE DEF g, shown
      <4>. QED  BY <1>1, <1>5, <3>1, QueueNow, TypesGrow
    <3>4. {g} \in SUBSET (0..g)  BY <1>5
    <3>5. status = Failed(shown, {g})  BY <2>1
    <3> HIDE DEF shown, g, status
    <3>6. status \in Players(g) /\ ~status.timed /\ status.failed = {g}
      BY <3>2, <3>3, <3>4, <3>5, FailedStatus
    <3>. QED  BY <2>1, <3>6
  <2>2. CASE ~late
    <3>1. status = shown /\ g = generation  BY <2>2
    <3> HIDE DEF status, g, shown
    <3>. QED  BY <1>4, <2>2, <3>1 DEF HandledInv
  <2>. QED  BY <2>1, <2>2
<1>7. Queue(queued, g) /\ \A k : Begins(commands, k) => Begins(queued, k)
  <2>1. CASE late /\ Accepts(commands)
    <3>1. queued = Append(commands, Command(g, "stop"))  BY <2>1
    <3>2. "stop" \in Kinds  BY DEF Kinds
    <3> HIDE DEF queued, g, shown, status, stay
    <3>3. Append(commands, Command(g, "stop")) \in Seq(CommandsTo(g))
          /\ Ordered(Append(commands, Command(g, "stop")), From)
          /\ Len(Append(commands, Command(g, "stop"))) = Len(commands) + 1
      BY <1>1, <1>5, <3>2, QueueNow, OrderedAppend DEF Queue
    <3>4. \A k : Begins(commands, k) => Begins(Append(commands, Command(g, "stop")), k)
      BY <1>1, <1>5, <3>2, QueueNow, BeginsAppend DEF Queue
    <3>5. Len(commands) + 1 <= CommandCapacity
      BY <1>1, <2>1, QueueNow, PlayerAssumption DEF Accepts, Queue
    <3>. QED  BY <3>1, <3>3, <3>4, <3>5 DEF Queue
  <2>2. CASE ~(late /\ Accepts(commands))
    <3>1. queued = commands  BY <2>2
    <3> HIDE DEF queued, g, shown, status, stay
    <3>. QED  BY <1>1, <1>5, <3>1, QueueNow, TypesGrow DEF Queue
  <2>. QED  BY <2>1, <2>2
<1> HIDE DEF queued, g, status, news, shown
<1>8. view \in Views(g)
  BY <1>1, <1>5, QueueNow, TypesGrow
<1>10. From \in Nat /\ From <= g  BY <1>1, <1>5, QueueNow
<1>11. PICK o : /\ o = stay \/ (/\ o \in Advanced(status, g, queued, view)
                                /\ status.ended # {} /\ view.handled = {})
                /\ Becomes(IF news THEN [o EXCEPT !.view = Reported(@, status)] ELSE o)
  BY <1>2
<1>12. Result(o, g, status, queued)
  <2>1. CASE o = stay
    <3>1. /\ DOMAIN o = {"generation", "player", "commands", "fresh", "view"}
          /\ o.generation = g /\ o.player = status /\ o.commands = queued
          /\ o.fresh = FALSE /\ o.view = view
      BY <2>1
    <3>. QED  BY <1>8, <3>1 DEF Result
  <2>2. CASE o # stay
    BY <1>5, <1>6, <1>7, <1>8, <1>10, <1>11, <2>2, AdvancedResult
  <2>. QED  BY <2>1, <2>2
<1> HIDE DEF stay
<1> DEFINE r == IF news THEN [o EXCEPT !.view = Reported(@, status)] ELSE o
<1>13. Result(r, g, status, queued)
  BY <1>5, <1>6, <1>12, ReportedResult
<1>14. Becomes(r)  BY <1>11
<1> HIDE DEF r
<1>15. UNCHANGED <<wGeneration, mpv, left>>  BY <1>3 DEF locals
<1>16. PlayInv'
  <2>1. CASE Renews(r) /\ g < r.generation
    <3>1. generation < r.generation
      BY <1>1, <1>5, <2>1, QueueNow DEF Renews
    <3>. QED  BY <1>1, <1>3, <1>14, <1>15, <2>1, <3>1, RenewKeeps
  <2>2. CASE ~(Renews(r) /\ g < r.generation)
    <3>1. /\ r.generation = g /\ r.player = status /\ r.commands = queued
          /\ r.fresh = FALSE /\ r.view \in Views(g)
      BY <1>13, <2>2 DEF Result
    <3>2. CASE late
      <4>1. Renews(r)
        BY <1>5, <1>6, <1>7, <3>1, <3>2 DEF Renews, Queue
      <4>2. generation < r.generation  BY <1>1, <1>5, <3>1, <3>2, QueueNow
      <4>. QED  BY <1>1, <1>3, <1>14, <1>15, <4>1, <4>2, RenewKeeps
    <3>3. CASE ~late
      <4>1. /\ g = generation /\ player' = status /\ view' = r.view
            /\ commands' = queued /\ generation' = generation /\ worker' = worker
        BY <1>5, <1>14, <3>1, <3>3 DEF Becomes
      <4>2. StatusInv(player', n)
        <5>1. StatusInv(status, n)  BY <1>4, <1>6, <3>3 DEF HandledInv
        <5>. QED  BY <4>1, <5>1, Zenon
      <4>4. player' \in Players(generation) /\ view' \in Views(generation)
        BY <1>6, <3>1, <4>1
      <4>5. Queue(commands', generation)
            /\ \A k : Begins(commands, k) => Begins(commands', k)
        BY <1>7, <4>1
      <4>6. frame' \in SUBSET (0..generation)  BY <1>3
      <4>7. worker' = worker /\ generation' = generation  BY <4>1
      <4> HIDE DEF n
      <4>. QED
        BY <1>1, <1>3, <1>15, <4>2, <4>4, <4>5, <4>6, <4>7, StayKeeps
    <3>. QED  BY <3>2, <3>3
  <2>. QED  BY <2>1, <2>2
<1>17. WindowTypes'
  BY <1>3, PlayerAssumption DEF OwnInv, WindowTypes, locals
<1>. QED  BY <1>16, <1>17 DEF OwnInv

-----------------------------------------------------------------------------
(* The worker and libmpv.                                                  *)

\* Only libmpv changes, or the worker ends.
LEMMA LibraryKeeps ==
  ASSUME PlayInv,
         UNCHANGED <<generation, player, view, statuses, frame, wGeneration, left>>,
         worker \in {"turn", "pull", "ending"},
         worker' \in {"turn", "pull", "ending", "dead"},
         commands' = commands \/ (worker' = "dead" /\ commands' = <<>>),
         mpv' \in LibrariesTo(generation),
         worker' = "dead" => mpv' = Idle,
         Sequenced',
         wGeneration = generation /\ player.failed = {} =>
           LibraryOwn' /\ EventsLoaded(player.loaded, 0)'
  PROVE  PlayInv'
<1>1. PlayTypes'
  <2>1. commands' \in Seq(CommandsTo(generation)) /\ Len(commands') <= CommandCapacity
    <3>1. CASE commands' = <<>>  BY <3>1, PlayerAssumption
    <3>2. CASE commands' = commands  BY <3>2 DEF PlayInv, PlayTypes
    <3>. QED  BY <3>1, <3>2
  <2>3. worker' \in Receiving \cup {"none", "dead"}  BY DEF Receiving
  <2>. QED  BY <2>1, <2>3 DEF PlayInv, PlayTypes
<1>2. Labels'
  <2>1. From' = wGeneration /\ From = wGeneration  BY DEF From
  <2>2. Ordered(commands, From)'
    <3>1. CASE commands' = <<>>  BY <3>1 DEF Ordered
    <3>2. CASE commands' = commands  BY <2>1, <3>2 DEF PlayInv, Labels, Ordered
    <3>. QED  BY <3>1, <3>2
  <2>. QED  BY <2>2 DEF PlayInv, Labels, Idle, NoEvents
<1>3. StatusInv(player, 0)'
  <2>1. Fresh(player)'  BY DEF PlayInv, StatusInv, Fresh, Own
  <2>2. player'.failed = {} => \A m \in player'.ended : (Own(m, "eof") /\ Own(m, "loaded"))'
    BY DEF PlayInv, StatusInv, Own
  <2>3. player'.failed = {} => Reaches'
    BY DEF PlayInv, StatusInv, Reaches, Begins, Receiving
  <2>4. player'.failed = {} => ReportsOwn(0)'
    BY DEF PlayInv, StatusInv, ReportsOwn, Says, Own
  <2>5. player'.failed = {} /\ wGeneration' = generation' =>
          LibraryOwn' /\ EventsLoaded(player.loaded, 0)'
    OBVIOUS
  <2>6. player'.failed = {} /\ wGeneration' = generation' => ReportsLoaded(player.loaded, 0)'
    BY DEF PlayInv, StatusInv, ReportsLoaded, Says, Own
  <2>. QED  BY <2>1, <2>2, <2>3, <2>4, <2>5, <2>6 DEF StatusInv
<1>. QED  BY <1>1, <1>2, <1>3 DEF PlayInv

\* Pausing changes nothing else of libmpv.
LEMMA SuspendingPauses ==
  ASSUME WindowTypes, NEW g, NEW m \in LibrariesTo(g), Suspending(m)
  PROVE  /\ mpv' \in LibrariesTo(g)
         /\ mpv'.medium = m.medium /\ mpv'.stage = m.stage /\ mpv'.events = m.events
         /\ wasSuspended' \in BOOLEAN /\ restorePaused' \in BOOLEAN
<1>0. m.paused \in BOOLEAN  BY DEF LibrariesTo
<1>1. wasSuspended' \in BOOLEAN /\ restorePaused' \in BOOLEAN
  <2>1. CASE suspended /\ ~wasSuspended
    BY <1>0, <2>1 DEF WindowTypes, Suspending
  <2>2. CASE ~(suspended /\ ~wasSuspended)
    BY <2>2 DEF WindowTypes, Suspending
  <2>. QED  BY <2>1, <2>2
<1>2. PICK b : b \in BOOLEAN /\ mpv' = [m EXCEPT !.paused = b]
  <2>1. CASE suspended
    <3>1. mpv' = [m EXCEPT !.paused = TRUE]  BY <2>1 DEF Suspending
    <3>. QED  BY <3>1
  <2>2. CASE ~suspended /\ wasSuspended
    <3>1. mpv' = [m EXCEPT !.paused = restorePaused]  BY <2>2 DEF Suspending
    <3>. QED  BY <3>1 DEF WindowTypes
  <2>3. CASE ~suspended /\ ~wasSuspended
    <3>1. mpv' = [m EXCEPT !.paused = m.paused]  BY <2>3 DEF Suspending
    <3>. QED  BY <1>0, <3>1
  <2>. QED  BY <2>1, <2>2, <2>3 DEF WindowTypes
<1>. QED  BY <1>1, <1>2 DEF LibrariesTo

\* What the invariant says of libmpv depends on three of its fields.
LEMMA SameLibrary ==
  ASSUME PlayInv, UNCHANGED <<generation, player, statuses, left>>,
         mpv'.medium = mpv.medium, mpv'.stage = mpv.stage, mpv'.events = mpv.events
  PROVE  /\ Sequenced'
         /\ wGeneration = generation /\ player.failed = {} =>
              LibraryOwn' /\ EventsLoaded(player.loaded, 0)'
<1>1. Sequenced'  BY DEF PlayInv, Sequenced
<1>2. LibraryOwn => LibraryOwn'  BY DEF LibraryOwn, Own
<1>3. EventsLoaded(player.loaded, 0) => EventsLoaded(player.loaded, 0)'
  BY DEF EventsLoaded, Says, Own
<1>4. wGeneration = generation /\ player.failed = {} =>
        LibraryOwn /\ EventsLoaded(player.loaded, 0)
  BY DEF PlayInv, StatusInv
<1>. QED  BY <1>1, <1>2, <1>3, <1>4

LEMMA TurnIdleOwn == OwnInv /\ TurnIdle => OwnInv'
<1> SUFFICES ASSUME OwnInv, TurnIdle PROVE OwnInv'  OBVIOUS
<1>1. PlayInv /\ WindowTypes /\ mpv \in LibrariesTo(generation)
  BY DEF OwnInv, PlayInv, PlayTypes
<1>2. /\ worker = "turn" /\ worker' = "pull" /\ Suspending(mpv)
      /\ UNCHANGED <<ui, count, native, view, panic, suspended, shared, wGeneration,
                     renderReady, history>>
  BY DEF TurnIdle
<1>3. /\ mpv' \in LibrariesTo(generation)
      /\ mpv'.medium = mpv.medium /\ mpv'.stage = mpv.stage /\ mpv'.events = mpv.events
      /\ wasSuspended' \in BOOLEAN /\ restorePaused' \in BOOLEAN
  BY <1>1, <1>2, SuspendingPauses
<1>4. UNCHANGED <<generation, player, view, commands, statuses, frame, wGeneration, left>>
  BY <1>2 DEF native, shared, history
<1>5. PlayInv'
  BY <1>1, <1>2, <1>3, <1>4, SameLibrary, LibraryKeeps
<1>6. WindowTypes'
  BY <1>1, <1>2, <1>3 DEF WindowTypes
<1>. QED  BY <1>5, <1>6 DEF OwnInv

LEMMA TurnEndsOwn == OwnInv /\ TurnEnds => OwnInv'
<1> SUFFICES ASSUME OwnInv, TurnEnds PROVE OwnInv'  OBVIOUS
<1>1. PlayInv /\ WindowTypes /\ mpv \in LibrariesTo(generation)
  BY DEF OwnInv, PlayInv, PlayTypes
<1>2. /\ worker = "turn" /\ worker' = "ending"
      /\ UNCHANGED <<ui, count, native, view, panic, suspended, shared, locals, mpv, history>>
  BY DEF TurnEnds
<1>4. UNCHANGED <<generation, player, view, commands, statuses, frame, wGeneration, left, mpv>>
  BY <1>2 DEF native, shared, history, locals
<1>5. PlayInv'
  BY <1>1, <1>2, <1>4, SameLibrary, LibraryKeeps
<1>6. WindowTypes'
  BY <1>1, <1>2 DEF WindowTypes, locals
<1>. QED  BY <1>5, <1>6 DEF OwnInv

LEMMA EndOwn == OwnInv /\ End => OwnInv'
<1> SUFFICES ASSUME OwnInv, End PROVE OwnInv'  OBVIOUS
<1>1. PlayInv /\ WindowTypes
  BY DEF OwnInv
<1>2. /\ worker = "ending" /\ worker' = "dead" /\ mpv' = Idle /\ commands' = <<>>
      /\ UNCHANGED <<ui, count, native, view, panic, suspended, statuses, frame, locals,
                     history>>
  BY DEF End
<1>3. /\ mpv'.events = <<>> /\ mpv'.stage = "idle" /\ DOMAIN mpv'.events = {}
      /\ mpv' \in LibrariesTo(generation)
  <2>1. generation \in Nat  BY <1>1, QueueNow
  <2>2. 0 \in 0..generation /\ <<>> \in Seq(EventsTo(generation))  BY <2>1
  <2>3. Idle.events = <<>> /\ Idle.stage = "idle" /\ Idle \in LibrariesTo(generation)
    BY <2>2 DEF Idle, NoEvents, LibrariesTo, Stages
  <2>. QED  BY <1>2, <2>3
<1>4. UNCHANGED <<generation, player, view, statuses, frame, wGeneration, left>>
  BY <1>2 DEF native, history, locals
<1>5. Sequenced' /\ LibraryOwn' /\ EventsLoaded(player.loaded, 0)'
  BY <1>3 DEF Sequenced, LibraryOwn, EventsLoaded
<1>6. PlayInv'
  BY <1>1, <1>2, <1>3, <1>4, <1>5, LibraryKeeps
<1>7. WindowTypes'
  BY <1>1, <1>2 DEF WindowTypes, locals
<1>. QED  BY <1>6, <1>7 DEF OwnInv

\* One event more.
LEMMA HappensOwn ==
  ASSUME OwnInv, NEW stage \in {"playing", "idle", "ended"}, NEW kind \in TellKinds,
         Happens(stage, kind), mpv.stage \in {"opening", "playing"},
         stage = "playing" => kind = "loaded",
         kind = "loaded" => stage = "playing",
         kind = "eof" => mpv.stage = "playing",
         count' \in Nat, count' <= MaxEvents
  PROVE  OwnInv'
<1>1. PlayInv /\ WindowTypes /\ mpv \in LibrariesTo(generation) /\ generation \in Nat
  BY DEF OwnInv, PlayInv, PlayTypes
<1> DEFINE c == [kind |-> kind, medium |-> mpv.medium]
<1> DEFINE e == mpv.events
<1> DEFINE f == mpv'.events
<1>2. /\ worker \in {"turn", "pull"}
      /\ mpv' = [mpv EXCEPT !.stage = stage, !.events = Append(@, c)]
      /\ UNCHANGED <<ui, native, view, panic, suspended, shared, worker, locals, history>>
  BY DEF Happens
<1>3. /\ mpv.medium \in 0..generation /\ e \in Seq(EventsTo(generation))
      /\ DOMAIN e = 1..Len(e) /\ Len(e) \in Nat
  BY <1>1 DEF LibrariesTo
<1>4. c \in EventsTo(generation) /\ c.kind = kind /\ c.medium = mpv.medium
  BY <1>3 DEF EventsTo, EventKinds
<1>5. /\ f = Append(e, c) /\ mpv'.stage = stage /\ mpv'.medium = mpv.medium
      /\ mpv'.paused = mpv.paused
      /\ DOMAIN mpv' = {"medium", "stage", "paused", "events"}
  <2> HIDE DEF c
  <2>. QED  BY <1>1, <1>2 DEF LibrariesTo
<1>6. mpv' \in LibrariesTo(generation)
  <2>1. Append(e, c) \in Seq(EventsTo(generation))  BY <1>3, <1>4
  <2>2. stage \in Stages  BY DEF Stages
  <2> HIDE DEF c
  <2>. QED  BY <1>1, <1>2, <2>1, <2>2 DEF LibrariesTo
<1> DEFINE n == Len(e) + 1
<1>7. /\ DOMAIN f = 1..n /\ n \in 1..n /\ f[n] = c
      /\ \A i \in 1..Len(e) : f[i] = e[i] /\ i \in 1..n /\ i < n
      /\ \A i \in 1..n : i = n \/ i \in 1..Len(e)
  <2> HIDE DEF c
  <2>. QED  BY <1>3, <1>4, <1>5
<1>8. UNCHANGED <<generation, player, view, commands, statuses, frame, wGeneration, left>>
  BY <1>2 DEF native, shared, history, locals
<1> HIDE DEF c, n
<1>9. Sequenced'
  <2>1. ASSUME NEW i \in DOMAIN f, NEW j \in DOMAIN f,
               i < j, f[i].kind = "loaded", f[j].kind = "eof"
        PROVE  \E k \in DOMAIN f : i <= k /\ k < j /\ f[k].kind = "loaded"
                                   /\ f[k].medium = f[j].medium
    <3>1. i \in 1..Len(e) /\ f[i] = e[i]
      <4>1. i # n  BY <1>3, <1>7, <2>1
      <4>. QED  BY <1>7, <4>1
    <3>2. CASE j = n
      <4>1. mpv.stage = "playing" /\ f[j].medium = mpv.medium
        BY <1>4, <1>7, <2>1, <3>2
      <4>2. PICK k \in DOMAIN e : i <= k /\ e[k].kind = "loaded" /\ e[k].medium = mpv.medium
        BY <1>1, <1>3, <2>1, <3>1, <4>1 DEF PlayInv, Sequenced
      <4>. QED  BY <1>3, <1>7, <3>2, <4>1, <4>2
    <3>3. CASE j # n
      <4>1. j \in DOMAIN e /\ f[j] = e[j]  BY <1>3, <1>7, <3>3
      <4>2. PICK k \in DOMAIN e : i <= k /\ k < j /\ e[k].kind = "loaded"
                                  /\ e[k].medium = e[j].medium
        BY <1>1, <1>3, <2>1, <3>1, <4>1 DEF PlayInv, Sequenced
      <4>. QED  BY <1>3, <1>7, <4>1, <4>2
    <3>. QED  BY <3>2, <3>3
  <2>2. ASSUME mpv'.stage = "playing", NEW i \in DOMAIN f, f[i].kind = "loaded"
        PROVE  \E k \in DOMAIN f : i <= k /\ f[k].kind = "loaded"
                                   /\ f[k].medium = mpv'.medium
    <3>1. kind = "loaded"  BY <1>5, <2>2
    <3>2. i <= n  BY <1>3, <1>7, <2>2
    <3>. QED  BY <1>4, <1>5, <1>7, <3>1, <3>2
  <2>. QED  BY <2>1, <2>2 DEF Sequenced
<1>10. ASSUME wGeneration = generation, player.failed = {}
       PROVE  LibraryOwn' /\ EventsLoaded(player.loaded, 0)'
  <2>1. LibraryOwn /\ EventsLoaded(player.loaded, 0)
    BY <1>1, <1>10 DEF PlayInv, StatusInv
  <2>2. \A k \in TellKinds : Own(mpv.medium, k)
    BY <2>1 DEF LibraryOwn
  <2>3. \A i \in DOMAIN f : \A k \in TellKinds : f[i].kind = k => Own(f[i].medium, k)
    <3>1. ASSUME NEW i \in DOMAIN f, NEW k \in TellKinds, f[i].kind = k
          PROVE  Own(f[i].medium, k)
      <4>1. CASE i = n  BY <1>4, <1>7, <2>2, <4>1
      <4>2. CASE i # n
        <5>1. i \in DOMAIN e /\ f[i] = e[i]  BY <1>3, <1>7, <4>2
        <5>. QED  BY <2>1, <3>1, <5>1 DEF LibraryOwn
      <4>. QED  BY <4>1, <4>2
    <3>. QED  BY <3>1
  <2>4. LibraryOwn'
    BY <1>5, <1>8, <2>2, <2>3 DEF LibraryOwn, Own
  <2>5. ASSUME NEW j \in DOMAIN f, f[j].kind = "eof",
               \/ player.loaded
               \/ \E i \in DOMAIN statuses : 0 < i /\ Says(i, "loaded")
               \/ \E i \in DOMAIN f : i < j /\ f[i].kind = "loaded"
        PROVE  Own(f[j].medium, "loaded")
    <3>1. CASE j = n
      <4>1. "loaded" \in TellKinds  BY DEF TellKinds
      <4>. QED  BY <1>4, <1>7, <2>2, <3>1, <4>1
    <3>2. CASE j # n
      <4>1. j \in DOMAIN e /\ f[j] = e[j]  BY <1>3, <1>7, <3>2
      <4>2. \A i \in DOMAIN f : i < j => i \in DOMAIN e /\ f[i] = e[i]
        BY <1>3, <1>7, <4>1
      <4>. QED  BY <2>1, <2>5, <4>1, <4>2 DEF EventsLoaded
    <3>. QED  BY <3>1, <3>2
  <2>6. EventsLoaded(player.loaded, 0)'
    BY <1>8, <2>5 DEF EventsLoaded, Says, Own
  <2>. QED  BY <2>4, <2>6
<1>11. PlayInv'
  <2>1. worker' = worker  BY <1>2
  <2>. QED  BY <1>1, <1>2, <2>1, <1>6, <1>8, <1>9, <1>10, LibraryKeeps
<1>12. WindowTypes'
  BY <1>1, <1>2 DEF WindowTypes, locals
<1>. QED  BY <1>11, <1>12 DEF OwnInv

LEMMA LibraryOwns == OwnInv /\ (Opens \/ Breaks \/ Finishes) => OwnInv'
<1>1. ASSUME OwnInv, Opens PROVE OwnInv'
  <2>1. /\ mpv.stage = "opening" /\ Happens("playing", "loaded") /\ count' = count
        /\ "loaded" \in TellKinds
    BY <1>1 DEF Opens, TellKinds
  <2>2. count' \in Nat /\ count' <= MaxEvents  BY <1>1, <2>1 DEF OwnInv, WindowTypes
  <2>. QED  BY <1>1, <2>1, <2>2, HappensOwn
<1>2. ASSUME OwnInv, Breaks PROVE OwnInv'
  <2>1. /\ mpv.stage \in {"opening", "playing"} /\ Happens("idle", "broke")
        /\ count + 2 <= MaxEvents /\ count' = count + 2 /\ "broke" \in TellKinds
    BY <1>2 DEF Breaks, TellKinds, Counted, Costs
  <2>2. count' \in Nat /\ count' <= MaxEvents
    BY <1>2, <2>1, PlayerAssumption DEF OwnInv, WindowTypes
  <2>. QED  BY <1>2, <2>1, <2>2, HappensOwn
<1>3. ASSUME OwnInv, Finishes PROVE OwnInv'
  <2>1. /\ mpv.stage = "playing" /\ Happens("ended", "eof") /\ count' = count
        /\ "eof" \in TellKinds
    BY <1>3 DEF Finishes, TellKinds
  <2>2. count' \in Nat /\ count' <= MaxEvents  BY <1>3, <2>1 DEF OwnInv, WindowTypes
  <2>. QED  BY <1>3, <2>1, <2>2, HappensOwn
<1>. QED  BY <1>1, <1>2, <1>3

\* What is queued after the worker has reported something.
ReportsInv(reports) ==
  /\ statuses' \in Seq(ReportsTo(generation)) /\ Len(statuses') <= StatusCapacity
  /\ \A i \in DOMAIN statuses' :
       \/ i \in DOMAIN statuses /\ statuses'[i] = statuses[i]
       \/ /\ i > Len(statuses) /\ i - Len(statuses) \in DOMAIN reports
          /\ statuses'[i] = reports[i - Len(statuses)]

LEMMA ReportsQueue ==
  ASSUME PlayInv, NEW reports \in Seq(ReportsTo(generation)), Reports(reports)
  PROVE  ReportsInv(reports)
<1> DEFINE room == StatusCapacity - Len(statuses)
<1> DEFINE k == IF Len(reports) < room THEN Len(reports) ELSE room
<1> DEFINE kept == SubSeq(reports, 1, k)
<1>1. statuses' = IF ui \in {"joining", "closed"} THEN <<>> ELSE statuses \o kept
  BY DEF Reports
<1>2. /\ statuses \in Seq(ReportsTo(generation)) /\ Len(statuses) <= StatusCapacity
      /\ Len(statuses) \in Nat /\ DOMAIN statuses = 1..Len(statuses)
      /\ StatusCapacity \in Nat
  BY PlayerAssumption DEF PlayInv, PlayTypes
<1>3. k \in Nat /\ k <= Len(reports) /\ Len(statuses) + k <= StatusCapacity
  BY <1>2
<1> HIDE DEF room, k
<1>4. /\ kept \in Seq(ReportsTo(generation)) /\ Len(kept) = k
      /\ DOMAIN reports = 1..Len(reports) /\ Len(reports) \in Nat
      /\ \A i \in 1..k : kept[i] = reports[i]
  BY <1>3
<1> HIDE DEF kept
<1>5. CASE statuses' = <<>>
  BY <1>2, <1>5 DEF ReportsInv
<1>6. CASE statuses' = statuses \o kept
  <2>1. /\ statuses' \in Seq(ReportsTo(generation))
        /\ Len(statuses') = Len(statuses) + k
        /\ DOMAIN statuses' = 1..(Len(statuses) + k)
    <3> DEFINE S == ReportsTo(generation)
    <3>1. statuses \in Seq(S) /\ kept \in Seq(S)  BY <1>2, <1>4
    <3> HIDE DEF S
    <3>2. /\ statuses \o kept \in Seq(S)
          /\ Len(statuses \o kept) = Len(statuses) + Len(kept)
      BY <3>1
    <3>3. DOMAIN (statuses \o kept) = 1..Len(statuses \o kept)  BY <3>2
    <3>. QED  BY <1>4, <1>6, <3>2, <3>3 DEF S
  <2>2. \A i \in 1..(Len(statuses) + k) :
          statuses'[i] = IF i <= Len(statuses) THEN statuses[i] ELSE kept[i - Len(statuses)]
    <3> DEFINE S == ReportsTo(generation)
    <3>1. statuses \in Seq(S) /\ kept \in Seq(S)  BY <1>2, <1>4
    <3> HIDE DEF S
    <3>2. \A i \in 1..(Len(statuses) + Len(kept)) :
            (statuses \o kept)[i] = IF i <= Len(statuses) THEN statuses[i]
                                    ELSE kept[i - Len(statuses)]
      BY <3>1
    <3>. QED  BY <1>4, <1>6, <3>2
  <2>3. ASSUME NEW i \in DOMAIN statuses'
        PROVE  \/ i \in DOMAIN statuses /\ statuses'[i] = statuses[i]
               \/ /\ i > Len(statuses) /\ i - Len(statuses) \in DOMAIN reports
                  /\ statuses'[i] = reports[i - Len(statuses)]
    <3>1. CASE i <= Len(statuses)  BY <1>2, <1>3, <2>1, <2>2, <3>1
    <3>2. CASE ~(i <= Len(statuses))
      <4>1. i - Len(statuses) \in 1..k /\ i > Len(statuses)
        BY <1>2, <1>3, <2>1, <3>2
      <4>. QED  BY <1>2, <1>3, <1>4, <2>1, <2>2, <3>2, <4>1
    <3>. QED  BY <3>1, <3>2
  <2>. QED  BY <1>3, <2>1, <2>3 DEF ReportsInv
<1>. QED  BY <1>1, <1>5, <1>6

LEMMA ReportTypes ==
  ASSUME PlayInv, NEW kind \in ReportKinds, NEW m \in 0..generation
  PROVE  /\ Report(kind, m) \in ReportsTo(generation)
         /\ Report(kind, m).kind = kind /\ Report(kind, m).medium = m
         /\ Report(kind, m).generation = wGeneration
BY DEF Report, ReportsTo, PlayInv, PlayTypes

LEMMA StartOwn == OwnInv /\ Start => OwnInv'
<1> SUFFICES ASSUME OwnInv, Start PROVE OwnInv'  OBVIOUS
<1>1. PlayInv /\ WindowTypes  BY DEF OwnInv
<1> DEFINE r == Report("startup", 0)
<1>2. /\ worker = "starting"
      /\ \/ worker' = "turn" /\ UNCHANGED <<statuses, lost, count>>
         \/ /\ count + 2 <= MaxEvents /\ count' = count + 2
            /\ worker' = "ending" /\ Reports(<<r>>)
      /\ wGeneration' = 0
      /\ renderReady' = FALSE /\ wasSuspended' = FALSE /\ restorePaused' = FALSE
      /\ UNCHANGED <<ui, native, view, panic, suspended, commands, frame, mpv, left, asked>>
  BY DEF Start, Counted, Costs
<1>3. statuses = <<>> /\ wGeneration < generation /\ mpv = Idle /\ From = 0
      /\ generation \in Nat /\ wGeneration \in 0..generation
  BY <1>1, <1>2, QueueNow DEF PlayInv, PlayTypes, Labels, From
<1>4. generation' = generation /\ player' = player /\ view' = view /\ 0 # generation
      /\ wGeneration' # generation'
  BY <1>2, <1>3 DEF native
<1>5. r \in ReportsTo(generation) /\ r.kind = "startup"
  BY <1>1, <1>3, ReportTypes DEF ReportKinds
<1> HIDE DEF r
<1>6. /\ statuses' \in Seq(ReportsTo(generation)) /\ Len(statuses') <= StatusCapacity
      /\ \A i \in DOMAIN statuses' : statuses'[i].kind = "startup"
  <2>1. CASE statuses' = statuses
    BY <1>1, <1>3, <2>1 DEF PlayInv, PlayTypes
  <2>2. CASE Reports(<<r>>)
    <3>1. <<r>> \in Seq(ReportsTo(generation)) /\ DOMAIN <<r>> = {1} /\ <<r>>[1] = r
      BY <1>5
    <3>2. ReportsInv(<<r>>)  BY <1>1, <2>2, <3>1, ReportsQueue
    <3>3. Len(statuses) = 0 /\ DOMAIN statuses = {}  BY <1>3
    <3>. QED  BY <1>5, <3>1, <3>2, <3>3 DEF ReportsInv
  <2>. QED  BY <1>2, <2>1, <2>2
<1>7. PlayTypes'
  <2>2. worker' \in Receiving \cup {"none", "dead"}  BY <1>2 DEF Receiving
  <2>. QED  BY <1>1, <1>2, <1>3, <1>4, <1>6, <2>2 DEF PlayInv, PlayTypes
<1>8. Labels'
  <2>1. From' = 0 /\ worker' \notin {"none", "starting", "dead"}  BY <1>2 DEF From
  <2>2. Ordered(commands, From)'
    BY <1>1, <1>2, <1>3, <2>1 DEF PlayInv, Labels, Ordered
  <2>. QED  BY <1>6, <2>1, <2>2 DEF Labels
<1>9. Sequenced'
  BY <1>1, <1>2 DEF PlayInv, Sequenced
<1>10. StatusInv(player, 0)'
  <2>0. StatusInv(player, 0)  BY <1>1 DEF PlayInv
  <2>1. Fresh(player)'
    BY <1>2, <1>3, <1>4, <2>0 DEF StatusInv, Fresh, Own
  <2>2. player'.failed = {} => player'.ended = {}
    BY <1>3, <1>4, <2>0 DEF StatusInv, Fresh
  <2>3. player'.failed = {} => Reaches'
    BY <1>2, <1>3, <1>4, <2>0 DEF StatusInv, Reaches, Begins, Receiving
  <2>4. ReportsOwn(0)'
    BY <1>6 DEF ReportsOwn, Says, TellKinds
  <2>. QED  BY <1>4, <2>1, <2>2, <2>3, <2>4 DEF StatusInv
<1>11. WindowTypes'
  <2>1. count' \in Nat /\ count' <= MaxEvents
    BY <1>1, <1>2, PlayerAssumption DEF WindowTypes
  <2>. QED  BY <1>1, <1>2, <2>1 DEF WindowTypes
<1>. QED  BY <1>7, <1>8, <1>9, <1>10, <1>11 DEF PlayInv, OwnInv

\* The queue without its first command.
LEMMA TailQueue ==
  ASSUME NEW g \in Nat, NEW q \in Seq(CommandsTo(g)), q # <<>>,
         NEW w \in Nat, Ordered(q, w)
  PROVE  LET c == Head(q)  t == Tail(q)
         IN  /\ c \in CommandsTo(g) /\ w <= c.generation
             /\ c.kind = "load" => w < c.generation
             /\ t \in Seq(CommandsTo(g)) /\ Len(t) <= Len(q)
             /\ Ordered(t, c.generation)
             /\ \A k : Begins(q, k) /\ c.generation # k => Begins(t, k)
             /\ Begins(q, c.generation) => c.kind \in {"load", "stop"}
<1> DEFINE c == Head(q)
<1> DEFINE t == Tail(q)
<1>1. /\ c = q[1] /\ Len(q) \in Nat /\ Len(q) >= 1 /\ DOMAIN q = 1..Len(q)
      /\ t \in Seq(CommandsTo(g)) /\ Len(t) = Len(q) - 1 /\ DOMAIN t = 1..(Len(q) - 1)
  OBVIOUS
<1>2. \A i \in 1..(Len(q) - 1) : t[i] = q[i + 1]  OBVIOUS
<1>3. 1 \in DOMAIN q /\ \A i \in 1..(Len(q) - 1) : i + 1 \in DOMAIN q /\ 1 < i + 1
  BY <1>1
<1>4. c \in CommandsTo(g)  BY <1>1, <1>3
<1>0. \A i \in DOMAIN q : q[i].generation \in Nat
  <2>1. \A i \in DOMAIN q : q[i] \in CommandsTo(g)  OBVIOUS
  <2>. QED  BY <2>1 DEF CommandsTo
<1> HIDE DEF c, t
<1>5. w <= c.generation /\ (c.kind = "load" => w < c.generation)
  BY <1>1, <1>3 DEF Ordered
<1>6. Ordered(t, c.generation)
  <2>1. ASSUME NEW i \in DOMAIN t
        PROVE  c.generation <= t[i].generation /\ (t[i].kind = "load" => c.generation < t[i].generation)
    BY <1>1, <1>2, <1>3, <2>1 DEF Ordered
  <2>2. ASSUME NEW i \in DOMAIN t, NEW j \in DOMAIN t, j < i
        PROVE  /\ t[j].generation <= t[i].generation
               /\ t[i].kind = "load" => t[j].generation < t[i].generation
    <3>1. j + 1 < i + 1  BY <1>1, <2>2
    <3>. QED  BY <1>1, <1>2, <1>3, <2>2, <3>1 DEF Ordered
  <2>. QED  BY <2>1, <2>2 DEF Ordered
<1>7. ASSUME NEW k, Begins(q, k), c.generation # k PROVE Begins(t, k)
  <2>1. PICK i \in DOMAIN q : /\ q[i].generation = k /\ q[i].kind \in {"load", "stop"}
                              /\ \A j \in DOMAIN q : j < i => q[j].generation # k
    BY <1>7 DEF Begins
  <2>2. i - 1 \in DOMAIN t /\ t[i - 1] = q[i]
    <3>1. i # 1  BY <1>1, <1>7, <2>1
    <3>2. i - 1 \in 1..(Len(q) - 1) /\ (i - 1) + 1 = i  BY <1>1, <2>1, <3>1
    <3>. QED  BY <1>1, <1>2, <3>2
  <2>3. ASSUME NEW j \in DOMAIN t, j < i - 1 PROVE t[j].generation # k
    <3>1. j + 1 < i /\ j + 1 \in DOMAIN q /\ t[j] = q[j + 1]
      BY <1>1, <1>2, <1>3, <2>1, <2>3
    <3>. QED  BY <2>1, <3>1
  <2>. QED  BY <2>1, <2>2, <2>3 DEF Begins
<1>8. ASSUME Begins(q, c.generation) PROVE c.kind \in {"load", "stop"}
  <2>1. PICK i \in DOMAIN q : /\ q[i].generation = c.generation
                              /\ q[i].kind \in {"load", "stop"}
                              /\ \A j \in DOMAIN q : j < i => q[j].generation # c.generation
    BY <1>8 DEF Begins
  <2>2. i = 1  BY <1>1, <1>3, <2>1
  <2>. QED  BY <1>1, <2>1, <2>2
<1>. QED  BY <1>1, <1>4, <1>5, <1>6, <1>7, <1>8 DEF c, t

\* A command adds at most that a medium was replaced.
AppliedInv(m, c) ==
  /\ m \in LibrariesTo(generation)
  /\ \A i \in DOMAIN mpv.events : i \in DOMAIN m.events /\ m.events[i] = mpv.events[i]
  /\ \A i \in DOMAIN m.events : i \in DOMAIN mpv.events \/ m.events[i].kind = "replaced"
  /\ \/ m.stage = "idle" /\ c.kind = "stop"
     \/ m.stage = "opening" /\ m.medium = c.generation /\ c.kind = "load"
     \/ m.stage = mpv.stage /\ m.medium = mpv.medium

LEMMA AppliedChanges ==
  ASSUME PlayInv, NEW c \in CommandsTo(generation), c.kind # "shutdown"
  PROVE  AppliedInv(Applied(mpv, c), c)
<1> DEFINE m == Applied(mpv, c)
<1> DEFINE e == mpv.events
<1> DEFINE f == Replacing(mpv)
<1>1. /\ mpv \in LibrariesTo(generation) /\ e \in Seq(EventsTo(generation))
      /\ mpv.medium \in 0..generation /\ Len(e) \in Nat /\ DOMAIN e = 1..Len(e)
      /\ c.generation \in 0..generation /\ c.kind \in Kinds
  BY DEF PlayInv, PlayTypes, LibrariesTo, CommandsTo
<1>2. /\ f \in Seq(EventsTo(generation))
      /\ \A i \in DOMAIN e : i \in DOMAIN f /\ f[i] = e[i]
      /\ \A i \in DOMAIN f : i \in DOMAIN e \/ f[i].kind = "replaced"
  <2>1. CASE mpv.stage \in {"opening", "playing"}
    <3> DEFINE r == [kind |-> "replaced", medium |-> mpv.medium]
    <3>1. f = Append(e, r)  BY <2>1 DEF Replacing
    <3>2. r \in EventsTo(generation) /\ r.kind = "replaced"
      BY <1>1 DEF EventsTo, EventKinds
    <3> HIDE DEF r, e, f
    <3>3. /\ Append(e, r) \in Seq(EventsTo(generation))
          /\ DOMAIN Append(e, r) = 1..(Len(e) + 1)
          /\ Append(e, r)[Len(e) + 1] = r
          /\ \A i \in 1..Len(e) : Append(e, r)[i] = e[i]
      BY <1>1, <3>2
    <3>. QED  BY <1>1, <3>1, <3>2, <3>3
  <2>2. CASE mpv.stage \notin {"opening", "playing"}
    <3>1. f = e  BY <2>2 DEF Replacing
    <3>. QED  BY <1>1, <3>1
  <2>. QED  BY <2>1, <2>2
<1> HIDE DEF f
<1>3. CASE c.kind = "load"
  <2>1. m = [mpv EXCEPT !.medium = c.generation, !.stage = "opening", !.events = f]
    BY <1>3 DEF Applied, f
  <2> HIDE DEF m
  <2>2. m \in LibrariesTo(generation) /\ m.events = f /\ m.stage = "opening"
        /\ m.medium = c.generation
    BY <1>1, <1>2, <2>1 DEF LibrariesTo, Stages
  <2>3. AppliedInv(m, c)  BY <1>2, <1>3, <2>2 DEF AppliedInv
  <2>. QED  BY <2>3 DEF m
<1>4. CASE c.kind = "stop"
  <2>1. m = [mpv EXCEPT !.stage = "idle", !.events = f]
    BY <1>4 DEF Applied, f
  <2> HIDE DEF m
  <2>2. m \in LibrariesTo(generation) /\ m.events = f /\ m.stage = "idle"
    BY <1>1, <1>2, <2>1 DEF LibrariesTo, Stages
  <2>3. AppliedInv(m, c)  BY <1>2, <1>4, <2>2 DEF AppliedInv
  <2>. QED  BY <2>3 DEF m
<1>5. CASE c.kind \in {"pause", "resume", "set"}
  <2>1. PICK b \in BOOLEAN : m = [mpv EXCEPT !.paused = b]
    <3>1. CASE c.kind = "pause"
      <4>1. m = [mpv EXCEPT !.paused = TRUE]  BY <3>1 DEF Applied
      <4>. QED  BY <4>1
    <3>2. CASE c.kind = "resume"
      <4>1. m = [mpv EXCEPT !.paused = FALSE]  BY <3>2 DEF Applied
      <4>. QED  BY <4>1
    <3>3. CASE c.kind = "set"
      <4>1. m = mpv  BY <3>3 DEF Applied
      <4>2. mpv.paused \in BOOLEAN /\ mpv = [mpv EXCEPT !.paused = mpv.paused]
        BY <1>1 DEF LibrariesTo
      <4>. QED  BY <4>1, <4>2
    <3>. QED  BY <1>5, <3>1, <3>2, <3>3
  <2> HIDE DEF m
  <2>2. m \in LibrariesTo(generation) /\ m.events = e /\ m.stage = mpv.stage
        /\ m.medium = mpv.medium
    BY <1>1, <2>1 DEF LibrariesTo
  <2>3. AppliedInv(m, c)  BY <2>2 DEF AppliedInv
  <2>. QED  BY <2>3 DEF m
<1>. QED  BY <1>1, <1>3, <1>4, <1>5 DEF Kinds, Asking

LEMMA AppliedSequenced ==
  ASSUME PlayInv, NEW c, NEW m, AppliedInv(m, c),
         mpv'.medium = m.medium, mpv'.stage = m.stage, mpv'.events = m.events
  PROVE  Sequenced'
<1> DEFINE e == mpv.events
<1>1. Sequenced  BY DEF PlayInv
<1>2. ASSUME NEW i \in DOMAIN m.events, NEW j \in DOMAIN m.events,
             i < j, m.events[i].kind = "loaded", m.events[j].kind = "eof"
      PROVE  \E k \in DOMAIN m.events : i <= k /\ k < j /\ m.events[k].kind = "loaded"
                                        /\ m.events[k].medium = m.events[j].medium
  BY <1>1, <1>2 DEF AppliedInv, Sequenced
<1>3. ASSUME m.stage = "playing", NEW i \in DOMAIN m.events, m.events[i].kind = "loaded"
      PROVE  \E k \in DOMAIN m.events : i <= k /\ m.events[k].kind = "loaded"
                                        /\ m.events[k].medium = m.medium
  BY <1>1, <1>3 DEF AppliedInv, Sequenced
<1>. QED  BY <1>2, <1>3 DEF Sequenced

\* A command of the same generation.
LEMMA SameCommand ==
  ASSUME PlayInv, NEW c, NEW m, AppliedInv(m, c), c.kind # "load",
         mpv'.medium = m.medium, mpv'.stage = m.stage, mpv'.events = m.events,
         UNCHANGED <<generation, player, wGeneration, left>>,
         \A i \in DOMAIN statuses' : statuses'[i].kind \in TellKinds =>
           i \in DOMAIN statuses /\ statuses'[i] = statuses[i],
         Reaches => Reaches'
  PROVE  StatusInv(player, 0)'
<1>0. StatusInv(player, 0)  BY DEF PlayInv
<1>1. Fresh(player)'  BY <1>0 DEF StatusInv, Fresh, Own
<1>2. player'.failed = {} => \A x \in player'.ended : (Own(x, "eof") /\ Own(x, "loaded"))'
  BY <1>0 DEF StatusInv, Own
<1>3. player'.failed = {} => Reaches'
  BY <1>0 DEF StatusInv
<1>4. player'.failed = {} => ReportsOwn(0)'
  BY <1>0 DEF StatusInv, ReportsOwn, Says, Own
<1>5. player'.failed = {} /\ wGeneration' = generation' => ReportsLoaded(player.loaded, 0)'
  BY <1>0 DEF StatusInv, ReportsLoaded, Says, Own, TellKinds
<1>6. ASSUME LibraryOwn PROVE LibraryOwn'
  <2>1. m.stage \in {"opening", "playing"} => \A k \in TellKinds : Own(m.medium, k)
    BY <1>6 DEF LibraryOwn, AppliedInv
  <2>2. \A i \in DOMAIN m.events : \A k \in TellKinds :
          m.events[i].kind = k => Own(m.events[i].medium, k)
    BY <1>6 DEF LibraryOwn, AppliedInv, TellKinds
  <2>. QED  BY <2>1, <2>2 DEF LibraryOwn, Own
<1>7. ASSUME EventsLoaded(player.loaded, 0) PROVE EventsLoaded(player.loaded, 0)'
  <2>1. ASSUME NEW j \in DOMAIN m.events, m.events[j].kind = "eof",
               \/ player.loaded
               \/ \E i \in DOMAIN statuses : 0 < i /\ Says(i, "loaded")
               \/ \E i \in DOMAIN m.events : i < j /\ m.events[i].kind = "loaded"
        PROVE  Own(m.events[j].medium, "loaded")
    <3>1. j \in DOMAIN mpv.events /\ m.events[j] = mpv.events[j]
      BY <2>1 DEF AppliedInv
    <3>2. \A i \in DOMAIN m.events :
            m.events[i].kind = "loaded" => i \in DOMAIN mpv.events /\ mpv.events[i].kind = "loaded"
      BY DEF AppliedInv
    <3>. QED  BY <1>7, <2>1, <3>1, <3>2 DEF EventsLoaded
  <2>2. \A i \in DOMAIN statuses' : Says(i, "loaded")' => i \in DOMAIN statuses /\ Says(i, "loaded")
    BY DEF Says, TellKinds
  <2>. QED  BY <2>1, <2>2 DEF EventsLoaded, Own
<1>. QED
  BY <1>0, <1>1, <1>2, <1>3, <1>4, <1>5, <1>6, <1>7 DEF StatusInv

\* A command of a later generation.  What libmpv had still to say of its medium
\* is noted, and a refused one notes what may be said of it from now on.
LEMMA LaterCommand ==
  ASSUME PlayInv, NEW c \in CommandsTo(generation), NEW m, AppliedInv(m, c),
         mpv'.medium = m.medium, mpv'.stage = m.stage, mpv'.events = m.events,
         UNCHANGED <<generation, player>>, wGeneration' = c.generation,
         wGeneration < c.generation,
         worker' \in Receiving,
         Telling(mpv.events) \subseteq left',
         \/ c.kind = "load" /\ m.medium = c.generation
         \/ c.kind = "stop" /\ m.stage = "idle"
         \/ c.kind \notin {"load", "stop"}
         \/ \A k \in TellKinds : [kind |-> k, medium |-> m.medium] \in left',
         c.generation # generation /\ Begins(commands, generation) =>
           Begins(commands', generation),
         c.generation = generation /\ Begins(commands, generation) =>
           c.kind \in {"load", "stop"},
         worker \in Receiving,
         \A i \in DOMAIN statuses' : statuses'[i].kind \in TellKinds =>
           statuses'[i].generation # generation
  PROVE  StatusInv(player, 0)'
<1>0. /\ StatusInv(player, 0) /\ generation \in Nat /\ wGeneration \in 0..generation
      /\ wGeneration # generation
  BY DEF PlayInv, PlayTypes, CommandsTo
<1>1. /\ player.failed \subseteq {generation}
      /\ player.timed => player.failed = {}
      /\ player.failed = {} => ~player.loaded /\ player.ended = {}
  BY <1>0 DEF StatusInv, Fresh
<1>2. Fresh(player)'  BY <1>1 DEF Fresh, Own
<1>3. player.failed = {} => Begins(commands, generation)
  BY <1>0 DEF StatusInv, Reaches
<1>4. player.failed = {} => Reaches'
  BY <1>3 DEF Reaches, Begins
<1>5. ReportsOwn(0)'  BY DEF ReportsOwn, Says
<1>6. ReportsLoaded(FALSE, 0)'  BY DEF ReportsLoaded, Says, TellKinds
<1>7. ASSUME c.generation = generation, player.failed = {}
      PROVE  LibraryOwn' /\ EventsLoaded(FALSE, 0)'
  <2>1. c.kind \in {"load", "stop"}  BY <1>3, <1>7
  <2>2. ASSUME NEW i \in DOMAIN m.events, NEW k \in TellKinds, m.events[i].kind = k
        PROVE  [kind |-> k, medium |-> m.events[i].medium] \in left'
    <3> DEFINE x == mpv.events[i]
    <3>1. i \in DOMAIN mpv.events /\ m.events[i] = x /\ x.kind # "replaced"
      BY <2>2 DEF AppliedInv, TellKinds
    <3>2. x \in EventsTo(generation)
      BY <3>1 DEF PlayInv, PlayTypes, LibrariesTo
    <3>3. x = [kind |-> x.kind, medium |-> x.medium]  BY <3>2 DEF EventsTo
    <3>4. x \in Telling(mpv.events)
      BY <3>1 DEF Telling, ToSet
    <3> HIDE DEF x
    <3>. QED  BY <2>2, <3>1, <3>3, <3>4
  <2>3. m.stage \in {"opening", "playing"} => \A k \in TellKinds : Own(m.medium, k)'
    BY <1>7, <2>1 DEF Own
  <2>4. \A i \in DOMAIN m.events : \A k \in TellKinds :
          m.events[i].kind = k => Own(m.events[i].medium, k)'
    BY <2>2 DEF Own
  <2>5. LibraryOwn'
    BY <2>3, <2>4 DEF LibraryOwn, Own
  <2>6. ASSUME NEW j \in DOMAIN m.events, m.events[j].kind = "eof",
               \E i \in DOMAIN m.events : i < j /\ m.events[i].kind = "loaded"
        PROVE  Own(m.events[j].medium, "loaded")'
    <3>1. PICK i \in DOMAIN m.events : i < j /\ m.events[i].kind = "loaded"  BY <2>6
    <3>2. /\ i \in DOMAIN mpv.events /\ mpv.events[i] = m.events[i]
          /\ j \in DOMAIN mpv.events /\ mpv.events[j] = m.events[j]
      BY <2>6, <3>1 DEF AppliedInv
    <3>3. PICK k \in DOMAIN mpv.events : mpv.events[k].kind = "loaded"
                                         /\ mpv.events[k].medium = mpv.events[j].medium
      BY <2>6, <3>1, <3>2 DEF PlayInv, Sequenced
    <3>4. k \in DOMAIN m.events /\ m.events[k] = mpv.events[k] /\ "loaded" \in TellKinds
      BY <3>3 DEF AppliedInv, TellKinds
    <3>5. [kind |-> "loaded", medium |-> m.events[k].medium] \in left'
      BY <2>2, <3>3, <3>4
    <3>. QED  BY <3>2, <3>3, <3>4, <3>5 DEF Own
  <2>7. EventsLoaded(FALSE, 0)'
    <3>1. \A i \in DOMAIN statuses' : ~Says(i, "loaded")'
      BY DEF Says, TellKinds
    <3>. QED  BY <2>6, <3>1 DEF EventsLoaded, Says, Own
  <2>. QED  BY <2>5, <2>7
<1>8. player.failed = {} => player.loaded = FALSE
  <2>1. player.loaded \in BOOLEAN  BY DEF PlayInv, PlayTypes, Players
  <2>. QED  BY <1>1, <2>1
<1>9. player'.failed = {} => ReportsLoaded(player.loaded, 0)'
  BY <1>6, <1>8 DEF ReportsLoaded, Says
<1>10. player'.failed = {} /\ wGeneration' = generation' =>
         LibraryOwn' /\ EventsLoaded(player.loaded, 0)'
  BY <1>7, <1>8 DEF EventsLoaded
<1>. QED
  BY <1>1, <1>2, <1>4, <1>5, <1>9, <1>10 DEF StatusInv

LEMMA TurnCommandOwn == OwnInv /\ TurnCommand => OwnInv'
<1> SUFFICES ASSUME OwnInv, TurnCommand PROVE OwnInv'  OBVIOUS
<1> DEFINE c == Head(commands)
<1> DEFINE r == [Report("error", 0) EXCEPT !.generation = c.generation]
<1>1. /\ PlayInv /\ WindowTypes /\ generation \in Nat /\ wGeneration \in 0..generation
      /\ mpv \in LibrariesTo(generation) /\ mpv.medium \in 0..generation
      /\ StatusInv(player, 0)
  BY DEF OwnInv, PlayInv, PlayTypes, LibrariesTo
<1>2. /\ worker = "turn" /\ worker' = "pull" /\ commands # <<>>
      /\ c.kind # "shutdown" /\ wGeneration' = c.generation
      /\ renderReady' = (renderReady /\ c.kind \notin {"load", "stop"})
      /\ commands' = Tail(commands)
      /\ UNCHANGED <<ui, native, view, panic, suspended, frame>>
  BY DEF TurnCommand
<1>3. \/ /\ Suspending(Applied(mpv, c))
         /\ left' = IF c.generation # wGeneration THEN Telling(mpv.events) ELSE left
         /\ UNCHANGED <<statuses, count>>
      \/ /\ count + 2 <= MaxEvents /\ count' = count + 2
         /\ Suspending(mpv)
         /\ left' = IF c.generation = wGeneration THEN left
                    ELSE Telling(mpv.events) \cup
                     {[kind |-> k, medium |-> mpv.medium] : k \in {"loaded", "eof", "broke"}}
         /\ Reports(<<r>>)
  BY Zenon DEF TurnCommand, Counted, Costs
<1>4. From = wGeneration /\ From' = wGeneration'  BY <1>2 DEF From
<1>5. /\ c \in CommandsTo(generation) /\ wGeneration <= c.generation
      /\ c.kind = "load" => wGeneration < c.generation
      /\ commands' \in Seq(CommandsTo(generation)) /\ Len(commands') <= Len(commands)
      /\ Ordered(commands', c.generation)
      /\ \A k : Begins(commands, k) /\ c.generation # k => Begins(commands', k)
      /\ Begins(commands, c.generation) => c.kind \in {"load", "stop"}
  <2>1. commands \in Seq(CommandsTo(generation)) /\ Ordered(commands, wGeneration)
    BY <1>1, <1>4 DEF PlayInv, PlayTypes, Labels
  <2>2. wGeneration \in Nat  BY <1>1
  <2>. QED  BY <1>1, <1>2, <2>1, <2>2, TailQueue
<1>6. c.generation \in 0..generation  BY <1>5 DEF CommandsTo
<1>7. generation' = generation /\ player' = player /\ view' = view
  BY <1>2 DEF native
<1>8. r \in ReportsTo(generation) /\ r.kind = "error" /\ r.generation = c.generation
  <2>1. Report("error", 0) \in ReportsTo(generation) /\ Report("error", 0).kind = "error"
    BY <1>1, ReportTypes DEF ReportKinds
  <2>. QED  BY <1>6, <2>1 DEF ReportsTo
<1> HIDE DEF c, r
<1>9. /\ statuses' \in Seq(ReportsTo(generation)) /\ Len(statuses') <= StatusCapacity
      /\ \A i \in DOMAIN statuses' :
           \/ i \in DOMAIN statuses /\ statuses'[i] = statuses[i]
           \/ statuses'[i] = r
  <2>1. CASE statuses' = statuses
    BY <1>1, <2>1 DEF PlayInv, PlayTypes
  <2>2. CASE Reports(<<r>>)
    <3>1. <<r>> \in Seq(ReportsTo(generation)) /\ DOMAIN <<r>> = {1} /\ <<r>>[1] = r
      BY <1>8
    <3>2. ReportsInv(<<r>>)  BY <1>1, <2>2, <3>1, ReportsQueue
    <3>. QED  BY <3>1, <3>2 DEF ReportsInv
  <2>. QED  BY <1>3, <2>1, <2>2
<1>10. \A i \in DOMAIN statuses' :
         statuses'[i].kind # "startup" => statuses'[i].generation <= wGeneration'
  <2>1. ASSUME NEW i \in DOMAIN statuses', statuses'[i].kind # "startup"
        PROVE  statuses'[i].generation <= wGeneration'
    <3>1. CASE statuses'[i] = r  BY <1>2, <1>6, <1>8, <3>1
    <3>2. CASE i \in DOMAIN statuses /\ statuses'[i] = statuses[i]
      <4>1. statuses[i].generation <= wGeneration
        BY <1>1, <2>1, <3>2 DEF PlayInv, Labels
      <4>2. statuses[i] \in ReportsTo(generation)
        BY <1>1, <3>2 DEF PlayInv, PlayTypes
      <4>3. statuses[i].generation \in 0..generation  BY <4>2 DEF ReportsTo
      <4>. QED  BY <1>1, <1>2, <1>5, <1>6, <3>2, <4>1, <4>3
    <3>. QED  BY <1>9, <3>1, <3>2
  <2>. QED  BY <2>1
<1>12. \A i \in DOMAIN statuses' : statuses'[i].kind \in TellKinds =>
         i \in DOMAIN statuses /\ statuses'[i] = statuses[i]
  BY <1>8, <1>9 DEF TellKinds
<1>11. wGeneration < c.generation =>
         \A i \in DOMAIN statuses' : statuses'[i].kind \in TellKinds =>
           statuses'[i].generation # generation
  <2>1. ASSUME wGeneration < c.generation, NEW i \in DOMAIN statuses',
               statuses'[i].kind \in TellKinds
        PROVE  statuses'[i].generation # generation
    <3>1. i \in DOMAIN statuses /\ statuses'[i] = statuses[i]
      BY <1>8, <1>9, <2>1 DEF TellKinds
    <3>2. statuses[i].generation <= wGeneration
      BY <1>1, <2>1, <3>1 DEF PlayInv, Labels, TellKinds
    <3>3. statuses[i] \in ReportsTo(generation)
      BY <1>1, <3>1 DEF PlayInv, PlayTypes
    <3>4. statuses[i].generation \in 0..generation  BY <3>3 DEF ReportsTo
    <3>. QED  BY <1>1, <1>6, <2>1, <3>1, <3>2, <3>4
  <2>. QED  BY <2>1
<1>13. worker \in Receiving /\ worker' \in Receiving  BY <1>2 DEF Receiving
<1>14. PICK m : /\ AppliedInv(m, c) /\ Suspending(m)
                /\ \/ c.generation = wGeneration /\ left' = left /\ c.kind # "load"
                   \/ /\ wGeneration < c.generation
                      /\ Telling(mpv.events) \subseteq left'
                      /\ \/ c.kind = "load" /\ m.medium = c.generation
                         \/ c.kind = "stop" /\ m.stage = "idle"
                         \/ c.kind \notin {"load", "stop"}
                         \/ \A k \in TellKinds : [kind |-> k, medium |-> m.medium] \in left'
  <2>1. CASE Suspending(Applied(mpv, c))
             /\ left' = IF c.generation # wGeneration THEN Telling(mpv.events) ELSE left
    <3>1. AppliedInv(Applied(mpv, c), c)
      BY <1>1, <1>2, <1>5, AppliedChanges
    <3>2. c.kind = "load" => Applied(mpv, c).medium = c.generation
      <4>1. mpv \in LibrariesTo(generation)  BY <1>1
      <4>2. c.kind = "load" =>
              Applied(mpv, c) = [mpv EXCEPT !.medium = c.generation, !.stage = "opening",
                                            !.events = Replacing(mpv)]
        BY DEF Applied
      <4>. QED  BY <4>1, <4>2 DEF LibrariesTo
    <3>3. c.kind = "stop" => Applied(mpv, c).stage = "idle"
      <4>1. mpv \in LibrariesTo(generation)  BY <1>1
      <4>2. c.kind = "stop" =>
              Applied(mpv, c) = [mpv EXCEPT !.stage = "idle", !.events = Replacing(mpv)]
        BY DEF Applied
      <4>. QED  BY <4>1, <4>2 DEF LibrariesTo
    <3>4. c.generation = wGeneration \/ wGeneration < c.generation
      BY <1>1, <1>5, <1>6
    <3> DEFINE m == Applied(mpv, c)
    <3>5. AppliedInv(m, c) /\ Suspending(m)  BY <2>1, <3>1
    <3>6. (c.kind = "load" => m.medium = c.generation) /\ (c.kind = "stop" => m.stage = "idle")
      BY <3>2, <3>3
    <3> HIDE DEF m
    <3>7. CASE c.generation = wGeneration
      <4>1. c.kind # "load"  BY <1>1, <1>5, <1>6, <3>7
      <4>. QED  BY <2>1, <3>5, <3>7, <4>1
    <3>8. CASE wGeneration < c.generation
      <4>1. left' = Telling(mpv.events)  BY <1>1, <1>6, <2>1, <3>8
      <4>. QED  BY <3>5, <3>6, <3>8, <4>1
    <3>. QED  BY <3>4, <3>7, <3>8
  <2>2. CASE Suspending(mpv)
             /\ left' = IF c.generation = wGeneration THEN left
                        ELSE Telling(mpv.events) \cup
                         {[kind |-> k, medium |-> mpv.medium] : k \in {"loaded", "eof", "broke"}}
    <3>1. AppliedInv(mpv, c)  BY <1>1 DEF AppliedInv
    <3>2. c.generation = wGeneration \/ wGeneration < c.generation
      BY <1>1, <1>5, <1>6
    <3>3. CASE c.generation = wGeneration
      <4>1. c.kind # "load"  BY <1>1, <1>5, <1>6, <3>3
      <4>. QED  BY <2>2, <3>1, <3>3, <4>1
    <3>4. CASE wGeneration < c.generation
      <4>1. left' = Telling(mpv.events) \cup
              {[kind |-> k, medium |-> mpv.medium] : k \in {"loaded", "eof", "broke"}}
        BY <1>1, <1>6, <2>2, <3>4
      <4>2. \A k \in TellKinds : [kind |-> k, medium |-> mpv.medium] \in left'
        BY <4>1 DEF TellKinds
      <4>. QED  BY <2>2, <3>1, <3>4, <4>1, <4>2
    <3>. QED  BY <3>2, <3>3, <3>4
  <2>. QED  BY <1>3, <2>1, <2>2
<1>15. /\ mpv' \in LibrariesTo(generation)
       /\ mpv'.medium = m.medium /\ mpv'.stage = m.stage /\ mpv'.events = m.events
       /\ wasSuspended' \in BOOLEAN /\ restorePaused' \in BOOLEAN
  <2>1. m \in LibrariesTo(generation)  BY <1>14 DEF AppliedInv
  <2>. QED  BY <1>1, <1>14, <2>1, SuspendingPauses
<1>16. PlayTypes'
  <2>2. Len(commands') <= CommandCapacity
    <3>1. Len(commands) <= CommandCapacity /\ Len(commands) \in Nat
      BY <1>1 DEF PlayInv, PlayTypes
    <3>2. Len(commands') \in Nat  BY <1>5
    <3>. QED  BY <1>5, <3>1, <3>2, PlayerAssumption
  <2>3. worker' \in Receiving \cup {"none", "dead"}  BY <1>13
  <2>4. wGeneration' \in 0..generation  BY <1>2, <1>6
  <2>. QED
    BY <1>1, <1>2, <1>5, <1>7, <1>9, <1>15, <2>2, <2>3, <2>4 DEF PlayInv, PlayTypes
<1>17. Labels'
  <2>1. Ordered(commands, From)'
    <3>1. Ordered(commands', From')  BY <1>2, <1>4, <1>5
    <3>. QED  BY <3>1 DEF Ordered
  <2>2. worker' \notin {"none", "starting", "dead"}  BY <1>2
  <2>. QED  BY <1>10, <2>1, <2>2 DEF Labels
<1>18. Sequenced'
  BY <1>1, <1>14, <1>15, AppliedSequenced
<1>19. StatusInv(player, 0)'
  <2>1. CASE c.generation = wGeneration /\ left' = left /\ c.kind # "load"
    <3>1. Reaches => Reaches'
      <4>1. ASSUME Reaches, wGeneration' # generation' PROVE Begins(commands', generation)
        <5>1. wGeneration # generation /\ c.generation # generation
          BY <1>2, <1>7, <2>1, <4>1
        <5>2. Begins(commands, generation)  BY <1>13, <4>1, <5>1 DEF Reaches
        <5>. QED  BY <1>5, <5>1, <5>2
      <4>. QED  BY <1>7, <4>1 DEF Reaches, Begins
    <3>2. UNCHANGED <<generation, player, wGeneration, left>>
      BY <1>2, <1>7, <2>1
    <3>. QED  BY <1>1, <1>12, <1>14, <1>15, <2>1, <3>1, <3>2, SameCommand
  <2>2. CASE /\ wGeneration < c.generation
             /\ Telling(mpv.events) \subseteq left'
             /\ \/ c.kind = "load" /\ m.medium = c.generation
                \/ c.kind = "stop" /\ m.stage = "idle"
                \/ c.kind \notin {"load", "stop"}
                \/ \A k \in TellKinds : [kind |-> k, medium |-> m.medium] \in left'
    <3>1. c.generation # generation /\ Begins(commands, generation) =>
            Begins(commands', generation)
      BY <1>5
    <3>2. c.generation = generation /\ Begins(commands, generation) =>
            c.kind \in {"load", "stop"}
      BY <1>5
    <3>3. \A i \in DOMAIN statuses' : statuses'[i].kind \in TellKinds =>
            statuses'[i].generation # generation
      BY <1>11, <2>2
    <3>. QED
      BY <1>1, <1>2, <1>5, <1>7, <1>13, <1>14, <1>15, <2>2, <3>1, <3>2, <3>3, LaterCommand
  <2>. QED  BY <1>14, <2>1, <2>2
<1>20. WindowTypes'
  <2>1. count' \in Nat /\ count' <= MaxEvents
    BY <1>1, <1>3, PlayerAssumption DEF WindowTypes
  <2>2. renderReady' \in BOOLEAN  BY <1>2
  <2>. QED  BY <1>1, <1>2, <1>15, <2>1, <2>2 DEF WindowTypes
<1>. QED  BY <1>16, <1>17, <1>18, <1>19, <1>20 DEF PlayInv, OwnInv

-----------------------------------------------------------------------------
(* The worker pulls events and reports them.                               *)

\* The reports r tell, in their order, of the first k events of s.
Tells(r, s, k, a) ==
  /\ \A i \in DOMAIN r : r[i].kind \in TellKinds =>
       /\ a[i] \in DOMAIN s /\ a[i] <= k
       /\ s[a[i]].kind = r[i].kind /\ s[a[i]].medium = r[i].medium
  /\ \A i, j \in DOMAIN r :
       i < j /\ r[i].kind \in TellKinds /\ r[j].kind \in TellKinds => a[i] < a[j]

Told(r, s, k) ==
  /\ r \in Seq(ReportsTo(generation))
  /\ \A i \in DOMAIN r : r[i].generation = wGeneration /\ r[i].kind # "startup"
  /\ \E a : Tells(r, s, k, a)

LEMMA ToldMore ==
  ASSUME NEW s, NEW k \in Nat, NEW l \in Nat, k <= l, DOMAIN s \subseteq Nat,
         NEW r, Told(r, s, k),
         NEW b \in Seq(ReportsTo(generation)),
         \A i \in DOMAIN b :
           /\ b[i].generation = wGeneration /\ b[i].kind # "startup"
           /\ b[i].kind \in TellKinds =>
                /\ i = 1 /\ k < l /\ l \in DOMAIN s
                /\ s[l].kind = b[i].kind /\ s[l].medium = b[i].medium
  PROVE  Told(r \o b, s, l)
<1> DEFINE S == ReportsTo(generation)
<1>1. r \in Seq(S) /\ b \in Seq(S)  BY DEF Told
<1> HIDE DEF S
<1> DEFINE q == r \o b
<1>2. /\ q \in Seq(S) /\ Len(q) = Len(r) + Len(b) /\ DOMAIN q = 1..(Len(r) + Len(b))
      /\ Len(r) \in Nat /\ Len(b) \in Nat /\ DOMAIN r = 1..Len(r) /\ DOMAIN b = 1..Len(b)
      /\ \A i \in 1..Len(r) : q[i] = r[i]
      /\ \A i \in 1..Len(b) : q[Len(r) + i] = b[i]
  BY <1>1
<1> HIDE DEF q
<1>3. PICK a : Tells(r, s, k, a)  BY DEF Told
<1> DEFINE d == [i \in DOMAIN q |-> IF i <= Len(r) THEN a[i] ELSE l]
<1>4. ASSUME NEW i \in DOMAIN q, i > Len(r)
      PROVE  /\ i - Len(r) \in DOMAIN b /\ q[i] = b[i - Len(r)] /\ d[i] = l
             /\ q[i].generation = wGeneration /\ q[i].kind # "startup"
             /\ q[i].kind \in TellKinds =>
                  /\ i = Len(r) + 1 /\ k < l /\ l \in DOMAIN s
                  /\ s[l].kind = q[i].kind /\ s[l].medium = q[i].medium
  <2> DEFINE y == i - Len(r)
  <2>0. y \in 1..Len(b) /\ i = Len(r) + y  BY <1>2, <1>4
  <2> HIDE DEF y
  <2>1. PICK x \in 1..Len(b) : i = Len(r) + x  BY <2>0
  <2>2. x \in DOMAIN b /\ q[i] = b[x] /\ i - Len(r) = x  BY <1>2, <2>1
  <2>3. d[i] = l  BY <1>2, <1>4
  <2>. QED  BY <1>2, <2>1, <2>2, <2>3
<1>5. ASSUME NEW i \in DOMAIN q, ~(i > Len(r))
      PROVE  i \in DOMAIN r /\ q[i] = r[i] /\ d[i] = a[i]
  BY <1>2, <1>5
<1> HIDE DEF d
<1>6. \A i \in DOMAIN q : q[i].generation = wGeneration /\ q[i].kind # "startup"
  <2>1. ASSUME NEW i \in DOMAIN q
        PROVE  q[i].generation = wGeneration /\ q[i].kind # "startup"
    <3>1. CASE i > Len(r)  BY <1>4, <3>1
    <3>2. CASE ~(i > Len(r))  BY <1>5, <3>2 DEF Told
    <3>. QED  BY <3>1, <3>2
  <2>. QED  BY <2>1
<1>7. ASSUME NEW i \in DOMAIN q, q[i].kind \in TellKinds
      PROVE  /\ d[i] \in DOMAIN s /\ d[i] <= l
             /\ s[d[i]].kind = q[i].kind /\ s[d[i]].medium = q[i].medium
             /\ i <= Len(r) => d[i] <= k
  <2>1. CASE i > Len(r)  BY <1>2, <1>4, <1>7, <2>1
  <2>2. CASE ~(i > Len(r))
    <3>1. a[i] \in DOMAIN s /\ a[i] <= k /\ s[a[i]].kind = r[i].kind
          /\ s[a[i]].medium = r[i].medium /\ d[i] = a[i] /\ q[i] = r[i]
      BY <1>3, <1>5, <1>7, <2>2 DEF Tells
    <3>2. a[i] \in Nat  BY <3>1
    <3>. QED  BY <3>1, <3>2
  <2>. QED  BY <2>1, <2>2
<1>8. ASSUME NEW i \in DOMAIN q, NEW j \in DOMAIN q, i < j,
             q[i].kind \in TellKinds, q[j].kind \in TellKinds
      PROVE  d[i] < d[j]
  <2>1. CASE j > Len(r)
    <3>1. j = Len(r) + 1 /\ k < l /\ d[j] = l  BY <1>4, <1>8, <2>1
    <3>2. i <= Len(r)  BY <1>2, <1>8, <3>1
    <3>3. d[i] <= k /\ d[i] \in Nat  BY <1>7, <1>8, <3>2
    <3>. QED  BY <3>1, <3>3
  <2>2. CASE ~(j > Len(r))
    <3>1. ~(i > Len(r))  BY <1>2, <1>8, <2>2
    <3>. QED  BY <1>3, <1>5, <1>8, <2>2, <3>1 DEF Tells
  <2>. QED  BY <2>1, <2>2
<1>9. Tells(q, s, l, d)  BY <1>7, <1>8 DEF Tells
<1>10. q \in Seq(ReportsTo(generation))  BY <1>2 DEF S
<1>11. Told(q, s, l)  BY <1>6, <1>9, <1>10 DEF Told
<1>. QED  BY <1>11 DEF q

\* The first m steps of FlattenSeq.
Flattens(seqs, m, g) ==
  g = [i \in 1..m |-> IF i = 1 THEN seqs[i] ELSE g[i - 1] \o seqs[i]]

LEMMA FlattenExists == \A seqs : \A m \in Nat : \E g : Flattens(seqs, m, g)
<1> TAKE seqs
<1> DEFINE S == {m \in Nat : \E g : Flattens(seqs, m, g)}
<1>1. 0 \in S
  <2> DEFINE g0 == [i \in 1..0 |-> seqs]
  <2>1. Flattens(seqs, 0, g0)  BY DEF Flattens
  <2>. QED  BY <2>1
<1>2. ASSUME NEW m \in Nat, m \in S PROVE m + 1 \in S
  <2>1. PICK g : Flattens(seqs, m, g)  BY <1>2
  <2> DEFINE h == [i \in 1..(m + 1) |->
                    IF i <= m THEN g[i]
                    ELSE IF i = 1 THEN seqs[i] ELSE g[i - 1] \o seqs[i]]
  <2>2. ASSUME NEW i \in 1..(m + 1)
        PROVE  h[i] = IF i = 1 THEN seqs[i] ELSE h[i - 1] \o seqs[i]
    <3>1. i # 1 => i - 1 \in 1..(m + 1) /\ i - 1 <= m  OBVIOUS
    <3>2. i # 1 => h[i - 1] = g[i - 1]  BY <3>1
    <3>3. CASE i <= m
      <4>1. i \in 1..m /\ h[i] = g[i]  BY <3>3
      <4>2. g[i] = IF i = 1 THEN seqs[i] ELSE g[i - 1] \o seqs[i]
        BY <2>1, <4>1 DEF Flattens
      <4>. QED  BY <3>2, <4>1, <4>2
    <3>4. CASE ~(i <= m)  BY <3>2, <3>4
    <3>. QED  BY <3>3, <3>4
  <2>3. Flattens(seqs, m + 1, h)
    <3> HIDE DEF h
    <3>1. h = [i \in 1..(m + 1) |-> h[i]]  BY DEF h
    <3>. QED  BY <2>2, <3>1 DEF Flattens
  <2>. QED  BY <2>3
<1> HIDE DEF S
<1>3. Nat \subseteq S  BY <1>1, <1>2, NatSetInduction
<1>. QED  BY <1>3 DEF S

LEMMA FlattenSteps ==
  ASSUME NEW seqs, Len(seqs) \in Nat, Len(seqs) # 0
  PROVE  \E p : /\ p[1] = seqs[1]
                /\ p[Len(seqs)] = FlattenSeq(seqs)
                /\ \A i \in 2..Len(seqs) : p[i] = p[i - 1] \o seqs[i]
<1> DEFINE n == Len(seqs)
<1> DEFINE g == CHOOSE h : Flattens(seqs, n, h)
<1>1. Flattens(seqs, n, g)  BY FlattenExists
<1>2. FlattenSeq(seqs) = g[n]  BY DEF FlattenSeq, Flattens
<1> HIDE DEF g
<1>3. n \in Nat /\ n # 0 /\ 1 \in 1..n  OBVIOUS
<1>4. g[1] = seqs[1]  BY <1>1, <1>3 DEF Flattens
<1>5. ASSUME NEW i \in 2..n PROVE g[i] = g[i - 1] \o seqs[i]
  <2>1. i \in 1..n /\ i # 1  BY <1>3
  <2>. QED  BY <1>1, <2>1 DEF Flattens
<1>. QED  BY <1>2, <1>4, <1>5

LEMMA LabelledTells ==
  ASSUME PlayInv, NEW s \in Seq(EventsTo(generation)), NEW video \in BOOLEAN
  PROVE  Told(Labelled(s, video), s, Len(s))
<1> DEFINE S == ReportsTo(generation)
<1> DEFINE Of(i) == Report(s[i].kind, s[i].medium)
<1> DEFINE seqs == [i \in DOMAIN s |->
                     IF Of(i).kind = "loaded" /\ ~video
                     THEN <<Of(i), Report("audio", 0)>> ELSE <<Of(i)>>]
<1> DEFINE n == Len(s)
<1>1. n \in Nat /\ DOMAIN s = 1..n /\ generation \in Nat /\ DOMAIN s \subseteq Nat
  BY QueueNow
<1>2. Labelled(s, video) = FlattenSeq(seqs)  BY Zenon DEF Labelled
<1>3. ASSUME NEW i \in 1..n
      PROVE  /\ Of(i) \in S /\ Of(i).generation = wGeneration
             /\ Of(i).kind = s[i].kind /\ Of(i).medium = s[i].medium
             /\ Of(i).kind # "startup"
  <2>1. s[i] \in EventsTo(generation)  BY <1>1
  <2>2. s[i].kind \in EventKinds /\ s[i].medium \in 0..generation
    BY <2>1 DEF EventsTo
  <2>. QED  BY <2>2, ReportTypes DEF ReportKinds, EventKinds, TellKinds
<1> DEFINE A == Report("audio", 0)
<1>4. A \in S /\ A.generation = wGeneration /\ A.kind = "audio"
  <2>1. 0 \in 0..generation /\ "audio" \in ReportKinds  BY <1>1 DEF ReportKinds
  <2>. QED  BY <2>1, ReportTypes
<1> HIDE DEF S, Of, A
<1>5. ASSUME NEW i \in 1..n
      PROVE  /\ seqs[i] \in Seq(S) /\ 1 \in DOMAIN seqs[i] /\ seqs[i][1] = Of(i)
             /\ \A x \in DOMAIN seqs[i] : x = 1 \/ seqs[i][x] = A
  <2>1. CASE Of(i).kind = "loaded" /\ ~video
    <3>1. seqs[i] = <<Of(i), A>>  BY <1>1, <2>1 DEF A
    <3> HIDE DEF seqs
    <3>2. <<Of(i), A>> \in Seq(S) /\ DOMAIN <<Of(i), A>> = 1..2
          /\ <<Of(i), A>>[1] = Of(i) /\ <<Of(i), A>>[2] = A
      BY <1>3, <1>4
    <3>3. 1..2 = {1, 2}  OBVIOUS
    <3>. QED  BY <3>1, <3>2, <3>3
  <2>2. CASE ~(Of(i).kind = "loaded" /\ ~video)
    <3>1. seqs[i] = <<Of(i)>>  BY <1>1, <2>2
    <3> HIDE DEF seqs
    <3>2. <<Of(i)>> \in Seq(S) /\ DOMAIN <<Of(i)>> = {1} /\ <<Of(i)>>[1] = Of(i)
      BY <1>3
    <3>. QED  BY <3>1, <3>2
  <2>. QED  BY <2>1, <2>2
<1>6. seqs \in Seq(Seq(S)) /\ Len(seqs) = n
  <2>1. DOMAIN seqs = 1..n /\ seqs = [i \in 1..n |-> seqs[i]]  BY <1>1
  <2> HIDE DEF seqs
  <2>2. seqs \in [1..n -> Seq(S)]  BY <1>5, <2>1
  <2>. QED  BY <1>1, <2>2
<1> HIDE DEF seqs
<1>7. CASE n = 0
  <2>1. Labelled(s, video) = <<>>
    <3>1. FlattenSeq(seqs) = seqs  BY <1>6, <1>7 DEF FlattenSeq
    <3>2. seqs = <<>>  BY <1>6, <1>7
    <3>. QED  BY <1>2, <3>1, <3>2
  <2>2. Tells(<<>>, s, n, <<>>)  BY DEF Tells
  <2>. QED  BY <2>1, <2>2 DEF Told
<1>8. CASE n # 0
  <2>1. PICK p : /\ p[1] = seqs[1] /\ p[n] = FlattenSeq(seqs)
                 /\ \A i \in 2..n : p[i] = p[i - 1] \o seqs[i]
    <3>1. Len(seqs) \in Nat /\ Len(seqs) # 0  BY <1>1, <1>6, <1>8
    <3> HIDE DEF n
    <3>2. \E p : /\ p[1] = seqs[1] /\ p[Len(seqs)] = FlattenSeq(seqs)
                 /\ \A i \in 2..Len(seqs) : p[i] = p[i - 1] \o seqs[i]
      BY <3>1, FlattenSteps, Zenon
    <3>3. Len(seqs) = n  BY <1>6
    <3>. QED  BY <3>2, <3>3
  <2>2. ASSUME NEW i \in 1..n, NEW r, Told(r, s, i - 1)
        PROVE  Told(r \o seqs[i], s, i)
    <3>1. /\ i - 1 \in Nat /\ i \in Nat /\ i - 1 <= i /\ i - 1 < i /\ i \in DOMAIN s
          /\ seqs[i] \in Seq(ReportsTo(generation))
      BY <1>1, <1>5 DEF S
    <3>2. ASSUME NEW x \in DOMAIN seqs[i]
          PROVE  /\ seqs[i][x].generation = wGeneration /\ seqs[i][x].kind # "startup"
                 /\ seqs[i][x].kind \in TellKinds =>
                      /\ x = 1 /\ i - 1 < i /\ i \in DOMAIN s
                      /\ s[i].kind = seqs[i][x].kind /\ s[i].medium = seqs[i][x].medium
      <4>1. CASE x = 1  BY <1>3, <1>5, <3>1, <4>1
      <4>2. CASE x # 1
        <5>1. seqs[i][x] = A  BY <1>5, <4>2
        <5>. QED  BY <1>4, <5>1 DEF TellKinds
      <4>. QED  BY <4>1, <4>2
    <3>. QED  BY <1>1, <2>2, <3>1, <3>2, ToldMore
  <2> DEFINE T == {m \in Nat : m + 1 <= n => Told(p[m + 1], s, m + 1)}
  <2>3. 0 \in T
    <3>1. Told(<<>>, s, 0)
      <4>1. Tells(<<>>, s, 0, <<>>)  BY DEF Tells
      <4>. QED  BY <4>1 DEF Told
    <3>2. 1 \in 1..n /\ 1 - 1 = 0  BY <1>1, <1>8
    <3>3. Told(<<>> \o seqs[1], s, 1)  BY <2>2, <3>1, <3>2
    <3>4. <<>> \o seqs[1] = seqs[1]
      <4>1. seqs[1] \in Seq(S)  BY <1>5, <3>2
      <4>. QED  BY <4>1
    <3>. QED  BY <2>1, <3>3, <3>4
  <2>4. ASSUME NEW m \in Nat, m \in T PROVE m + 1 \in T
    <3>1. CASE (m + 1) + 1 <= n
      <4>1. /\ (m + 1) + 1 \in 2..n /\ (m + 1) + 1 \in 1..n /\ ((m + 1) + 1) - 1 = m + 1
            /\ m + 1 <= n
        BY <1>1, <3>1
      <4>2. Told(p[m + 1], s, m + 1)  BY <2>4, <4>1
      <4>3. Told(p[m + 1] \o seqs[(m + 1) + 1], s, (m + 1) + 1)
        <5>1. Told(p[m + 1], s, ((m + 1) + 1) - 1)  BY <4>1, <4>2
        <5>. QED  BY <2>2, <4>1, <5>1
      <4>4. p[(m + 1) + 1] = p[m + 1] \o seqs[(m + 1) + 1]  BY <2>1, <4>1
      <4>5. Told(p[(m + 1) + 1], s, (m + 1) + 1)  BY <4>3, <4>4
      <4>. QED  BY <4>5
    <3>2. CASE ~((m + 1) + 1 <= n)
      <4>. QED  BY <3>2
    <3>. QED  BY <3>1, <3>2
  <2>5. n - 1 \in T
    <3>1. n - 1 \in Nat  BY <1>1, <1>8
    <3> HIDE DEF T, n
    <3>. QED  BY <2>3, <2>4, <3>1, NatSetInduction
  <2>6. (n - 1) + 1 = n /\ n <= n  BY <1>1
  <2>7. Told(p[n], s, n)  BY <2>5, <2>6
  <2>. QED  BY <1>2, <2>1, <2>7
<1>. QED  BY <1>7, <1>8

LEMMA SequencedNext ==
  ASSUME NEW f, mpv'.events = f, mpv'.stage = mpv.stage, mpv'.medium = mpv.medium,
         \A i, j \in DOMAIN f :
           i < j /\ f[i].kind = "loaded" /\ f[j].kind = "eof" =>
             \E k \in DOMAIN f : i <= k /\ k < j /\ f[k].kind = "loaded"
                                 /\ f[k].medium = f[j].medium,
         mpv.stage = "playing" =>
           \A i \in DOMAIN f : f[i].kind = "loaded" =>
             \E k \in DOMAIN f : i <= k /\ f[k].kind = "loaded"
                                 /\ f[k].medium = mpv.medium
  PROVE  Sequenced'
<1> SUFFICES /\ \A i, j \in DOMAIN f :
                  i < j /\ f[i].kind = "loaded" /\ f[j].kind = "eof" =>
                    \E k \in DOMAIN f : i <= k /\ k < j /\ f[k].kind = "loaded"
                                        /\ f[k].medium = f[j].medium
             /\ mpv'.stage = "playing" =>
                  \A i \in DOMAIN f : f[i].kind = "loaded" =>
                    \E k \in DOMAIN f : i <= k /\ f[k].kind = "loaded"
                                        /\ f[k].medium = mpv'.medium
  BY DEF Sequenced
<1>. QED  OBVIOUS

\* What the worker reported of the first n events of libmpv, and left.
LEMMA PulledKeeps ==
  ASSUME PlayInv, NEW n \in 0..Len(mpv.events), NEW r,
         Told(r, mpv.events, n), ReportsInv(r),
         UNCHANGED <<generation, player, commands, wGeneration, left>>,
         worker \in Receiving, worker' \in Receiving,
         mpv'.medium = mpv.medium, mpv'.stage = mpv.stage,
         mpv'.events = SubSeq(mpv.events, n + 1, Len(mpv.events))
  PROVE  /\ Sequenced' /\ StatusInv(player, 0)'
         /\ mpv'.events \in Seq(EventsTo(generation))
         /\ \A i \in DOMAIN statuses' :
              statuses'[i].kind # "startup" => statuses'[i].generation <= wGeneration'
<1> DEFINE e == mpv.events
<1> DEFINE f == mpv'.events
<1> DEFINE L == Len(statuses)
<1>1. /\ e \in Seq(EventsTo(generation)) /\ Len(e) \in Nat /\ DOMAIN e = 1..Len(e)
      /\ n \in Nat /\ n <= Len(e)
      /\ generation \in Nat /\ wGeneration \in 0..generation
      /\ L \in Nat /\ DOMAIN statuses = 1..L /\ StatusInv(player, 0)
  BY DEF PlayInv, PlayTypes, LibrariesTo
<1>2. /\ f \in Seq(EventsTo(generation)) /\ DOMAIN f = 1..(Len(e) - n)
      /\ \A i \in 1..(Len(e) - n) : f[i] = e[n + i] /\ n + i \in 1..Len(e)
  <2> DEFINE S == EventsTo(generation)
  <2>1. e \in Seq(S)  BY <1>1
  <2> HIDE DEF S
  <2>2. f = SubSeq(e, n + 1, Len(e))  OBVIOUS
  <2> HIDE DEF e, f
  <2>3. /\ f \in Seq(S) /\ DOMAIN f = 1..(Len(e) - n)
        /\ \A i \in 1..(Len(e) - n) : f[i] = e[n + i] /\ n + i \in 1..Len(e)
    BY <1>1, <2>1, <2>2
  <2>. QED  BY <2>3 DEF S
<1>3. PICK a : Tells(r, e, n, a)  BY DEF Told
<1> DEFINE d == [i \in DOMAIN statuses' |-> a[i - L]]
<1>4. ASSUME NEW i \in DOMAIN statuses'
      PROVE  \/ i \in DOMAIN statuses /\ i <= L /\ statuses'[i] = statuses[i]
             \/ /\ i > L /\ i - L \in DOMAIN r /\ statuses'[i] = r[i - L]
                /\ d[i] = a[i - L]
                /\ statuses'[i].generation = wGeneration /\ statuses'[i].kind # "startup"
  BY <1>1 DEF ReportsInv, Told
<1>5. statuses' \in Seq(ReportsTo(generation)) /\ DOMAIN statuses' \subseteq Nat
      /\ \A i \in DOMAIN statuses' : i > 0
  <2>1. statuses' \in Seq(ReportsTo(generation))  BY DEF ReportsInv
  <2>. QED  BY <2>1
<1>6. ASSUME NEW i \in DOMAIN statuses', i > L, statuses'[i].kind \in TellKinds
      PROVE  /\ d[i] \in DOMAIN e /\ d[i] <= n
             /\ e[d[i]].kind = statuses'[i].kind
             /\ e[d[i]].medium = statuses'[i].medium
  BY <1>1, <1>3, <1>4, <1>6 DEF Tells
<1>7. ASSUME NEW i \in DOMAIN statuses', NEW j \in DOMAIN statuses', i > L, i < j,
             statuses'[i].kind \in TellKinds, statuses'[j].kind \in TellKinds
      PROVE  d[i] < d[j]
  <2>1. j > L /\ i - L < j - L  BY <1>1, <1>5, <1>7
  <2>2. /\ i - L \in DOMAIN r /\ statuses'[i] = r[i - L] /\ d[i] = a[i - L]
        /\ j - L \in DOMAIN r /\ statuses'[j] = r[j - L] /\ d[j] = a[j - L]
    BY <1>1, <1>4, <1>5, <1>7, <2>1
  <2>. QED  BY <1>3, <1>7, <2>1, <2>2 DEF Tells
<1> HIDE DEF d, e, f
<1>8. Sequenced'
  <2>1. ASSUME NEW i \in DOMAIN f, NEW j \in DOMAIN f,
               i < j, f[i].kind = "loaded", f[j].kind = "eof"
        PROVE  \E k \in DOMAIN f : i <= k /\ k < j /\ f[k].kind = "loaded"
                                   /\ f[k].medium = f[j].medium
    <3>1. /\ n + i \in DOMAIN e /\ n + j \in DOMAIN e /\ f[i] = e[n + i] /\ f[j] = e[n + j]
          /\ n + i < n + j
      BY <1>1, <1>2, <2>1
    <3>2. PICK k \in DOMAIN e : /\ n + i <= k /\ k < n + j /\ e[k].kind = "loaded"
                                /\ e[k].medium = e[n + j].medium
      BY <2>1, <3>1 DEF PlayInv, Sequenced, e
    <3>3. k - n \in DOMAIN f /\ f[k - n] = e[k] /\ i <= k - n /\ k - n < j
      <4>1. k - n \in 1..(Len(e) - n) /\ n + (k - n) = k
        BY <1>1, <1>2, <2>1, <3>2
      <4>. QED  BY <1>1, <1>2, <2>1, <3>2, <4>1
    <3>. QED  BY <3>1, <3>2, <3>3
  <2>2. ASSUME mpv.stage = "playing", NEW i \in DOMAIN f, f[i].kind = "loaded"
        PROVE  \E k \in DOMAIN f : i <= k /\ f[k].kind = "loaded"
                                   /\ f[k].medium = mpv.medium
    <3>1. n + i \in DOMAIN e /\ f[i] = e[n + i]  BY <1>1, <1>2, <2>2
    <3>2. PICK k \in DOMAIN e : /\ n + i <= k /\ e[k].kind = "loaded"
                                /\ e[k].medium = mpv.medium
      BY <2>2, <3>1 DEF PlayInv, Sequenced, e
    <3>3. k - n \in DOMAIN f /\ f[k - n] = e[k] /\ i <= k - n
      <4>1. k - n \in 1..(Len(e) - n) /\ n + (k - n) = k
        BY <1>1, <1>2, <2>2, <3>2
      <4>. QED  BY <1>1, <1>2, <2>2, <3>2, <4>1
    <3>. QED  BY <3>2, <3>3
  <2>3. mpv'.events = f  BY DEF f
  <2>. QED  BY <2>1, <2>2, <2>3, SequencedNext
<1>9. Fresh(player)'
  BY <1>1 DEF StatusInv, Fresh, Own
<1>10. player'.failed = {} => \A m \in player'.ended : (Own(m, "eof") /\ Own(m, "loaded"))'
  BY <1>1 DEF StatusInv, Own
<1>11. player'.failed = {} => Reaches'
  BY <1>1 DEF StatusInv, Reaches, Begins
<1>12. ASSUME player.failed = {}, wGeneration = generation
       PROVE  /\ LibraryOwn /\ ReportsLoaded(player.loaded, 0)
              /\ EventsLoaded(player.loaded, 0)
  BY <1>1, <1>12 DEF StatusInv
<1>13. ASSUME player.failed = {} PROVE ReportsOwn(0)'
  <2>1. ASSUME NEW i \in DOMAIN statuses', NEW k \in TellKinds,
               statuses'[i].generation = generation, statuses'[i].kind = k
        PROVE  Own(statuses'[i].medium, k)
    <3>1. CASE i \in DOMAIN statuses /\ statuses'[i] = statuses[i]
      <4>1. i > 0  BY <1>5
      <4>2. ReportsOwn(0)  BY <1>1, <1>13 DEF StatusInv
      <4>. QED  BY <2>1, <3>1, <4>1, <4>2 DEF ReportsOwn, Says
    <3>2. CASE i > L
      <4>1. wGeneration = generation  BY <1>1, <1>4, <2>1, <3>2
      <4>2. /\ d[i] \in DOMAIN e /\ e[d[i]].kind = k
            /\ e[d[i]].medium = statuses'[i].medium
        BY <1>6, <2>1, <3>2
      <4>. QED  BY <1>12, <1>13, <4>1, <4>2 DEF LibraryOwn, e
    <3>. QED  BY <1>4, <3>1, <3>2
  <2>. QED  BY <2>1 DEF ReportsOwn, Says, Own
<1>14. ASSUME player.failed = {}, wGeneration = generation PROVE LibraryOwn'
  <2>1. \A i \in DOMAIN f : \A k \in TellKinds : f[i].kind = k => Own(f[i].medium, k)
    <3>1. ASSUME NEW i \in DOMAIN f, NEW k \in TellKinds, f[i].kind = k
          PROVE  Own(f[i].medium, k)
      <4>1. n + i \in DOMAIN e /\ f[i] = e[n + i]  BY <1>1, <1>2
      <4>. QED  BY <1>12, <1>14, <3>1, <4>1 DEF LibraryOwn, e
    <3>. QED  BY <3>1
  <2>2. mpv.stage \in {"opening", "playing"} => \A k \in TellKinds : Own(mpv.medium, k)
    BY <1>12, <1>14 DEF LibraryOwn
  <2>. QED  BY <2>1, <2>2 DEF LibraryOwn, Own, f
<1>15. ASSUME player.failed = {}, wGeneration = generation
       PROVE  ReportsLoaded(player.loaded, 0)'
  <2>1. ASSUME NEW j \in DOMAIN statuses', statuses'[j].generation = generation,
               statuses'[j].kind = "eof",
               player.loaded \/ \E i \in DOMAIN statuses' :
                                  /\ 0 < i /\ i < j
                                  /\ statuses'[i].generation = generation
                                  /\ statuses'[i].kind = "loaded"
        PROVE  Own(statuses'[j].medium, "loaded")
    <3>0. "eof" \in TellKinds /\ "loaded" \in TellKinds /\ j > 0  BY <1>5 DEF TellKinds
    <3>1. CASE j \in DOMAIN statuses /\ j <= L /\ statuses'[j] = statuses[j]
      <4>1. \A i \in DOMAIN statuses' :
              i < j => i \in DOMAIN statuses /\ statuses'[i] = statuses[i]
        BY <1>1, <1>4, <1>5, <3>1
      <4>2. player.loaded \/ \E i \in DOMAIN statuses : 0 < i /\ i < j /\ Says(i, "loaded")
        BY <2>1, <4>1 DEF Says
      <4>3. Says(j, "eof")  BY <2>1, <3>1 DEF Says
      <4>. QED  BY <1>12, <1>15, <3>0, <3>1, <4>2, <4>3 DEF ReportsLoaded
    <3>2. CASE j > L
      <4>1. /\ d[j] \in DOMAIN e /\ e[d[j]].kind = "eof"
            /\ e[d[j]].medium = statuses'[j].medium
        BY <1>6, <2>1, <3>0, <3>2
      <4>2. \/ player.loaded
            \/ \E i \in DOMAIN statuses : 0 < i /\ Says(i, "loaded")
            \/ \E i \in DOMAIN e : i < d[j] /\ e[i].kind = "loaded"
        <5>1. CASE player.loaded  BY <5>1
        <5>2. CASE \E i \in DOMAIN statuses' :
                     /\ 0 < i /\ i < j
                     /\ statuses'[i].generation = generation
                     /\ statuses'[i].kind = "loaded"
          <6>1. PICK i \in DOMAIN statuses' : /\ 0 < i /\ i < j
                                              /\ statuses'[i].generation = generation
                                              /\ statuses'[i].kind = "loaded"
            BY <5>2
          <6>2. CASE i \in DOMAIN statuses /\ statuses'[i] = statuses[i]
            BY <6>1, <6>2 DEF Says
          <6>3. CASE i > L
            <7>1. d[i] \in DOMAIN e /\ e[d[i]].kind = "loaded"
              BY <1>6, <3>0, <6>1, <6>3
            <7>2. d[i] < d[j]  BY <1>7, <2>1, <3>0, <6>1, <6>3
            <7>. QED  BY <7>1, <7>2
          <6>. QED  BY <1>4, <6>2, <6>3
        <5>. QED  BY <2>1, <5>1, <5>2
      <4>. QED  BY <1>12, <1>15, <4>1, <4>2 DEF EventsLoaded, e
    <3>. QED  BY <1>4, <3>1, <3>2
  <2>. QED  BY <2>1 DEF ReportsLoaded, Says, Own
<1>16. ASSUME player.failed = {}, wGeneration = generation
       PROVE  EventsLoaded(player.loaded, 0)'
  <2>1. ASSUME NEW j \in DOMAIN f, f[j].kind = "eof",
               \/ player.loaded
               \/ \E i \in DOMAIN statuses' : /\ 0 < i
                                              /\ statuses'[i].generation = generation
                                              /\ statuses'[i].kind = "loaded"
               \/ \E i \in DOMAIN f : i < j /\ f[i].kind = "loaded"
        PROVE  Own(f[j].medium, "loaded")
    <3>1. n + j \in DOMAIN e /\ f[j] = e[n + j] /\ j > 0  BY <1>1, <1>2
    <3>0. "loaded" \in TellKinds  BY DEF TellKinds
    <3>2. \/ player.loaded
          \/ \E i \in DOMAIN statuses : 0 < i /\ Says(i, "loaded")
          \/ \E i \in DOMAIN e : i < n + j /\ e[i].kind = "loaded"
      <4>1. CASE player.loaded  BY <4>1
      <4>2. CASE \E i \in DOMAIN statuses' : /\ 0 < i
                                             /\ statuses'[i].generation = generation
                                             /\ statuses'[i].kind = "loaded"
        <5>1. PICK i \in DOMAIN statuses' : /\ 0 < i
                                            /\ statuses'[i].generation = generation
                                            /\ statuses'[i].kind = "loaded"
          BY <4>2
        <5>2. CASE i \in DOMAIN statuses /\ statuses'[i] = statuses[i]
          BY <5>1, <5>2 DEF Says
        <5>3. CASE i > L
          <6>1. d[i] \in DOMAIN e /\ d[i] <= n /\ e[d[i]].kind = "loaded"
            BY <1>6, <3>0, <5>1, <5>3
          <6>2. d[i] < n + j
            BY <1>1, <1>2, <6>1
          <6>. QED  BY <6>1, <6>2
        <5>. QED  BY <1>4, <5>2, <5>3
      <4>3. CASE \E i \in DOMAIN f : i < j /\ f[i].kind = "loaded"
        <5>1. PICK i \in DOMAIN f : i < j /\ f[i].kind = "loaded"  BY <4>3
        <5>2. n + i \in DOMAIN e /\ f[i] = e[n + i] /\ n + i < n + j
          BY <1>1, <1>2, <5>1
        <5>. QED  BY <5>1, <5>2
      <4>. QED  BY <2>1, <4>1, <4>2, <4>3
    <3>. QED  BY <1>12, <1>16, <2>1, <3>1, <3>2 DEF EventsLoaded, e
  <2>. QED  BY <2>1 DEF EventsLoaded, Says, Own, f
<1>17. StatusInv(player, 0)'
  BY <1>9, <1>10, <1>11, <1>13, <1>14, <1>15, <1>16 DEF StatusInv
<1>18. \A i \in DOMAIN statuses' :
         statuses'[i].kind # "startup" => statuses'[i].generation <= wGeneration'
  <2>1. ASSUME NEW i \in DOMAIN statuses', statuses'[i].kind # "startup"
        PROVE  statuses'[i].generation <= wGeneration'
    BY <1>1, <1>4, <2>1 DEF PlayInv, Labels
  <2>. QED  BY <2>1
<1>. QED  BY <1>2, <1>8, <1>17, <1>18 DEF f

\* Of the first n events of s, which is how many were pulled.
LEMMA ToldPulled ==
  ASSUME NEW s, NEW n \in Nat, n <= Len(s), NEW t, NEW r,
         DOMAIN t = 1..n, DOMAIN s = 1..Len(s), \A i \in 1..n : t[i] = s[i],
         Len(s) \in Nat, Told(r, t, n)
  PROVE  Told(r, s, n)
<1>1. PICK a : Tells(r, t, n, a)  BY DEF Told
<1>2. ASSUME NEW i \in DOMAIN r, r[i].kind \in TellKinds
      PROVE  /\ a[i] \in DOMAIN s /\ a[i] <= n
             /\ s[a[i]].kind = r[i].kind /\ s[a[i]].medium = r[i].medium
  <2>1. /\ a[i] \in 1..n /\ t[a[i]].kind = r[i].kind /\ t[a[i]].medium = r[i].medium
    BY <1>1, <1>2 DEF Tells
  <2>. QED  BY <2>1
<1>3. Tells(r, s, n, a)  BY <1>1, <1>2 DEF Tells
<1>. QED  BY <1>3 DEF Told

\* A report that tells nothing of an event may follow.
LEMMA ToldOther ==
  ASSUME NEW s, NEW n \in Nat, DOMAIN s \subseteq Nat, NEW r, Told(r, s, n),
         NEW c \in ReportsTo(generation),
         c.generation = wGeneration, c.kind \notin TellKinds \cup {"startup"},
         NEW b, b = <<c>> \/ b = <<>>
  PROVE  Told(r \o b, s, n)
<1>1. b \in Seq(ReportsTo(generation))
  <2> DEFINE S == ReportsTo(generation)
  <2>1. c \in S  OBVIOUS
  <2> HIDE DEF S
  <2>2. <<c>> \in Seq(S) /\ <<>> \in Seq(S)  BY <2>1
  <2>. QED  BY <2>2 DEF S
<1>2. \A i \in DOMAIN b : b[i] = c  OBVIOUS
<1>3. n <= n  OBVIOUS
<1>. QED  BY <1>1, <1>2, <1>3, ToldMore

LEMMA PulledTold ==
  ASSUME PlayInv, NEW n \in 0..Len(mpv.events), NEW video \in BOOLEAN,
         NEW c \in {<<Report("progress", 0)>>, <<>>}, NEW x \in {<<Report("error", 0)>>, <<>>}
  PROVE  Told(Labelled(SubSeq(mpv.events, 1, n), video) \o c \o x, mpv.events, n)
<1> DEFINE s == mpv.events
<1> DEFINE t == SubSeq(s, 1, n)
<1> DEFINE l == Labelled(t, video)
<1>1. generation \in Nat /\ wGeneration \in 0..generation /\ s \in Seq(EventsTo(generation))
  BY DEF PlayInv, PlayTypes, LibrariesTo
<1>2. /\ Len(s) \in Nat /\ DOMAIN s = 1..Len(s) /\ DOMAIN s \subseteq Nat
      /\ n \in Nat /\ n <= Len(s)
      /\ t \in Seq(EventsTo(generation)) /\ Len(t) = n /\ DOMAIN t = 1..n
      /\ \A i \in 1..n : t[i] = s[i]
  <2> DEFINE S == EventsTo(generation)
  <2>1. s \in Seq(S) /\ n \in 0..Len(s)  BY <1>1
  <2> HIDE DEF S, s
  <2>2. /\ Len(s) \in Nat /\ DOMAIN s = 1..Len(s) /\ DOMAIN s \subseteq Nat
        /\ n \in Nat /\ n <= Len(s)
    BY <2>1
  <2>3. /\ t \in Seq(S) /\ Len(t) = n /\ DOMAIN t = 1..n
        /\ \A i \in 1..n : t[i] = s[i]
    BY <2>1, <2>2
  <2>. QED  BY <2>2, <2>3 DEF S
<1> HIDE DEF t
<1>3. Told(l, t, n)  BY <1>2, LabelledTells
<1> HIDE DEF l
<1>4. Told(l, s, n)  BY <1>2, <1>3, ToldPulled
<1> DEFINE p == Report("progress", 0)
<1> DEFINE e == Report("error", 0)
<1>5. /\ p \in ReportsTo(generation) /\ p.generation = wGeneration
      /\ p.kind \notin TellKinds \cup {"startup"}
      /\ e \in ReportsTo(generation) /\ e.generation = wGeneration
      /\ e.kind \notin TellKinds \cup {"startup"}
  <2>1. /\ "progress" \in ReportKinds /\ "error" \in ReportKinds /\ 0 \in 0..generation
        /\ "progress" \notin TellKinds \cup {"startup"}
        /\ "error" \notin TellKinds \cup {"startup"}
    BY <1>1 DEF ReportKinds, TellKinds
  <2>2. p \in ReportsTo(generation) /\ p.generation = wGeneration /\ p.kind = "progress"
    BY <2>1, ReportTypes
  <2>3. e \in ReportsTo(generation) /\ e.generation = wGeneration /\ e.kind = "error"
    BY <2>1, ReportTypes
  <2>. QED  BY <2>1, <2>2, <2>3
<1>6. (c = <<p>> \/ c = <<>>) /\ (x = <<e>> \/ x = <<>>)  OBVIOUS
<1> HIDE DEF p, e, s
<1>7. Told(l \o c, s, n)  BY <1>2, <1>4, <1>5, <1>6, ToldOther
<1>8. Told(l \o c \o x, s, n)  BY <1>2, <1>5, <1>6, <1>7, ToldOther
<1>. QED  BY <1>8 DEF s, l, t

LEMMA PulledOwn ==
  ASSUME OwnInv, NEW n \in 0..Len(mpv.events), NEW r,
         Told(r, mpv.events, n), Reports(r), worker = "pull",
         mpv' = [mpv EXCEPT !.events = SubSeq(@, n + 1, Len(@))],
         renderReady' \in BOOLEAN,
         frame' = frame \/ frame' = {wGeneration},
         \/ worker' = "turn" /\ count' = count
         \/ worker' = "ending" /\ count + 2 <= MaxEvents /\ count' = count + 2,
         UNCHANGED <<ui, generation, player, view, panic, suspended, commands, wGeneration,
                     wasSuspended, restorePaused, left>>
  PROVE  OwnInv'
<1>1. /\ PlayInv /\ WindowTypes /\ generation \in Nat /\ wGeneration \in 0..generation
      /\ mpv \in LibrariesTo(generation)
  BY DEF OwnInv, PlayInv, PlayTypes
<1>2. r \in Seq(ReportsTo(generation))  BY DEF Told
<1>3. ReportsInv(r)  BY <1>1, <1>2, ReportsQueue
<1>4. /\ mpv'.medium = mpv.medium /\ mpv'.stage = mpv.stage
      /\ mpv'.events = SubSeq(mpv.events, n + 1, Len(mpv.events))
  BY <1>1 DEF LibrariesTo
<1>5. worker \in Receiving /\ worker' \in Receiving
  BY DEF Receiving
<1>6. /\ Sequenced' /\ StatusInv(player, 0)'
      /\ mpv'.events \in Seq(EventsTo(generation))
      /\ \A i \in DOMAIN statuses' :
           statuses'[i].kind # "startup" => statuses'[i].generation <= wGeneration'
  BY <1>1, <1>3, <1>4, <1>5, PulledKeeps
<1>7. mpv' \in LibrariesTo(generation)
  <2> DEFINE f == mpv'.events
  <2>1. mpv' = [mpv EXCEPT !.events = f] /\ f \in Seq(EventsTo(generation))
    BY <1>4, <1>6
  <2> HIDE DEF f
  <2>. QED  BY <1>1, <2>1 DEF LibrariesTo
<1>8. PlayTypes'
  <2>2. frame' \in SUBSET (0..generation)
    BY <1>1 DEF PlayInv, PlayTypes
  <2>3. statuses' \in Seq(ReportsTo(generation)) /\ Len(statuses') <= StatusCapacity
    BY <1>3 DEF ReportsInv
  <2>. QED
    BY <1>1, <1>5, <1>7, <2>2, <2>3 DEF PlayInv, PlayTypes
<1>9. Labels'
  <2>1. worker # "starting" /\ worker' \notin {"none", "starting", "dead"}
    OBVIOUS
  <2>2. From' = From  BY <2>1 DEF From
  <2>3. Ordered(commands, From)'
    BY <1>1, <2>2 DEF PlayInv, Labels, Ordered
  <2>. QED  BY <1>6, <2>1, <2>3 DEF Labels
<1>10. WindowTypes'
  <2>1. count' \in Nat /\ count' <= MaxEvents
    BY <1>1, PlayerAssumption DEF WindowTypes
  <2>. QED  BY <1>1, <2>1 DEF WindowTypes
<1>. QED  BY <1>6, <1>8, <1>9, <1>10 DEF PlayInv, OwnInv

LEMMA PullOwn ==
  OwnInv /\ (\E n \in 0..Len(mpv.events), video, progress \in BOOLEAN,
                end \in {"none", "render error", "shut down"} : Pull(n, video, progress, end))
    => OwnInv'
<1> SUFFICES ASSUME OwnInv, NEW n \in 0..Len(mpv.events),
                    NEW video \in BOOLEAN, NEW progress \in BOOLEAN,
                    NEW end \in {"none", "render error", "shut down"},
                    Pull(n, video, progress, end)
             PROVE  OwnInv'
  OBVIOUS
<1> DEFINE t == SubSeq(mpv.events, 1, n)
<1> DEFINE c == IF progress THEN <<Report("progress", 0)>> ELSE <<>>
<1> DEFINE x == IF end = "render error" THEN <<Report("error", 0)>> ELSE <<>>
<1> DEFINE r == Labelled(t, video) \o c \o x
<1>1. /\ worker = "pull" /\ Reports(r)
      /\ mpv' = [mpv EXCEPT !.events = SubSeq(@, n + 1, Len(@))]
      /\ renderReady' = (renderReady \/ \E e \in ToSet(t) : e.kind = "loaded")
      /\ frame' = frame \/ frame' = {wGeneration}
      /\ \/ worker' = "turn" /\ count' = count
         \/ worker' = "ending" /\ count + 2 <= MaxEvents /\ count' = count + 2
      /\ UNCHANGED <<ui, native, view, panic, suspended, commands, wGeneration,
                     wasSuspended, restorePaused, left, asked>>
  BY Zenon DEF Pull, Counted, Costs
<1>2. PlayInv /\ WindowTypes  BY DEF OwnInv
<1>3. c \in {<<Report("progress", 0)>>, <<>>} /\ x \in {<<Report("error", 0)>>, <<>>}
  BY Zenon
<1>4. Told(r, mpv.events, n)
  <2> HIDE DEF c, x
  <2>. QED  BY <1>2, <1>3, PulledTold
<1> HIDE DEF r
<1>5. renderReady' \in BOOLEAN  BY <1>1, Zenon
<1>6. UNCHANGED <<ui, generation, player, view, panic, suspended, commands, wGeneration,
                  wasSuspended, restorePaused, left>>
  BY <1>1, Zenon DEF native
<1>. QED  BY <1>1, <1>4, <1>5, <1>6, PulledOwn, Zenon

-----------------------------------------------------------------------------
LEMMA InitOwn == Init => OwnInv
<1> SUFFICES ASSUME Init PROVE OwnInv  OBVIOUS
<1>1. /\ ui = "open" /\ count = 0 /\ generation = 0
      /\ player = [loaded |-> FALSE, timed |-> FALSE, loading |-> FALSE,
                   failed |-> {}, ended |-> {}, paused |-> FALSE]
      /\ view = [pending |-> FALSE, active |-> FALSE, handled |-> {}, paused |-> FALSE]
      /\ panic = {} /\ suspended = FALSE
      /\ commands = <<>> /\ statuses = <<>> /\ frame = {}
      /\ worker = "none" /\ wGeneration = 0
      /\ renderReady = FALSE /\ wasSuspended = FALSE /\ restorePaused = FALSE
      /\ mpv = Idle
  BY DEF Init
<1>2. WindowTypes
  <2>1. suspended = (panic # {})  BY <1>1, Zenon
  <2>2. 0 \in Nat /\ 0 <= MaxEvents  BY PlayerAssumption
  <2>3. panic \in SUBSET BOOLEAN  BY <1>1
  <2>. QED  BY <1>1, <2>1, <2>2, <2>3, Zenon DEF WindowTypes
<1>3. /\ mpv \in LibrariesTo(0) /\ mpv.stage = "idle" /\ DOMAIN mpv.events = {}
      /\ DOMAIN commands = {} /\ DOMAIN statuses = {}
  <2>1. <<>> \in Seq(EventsTo(0)) /\ DOMAIN <<>> = {}  OBVIOUS
  <2>. QED  BY <1>1, <2>1 DEF LibrariesTo, Idle, NoEvents, Stages
<1>4. PlayTypes
  <2>1. player \in Players(0) /\ view \in Views(0)  BY <1>1 DEF Players, Views
  <2>3. /\ commands \in Seq(CommandsTo(0)) /\ Len(commands) <= CommandCapacity
        /\ statuses \in Seq(ReportsTo(0)) /\ Len(statuses) <= StatusCapacity
    BY <1>1, PlayerAssumption
  <2>. QED  BY <1>1, <1>3, <2>1, <2>3 DEF PlayTypes
<1>5. Labels  BY <1>1, <1>3 DEF Labels, Ordered
<1>6. Sequenced  BY <1>3 DEF Sequenced
<1>7. StatusInv(player, 0)
  <2>1. Fresh(player)  BY <1>1 DEF Fresh
  <2>2. Reaches /\ ReportsOwn(0) /\ LibraryOwn
    BY <1>1, <1>3 DEF Reaches, ReportsOwn, LibraryOwn
  <2>3. ReportsLoaded(player.loaded, 0) /\ EventsLoaded(player.loaded, 0)
    BY <1>3 DEF ReportsLoaded, EventsLoaded
  <2>. QED  BY <1>1, <2>1, <2>2, <2>3 DEF StatusInv
<1>. QED  BY <1>2, <1>4, <1>5, <1>6, <1>7 DEF OwnInv, PlayInv

LEMMA NextOwn == OwnInv /\ [Next]_vars => OwnInv'
<1> SUFFICES ASSUME OwnInv, [Next]_vars PROVE OwnInv'  OBVIOUS
<1>1. CASE Play  BY <1>1, PlayOwn
<1>2. CASE Stop  BY <1>2, StopOwn
<1>3. CASE SetPaused  BY <1>3, SetPausedOwn
<1>4. CASE Set  BY <1>4, SetOwn
<1>5. CASE Hide \/ Unsuspend \/ Joined \/ UNCHANGED vars  BY <1>5, WindowOwn
<1>6. CASE Shutdown  BY <1>6, ShutdownOwn
<1>7. CASE Restore  BY <1>7, RestoreOwn
<1>8. CASE \E late \in BOOLEAN : Tick(late)  BY <1>8, TickOwn
<1>9. CASE Stall  BY <1>9, StallOwn
<1>10. CASE Start  BY <1>10, StartOwn
<1>11. CASE TurnCommand  BY <1>11, TurnCommandOwn
<1>12. CASE TurnIdle  BY <1>12, TurnIdleOwn
<1>13. CASE TurnEnds  BY <1>13, TurnEndsOwn
<1>14. CASE End  BY <1>14, EndOwn
<1>15. CASE \E n \in 0..Len(mpv.events), video, progress \in BOOLEAN,
                end \in {"none", "render error", "shut down"} : Pull(n, video, progress, end)
  BY <1>15, PullOwn
<1>16. CASE Opens \/ Breaks \/ Finishes  BY <1>16, LibraryOwns
<1>17. CASE PlayUnplayable  BY <1>17, UnplayableOwn
<1>. QED
  BY <1>1, <1>2, <1>3, <1>4, <1>5, <1>6, <1>7, <1>8, <1>9, <1>10, <1>11, <1>12, <1>13,
     <1>14, <1>15, <1>16, <1>17
  DEF Next, User, Worker

LEMMA OwnTypes == OwnInv => TypeOK
<1> SUFFICES ASSUME OwnInv PROVE TypeOK  OBVIOUS
<1>1. WindowTypes /\ PlayTypes  BY DEF OwnInv, PlayInv
<1>2. generation \in Nat /\ Media = 0..generation  BY <1>1 DEF PlayTypes, Media
<1>4. /\ player \in [loaded : BOOLEAN, timed : BOOLEAN, loading : BOOLEAN,
                     failed : SUBSET Media, ended : SUBSET Media, paused : BOOLEAN]
      /\ view \in [pending : BOOLEAN, active : BOOLEAN, handled : SUBSET Media,
                   paused : BOOLEAN]
  BY <1>1, <1>2 DEF PlayTypes, Players, Views
<1>5. frame \in SUBSET Media /\ wGeneration \in Media  BY <1>1, <1>2 DEF PlayTypes
<1>. QED  BY <1>1, <1>2, <1>4, <1>5 DEF TypeOK, WindowTypes, PlayTypes

LEMMA OwnStatus == OwnInv => StatusIsOwn
<1> SUFFICES ASSUME OwnInv PROVE StatusIsOwn  OBVIOUS
<1>1. StatusInv(player, 0)  BY DEF OwnInv, PlayInv
<1>2. ASSUME NEW m \in player.ended \ {generation}, player.failed = {}
      PROVE  {[kind |-> k, medium |-> m] : k \in {"loaded", "eof"}} \subseteq left
  <2>1. Own(m, "eof") /\ Own(m, "loaded")  BY <1>1, <1>2 DEF StatusInv
  <2>. QED  BY <1>2, <2>1 DEF Own
<1>3. ASSUME NEW m \in player.failed \ {generation}
      PROVE  [kind |-> "broke", medium |-> m] \in left
  BY <1>1, <1>3 DEF StatusInv, Fresh, Own
<1>. QED  BY <1>2, <1>3 DEF StatusIsOwn

\* Every variable keeps its type and the queues their capacities, and neither the
\* worker nor a status is ever ahead of the window's generation (TypeOK).
THEOREM TypeCorrect == Spec => []TypeOK
<1>. QED  BY InitOwn, NextOwn, OwnTypes, PTL DEF Spec

\* A status is about the medium that is played now.  The generations that the
\* worker's labels and the window's filter compare leave only what libmpv had
\* announced, and the worker had not pulled, when the medium was replaced
\* (player.rs, drain_events and player_worker) (StatusIsOwn).
THEOREM StatusBelongs == Spec => []StatusIsOwn
<1>. QED  BY InitOwn, NextOwn, OwnStatus, PTL DEF Spec
=============================================================================
