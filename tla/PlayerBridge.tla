------------------------------ MODULE PlayerBridge ------------------------------
(***************************************************************************)
(* The embedded player of the desktop application                          *)
(* (desktop/src/player.rs, and its use in desktop/src/lib.rs).             *)
(*                                                                         *)
(* The user interface runs on one thread: events of the user, the panic    *)
(* key and a tick every 50 ms.  A worker thread owns libmpv.  They share   *)
(* two bounded queues, a slot for a frame and the flag "suspended"; the    *)
(* user interface never waits for the worker, except to join it at the     *)
(* end.  The worker labels what libmpv reports with the generation of the  *)
(* command it took last, and the user interface ignores other generations. *)
(*                                                                         *)
(* A medium is named by the generation of the Load that names it.  Volume, *)
(* speed, position and repeat are one command, "set"; still images do not  *)
(* reach libmpv and are left out, as are the feeds that choose the next    *)
(* medium.  The window takes no input while the panic key hides it.  An    *)
(* operator introduced by "Fault:" is a variant of the definition after it *)
(* with a bug that a property must catch.                                  *)
(***************************************************************************)
EXTENDS Naturals, SequencesExt

CONSTANTS
  MaxLoads,         \* bound: nothing is played from this generation on
  MaxEvents,        \* bound: what happens besides Play (Costs)
  CommandCapacity,  \* COMMAND_QUEUE_CAPACITY
  StatusCapacity    \* STATUS_QUEUE_CAPACITY

ASSUME PlayerAssumption ==
  /\ MaxLoads \in Nat
  /\ MaxEvents \in Nat
  /\ CommandCapacity \in Nat \ {0}
  /\ StatusCapacity \in Nat \ {0}

VARIABLES
  ui,             \* what the user interface's thread is doing
  count,          \* what it came to so far
  generation,     \* NativePlayer: its generation, and
  player,         \*   its loaded, loading_since and status
  view,           \* PlayerHolder, and the pause button of the window
  panic,          \* the pause state kept while the window is hidden
  suspended,      \* the flag the two threads share
  commands,       \* the queue to the worker
  statuses,       \* the queue from it
  frame,          \* the frame queue, of capacity one
  worker,         \* what the worker's thread is doing
  wGeneration,    \* its locals: generation, render_ready,
  renderReady,    \*   was_suspended and restore_paused
  wasSuspended,
  restorePaused,
  mpv,            \* libmpv: its medium, pause property and pending events
  left,           \* history: events pending when wGeneration last changed,
                  \*   and those of a medium that a refused command left in place
  lost,           \* history: a report of the medium met a full queue, or its
                  \*   end was acted on and the flag that says so is gone
  asked           \* history: the pause states, as commands, that may be in force

native   == <<generation, player>>
shared   == <<commands, statuses, frame>>
locals   == <<wGeneration, renderReady, wasSuspended, restorePaused>>
history  == <<left, lost, asked>>
vars     == <<ui, count, native, view, panic, suspended, shared, worker, locals, mpv, history>>

Receiving == {"starting", "turn", "pull", "ending"}  \* the queue has a receiver
NoEvents  == <<>>
Idle      == [medium |-> 0, stage |-> "idle", paused |-> FALSE, events |-> NoEvents]

Init ==
  /\ ui = "open"
  /\ count = 0
  /\ generation = 0
  /\ player = [loaded |-> FALSE, timed |-> FALSE, loading |-> FALSE,
               failed |-> {}, ended |-> {}, paused |-> FALSE]
  /\ view = [pending |-> FALSE, active |-> FALSE, handled |-> {}, paused |-> FALSE]
  /\ panic = {}
  /\ suspended = FALSE
  /\ commands = <<>> /\ statuses = <<>> /\ frame = {}
  /\ worker = "none"
  /\ wGeneration = 0
  /\ renderReady = FALSE /\ wasSuspended = FALSE /\ restorePaused = FALSE
  /\ mpv = Idle
  /\ left = {} /\ lost = FALSE /\ asked = {"resume"}

-----------------------------------------------------------------------------
(* NativePlayer.  player.failed, player.ended and view.handled hold the    *)
(* medium, if any, that the flag is about; the code keeps the flags only.  *)

\* A failure ends the load.  The first one names its medium.
Failed(p, media) == [p EXCEPT !.loading = FALSE, !.timed = FALSE,
                              !.failed = IF @ = {} THEN media ELSE @]

Command(g, kind) == [generation |-> g, kind |-> kind]

Pausing(paused) == IF paused THEN "pause" ELSE "resume"

\* Fault: the queue to the worker has no bound.
AcceptsAny(q) == worker \in Receiving

\* apply sends without waiting; a full queue, or none, fails the command.
Accepts(q) == worker \in Receiving /\ Len(q) < CommandCapacity

Sent(p, g, q, kind) ==
  IF Accepts(q) THEN [player |-> p, commands |-> Append(q, Command(g, kind))]
                ELSE [player |-> Failed(p, {g}), commands |-> q]

\* Fault: the new medium inherits that the old one was loaded.
RenewedLoaded(p) == [p EXCEPT !.ended = {}, !.failed = {}]

\* mark_loading
Renewed(p) == [p EXCEPT !.loaded = FALSE, !.ended = {}, !.failed = {}]

\* Fault: ended_handled is not reset.
PlayedHandled(p, g, q) ==
  LET loading == [Renewed(p) EXCEPT !.loading = TRUE, !.timed = TRUE, !.paused = FALSE]
      fresh   == worker \in {"none", "dead"}
      sent    == IF fresh THEN [player   |-> loading,
                                commands |-> <<Command(g + 1, "load")>>]
                          ELSE Sent(loading, g + 1, q, "load")
      ok      == fresh \/ Accepts(q)
  IN  [generation |-> g + 1, player |-> sent.player, commands |-> sent.commands,
       fresh |-> fresh, view |-> [view EXCEPT !.pending = ok, !.active = ok, !.paused = FALSE]]

\* play_media_item: Load replaces the status; a worker that is not there, or
\* whose thread is over, is started anew with queues of its own.
Played(p, g, q) ==
  LET loading == [Renewed(p) EXCEPT !.loading = TRUE, !.timed = TRUE, !.paused = FALSE]
      fresh   == worker \in {"none", "dead"}
      sent    == IF fresh THEN [player   |-> loading,
                                commands |-> <<Command(g + 1, "load")>>]
                          ELSE Sent(loading, g + 1, q, "load")
      ok      == fresh \/ Accepts(q)
  IN  [generation |-> g + 1, player |-> sent.player, commands |-> sent.commands,
       fresh |-> fresh, view |-> [pending |-> ok, active |-> ok, handled |-> {}, paused |-> FALSE]]

\* play_media_item without a source for the medium: the view has forgotten the
\* old one, the player has not.
Unplayable(p, g, q) ==
  [generation |-> g, player |-> p, commands |-> q, fresh |-> FALSE,
   view |-> [view EXCEPT !.pending = FALSE, !.active = TRUE, !.handled = {}]]

\* apply(Stop), and what its caller makes of the view.
Stopped(p, g, q, v) ==
  LET sent == Sent([Renewed(p) EXCEPT !.loading = FALSE, !.timed = FALSE], g + 1, q, "stop")
  IN  [generation |-> g + 1, player |-> sent.player, commands |-> sent.commands,
       fresh |-> FALSE, view |-> v]

\* At the end of the queue the view forgets the video; its own thirty seconds go
\* on, unless the command failed.
Emptied(v, q) == [v EXCEPT !.active = FALSE, !.pending = @ /\ Accepts(q)]

\* The outcome of an operation of the user interface becomes the state.
Becomes(o) ==
  /\ generation' = o.generation /\ player' = o.player
  /\ view' = o.view /\ commands' = o.commands
  /\ IF o.fresh
     THEN worker' = "starting" /\ asked' = {"resume"}
     ELSE UNCHANGED <<worker, asked>>

-----------------------------------------------------------------------------
(* Events of the user.                                                     *)

Visible == ui = "open" /\ panic = {}

\* A pause and the panic key are cheap, so that a run has them together; other
\* events of the user, failures and time limits are dear.
Costs(n) == count + n <= MaxEvents /\ count' = count + n

Counted == Costs(2)

Input == Visible /\ Counted

Play ==
  /\ Visible
  /\ generation < MaxLoads
  /\ LET o == Played(player, generation, commands)
     IN  /\ Becomes(o)
         /\ IF o.fresh THEN statuses' = <<>> /\ frame' = {}
                       ELSE UNCHANGED <<statuses, frame>>
  /\ UNCHANGED <<ui, count, panic, suspended, locals, mpv, left, lost>>

PlayUnplayable ==
  /\ Input
  /\ Becomes(Unplayable(player, generation, commands))
  /\ lost' = (lost \/ view.handled # {})
  /\ UNCHANGED <<ui, panic, suspended, statuses, frame, locals, mpv, left>>

\* A change of the mode, or the end of a queue or of a phase: some of the callers
\* forget the video, some end the view's thirty seconds, some show the status.
Stop ==
  /\ Input
  /\ generation < MaxLoads
  /\ \E video, waits \in BOOLEAN, paused \in {view.paused, player.paused} :
       Becomes(Stopped(player, generation, commands,
                       [view EXCEPT !.active  = @ /\ video,
                                    !.pending = @ /\ waits, !.paused = paused]))
  /\ UNCHANGED <<ui, panic, suspended, statuses, frame, locals, mpv, left, lost>>

\* The worker has not seen the end of a panic, and will give back what it found
\* after the next command that is sent.
GivesBack == wasSuspended /\ commands = <<>>

\* player_control: the button asks for the contrary of what it shows; without a
\* video it is all that changes.
SetPaused ==
  /\ Visible /\ Costs(1)
  /\ IF view.active
     THEN LET paused == ~view.paused
              sent   == Sent([player EXCEPT !.paused = paused], generation, commands,
                             Pausing(paused))
          IN  /\ player' = sent.player /\ commands' = sent.commands
              /\ asked' = CASE ~Accepts(commands) -> asked
                            [] Accepts(commands) /\ GivesBack -> {"pause", "resume"}
                            [] Accepts(commands) /\ ~GivesBack -> {Pausing(paused)}
     ELSE UNCHANGED <<player, commands, asked>>
  /\ view' = [view EXCEPT !.paused  = ~@,
                          !.pending = @ /\ (view.active => player'.failed = {})]
  /\ UNCHANGED <<ui, generation, panic, suspended, statuses, frame, worker, locals, mpv,
                 left, lost>>

\* Seek, SetVolume, SetSpeed and SetLoop are not guarded by a video.
Set ==
  /\ Input
  /\ LET sent == Sent(player, generation, commands, "set")
     IN  player' = sent.player /\ commands' = sent.commands
  /\ view' = [view EXCEPT !.paused = player.paused, !.pending = @ /\ player'.failed = {}]
  /\ UNCHANGED <<ui, generation, panic, suspended, statuses, frame, worker, locals, mpv,
                 history>>

\* panic_hide
Hide ==
  /\ Visible /\ Costs(1)
  /\ panic' = {view.paused}
  /\ suspended' = TRUE
  /\ UNCHANGED <<ui, native, view, shared, worker, locals, mpv, history>>

\* panic_restore clears the flag first, which the worker may see at once, ...
Unsuspend ==
  /\ ui = "open" /\ panic # {}
  /\ suspended' = FALSE
  /\ ui' = "restoring"
  /\ UNCHANGED <<count, native, view, panic, shared, worker, locals, mpv, history>>

\* Fault: the pause state of the snapshot is sent before the volume.
RestorePausedFirst ==
  /\ ui = "restoring"
  /\ ui' = "open" /\ panic' = {}
  /\ \E paused \in panic :
       /\ view' = [view EXCEPT !.paused = paused]
       /\ IF view.active
          THEN LET sent   == Sent([player EXCEPT !.paused = paused], generation, commands,
                                  Pausing(paused))
                   volume == Sent(sent.player, generation, sent.commands, "set")
               IN  /\ player' = volume.player /\ commands' = volume.commands
                   /\ asked' = IF Accepts(commands) THEN {Pausing(paused)}
                               ELSE {"pause", "resume"}
          ELSE asked' = {"pause", "resume"} /\ UNCHANGED <<player, commands>>
  /\ UNCHANGED <<count, generation, suspended, statuses, frame, worker, locals, mpv,
                 left, lost>>

\* ... and then sends the volume and the pause state of the snapshot.
Restore ==
  /\ ui = "restoring"
  /\ ui' = "open" /\ panic' = {}
  /\ \E paused \in panic :
       /\ view' = [view EXCEPT !.paused = paused]
       /\ IF view.active
          THEN LET volume == Sent(player, generation, commands, "set")
                   sent   == Sent([volume.player EXCEPT !.paused = paused], generation,
                                  volume.commands, Pausing(paused))
               IN  /\ player' = sent.player /\ commands' = sent.commands
                   /\ asked' = IF Accepts(volume.commands) THEN {Pausing(paused)}
                               ELSE {"pause", "resume"}
          ELSE asked' = {"pause", "resume"} /\ UNCHANGED <<player, commands>>
  /\ UNCHANGED <<count, generation, suspended, statuses, frame, worker, locals, mpv,
                 left, lost>>

\* apply(Shutdown): teardown sends Shutdown, if there is room, drops its ends of
\* the queues and joins the worker.
Shutdown ==
  /\ ui = "open" /\ Counted
  /\ ui' = "joining"
  /\ commands' = IF Accepts(commands) THEN Append(commands, Command(generation, "shutdown"))
                                      ELSE commands
  /\ statuses' = <<>> /\ frame' = {}
  /\ UNCHANGED <<native, view, panic, suspended, worker, locals, mpv, history>>

Joined ==
  /\ ui = "joining"
  /\ worker \in {"none", "dead"}
  /\ ui' = "closed"
  /\ UNCHANGED <<count, native, view, panic, suspended, shared, worker, locals, mpv, history>>

-----------------------------------------------------------------------------
(* The tick.  drain_events takes what is queued; it is one step here, as   *)
(* if all of it had been queued when the loop ends.                        *)

\* One report; of another generation it changes nothing, except a failure of
\* the worker to start.
Handled(p, e) ==
  CASE e.kind = "startup"                              -> Failed(p, {generation})
    [] e.kind # "startup"  /\ e.generation # generation -> p
    [] e.kind = "loaded"   /\ e.generation = generation ->
         [p EXCEPT !.loaded = TRUE, !.ended = {}]
    [] e.kind = "audio"    /\ e.generation = generation ->
         [p EXCEPT !.loading = FALSE, !.timed = FALSE]
    [] e.kind = "broke"    /\ e.generation = generation -> Failed(p, {e.medium})
    [] e.kind = "eof"      /\ e.generation = generation ->
         IF p.loaded THEN [p EXCEPT !.ended = {e.medium}] ELSE p
    [] e.kind = "replaced" /\ e.generation = generation -> p
    [] e.kind = "progress" /\ e.generation = generation -> [p EXCEPT !.paused = e.paused]
    [] e.kind = "error"    /\ e.generation = generation -> Failed(p, {generation})

Drained == FoldLeft(Handled, player, statuses)

News == \E e \in ToSet(statuses) : e.kind = "startup" \/ e.generation = generation

\* The first frame makes a video ready.
Shown(p) == IF p.loading /\ frame = {generation}
            THEN [p EXCEPT !.loading = FALSE, !.timed = FALSE] ELSE p

\* What the tick does with an end: the next medium that can be played, or the end
\* of the queue; in a review the user decides.
Advanced(p, g, q, v) ==
  LET handled == [v EXCEPT !.handled = p.ended]
      stop    == Stopped(p, g, q, Emptied(handled, q))
      next    == Played(p, g, q)
      none    == Unplayable(p, g, q)
  IN  {[generation |-> g, player |-> p, view |-> handled, commands |-> q, fresh |-> FALSE],
       none, Stopped(p, g, q, Emptied(none.view, q))}
      \cup
      IF g >= MaxLoads THEN {stop}
      ELSE {stop, IF next.view.active THEN next
                  ELSE Stopped(next.player, g + 1, q, Emptied(next.view, q))}

\* The last status, also after an advance, goes to the window and marks the
\* medium failed or ready.
Reported(v, p) ==
  [v EXCEPT !.active  = @ /\ p.failed = {},
            !.pending = @ /\ p.failed = {} /\ (p.loading \/ ~v.active),
            !.paused  = p.paused]

\* late: thirty seconds have passed; a new generation ignores what may still come.
Tick(late) ==
  /\ ui = "open"
  /\ late \/ statuses # <<>> \/ frame # {}
  /\ \E drained \in {Drained} : \E shown \in {Shown(drained)} :
       LET g       == IF late THEN generation + 1 ELSE generation
           status  == IF late THEN Failed(shown, {g}) ELSE shown
           queued  == IF late /\ Accepts(commands)
                      THEN Append(commands, Command(g, "stop")) ELSE commands
           news    == late \/ shown # drained \/ News
           advance == news /\ status.ended # {} /\ view.handled = {} /\ panic = {}
       IN  /\ late => shown.timed /\ ~suspended
           /\ \E o \in IF advance THEN Advanced(status, g, queued, view)
                       ELSE {[generation |-> g, player |-> status, view |-> view,
                              commands |-> queued, fresh |-> FALSE]} :
                /\ Becomes(IF news THEN [o EXCEPT !.view = Reported(@, status)] ELSE o)
                /\ lost' = (lost \/ (advance /\ o.generation = g /\ o.view.handled = {}))
  /\ statuses' = <<>> /\ frame' = {}
  /\ IF late THEN Counted ELSE UNCHANGED count
  /\ UNCHANGED <<ui, panic, suspended, locals, mpv, left>>

\* The view gives up on what is pending for thirty seconds on its own.
Stall ==
  /\ Visible
  /\ view.pending /\ Counted
  /\ Becomes(Stopped(player, generation, commands, [view EXCEPT !.pending = FALSE]))
  /\ UNCHANGED <<ui, panic, suspended, statuses, frame, locals, mpv, left, lost>>

-----------------------------------------------------------------------------
(* player_worker.                                                          *)

\* try_send of reports: what finds the queue full, or gone, is dropped.
Reports(reports) ==
  LET room == StatusCapacity - Len(statuses)
      kept == SubSeq(reports, 1, IF Len(reports) < room THEN Len(reports) ELSE room)
  IN  /\ statuses' = IF ui \in {"joining", "closed"} THEN <<>> ELSE statuses \o kept
      /\ lost' = (lost \/ \E i \in DOMAIN reports :
                            i > Len(kept) /\ reports[i].kind \in {"loaded", "eof"})

Report(kind, medium) ==
  [kind |-> kind, generation |-> wGeneration, medium |-> medium,
   paused |-> kind = "progress" /\ mpv.paused]

\* MpvInstance::create and create_renderer, either of which may fail.
Start ==
  /\ worker = "starting"
  /\ \/ /\ worker' = "turn"
        /\ UNCHANGED <<statuses, lost, count>>
     \/ /\ Counted
        /\ worker' = "ending"
        /\ Reports(<<Report("startup", 0)>>)
  /\ wGeneration' = 0
  /\ renderReady' = FALSE /\ wasSuspended' = FALSE /\ restorePaused' = FALSE
  /\ UNCHANGED <<ui, native, view, panic, suspended, commands, frame, mpv, left, asked>>

\* The flag is read after each command: pause and mute while it is set, and give
\* back what was found when it is cleared.
Suspending(m) ==
  /\ wasSuspended' = suspended
  /\ restorePaused' = IF suspended /\ ~wasSuspended THEN m.paused ELSE restorePaused
  /\ mpv' = [m EXCEPT !.paused = CASE suspended                  -> TRUE
                                   [] ~suspended /\ wasSuspended -> restorePaused
                                   [] ~suspended /\ ~wasSuspended -> @]

\* apply_worker_command
Replacing(m) ==
  IF m.stage \in {"opening", "playing"}
  THEN Append(m.events, [kind |-> "replaced", medium |-> m.medium]) ELSE m.events

Applied(m, c) ==
  CASE c.kind = "load"     -> [m EXCEPT !.medium = c.generation, !.stage = "opening",
                                        !.events = Replacing(m)]
    [] c.kind = "stop"     -> [m EXCEPT !.stage = "idle", !.events = Replacing(m)]
    [] c.kind = "pause"    -> [m EXCEPT !.paused = TRUE]
    [] c.kind = "resume"   -> [m EXCEPT !.paused = FALSE]
    [] c.kind = "set"      -> m

\* The events that may say something of a medium that it was replaced under.
Telling(events) == {e \in ToSet(events) : e.kind # "replaced"}

\* One command a turn, or none for 16 ms.  libmpv may refuse one, which is
\* reported, and leaves the medium or the pause as it was.
TurnCommand ==
  /\ worker = "turn"
  /\ commands # <<>>
  /\ LET c == Head(commands)
     IN  /\ c.kind # "shutdown"
         /\ wGeneration' = c.generation
         /\ renderReady' = (renderReady /\ c.kind \notin {"load", "stop"})
         /\ \/ /\ Suspending(Applied(mpv, c))
               /\ left' = IF c.generation # wGeneration THEN Telling(mpv.events) ELSE left
               /\ UNCHANGED <<statuses, count, asked>>
               /\ lost' = (lost /\ c.kind # "load")
            \/ /\ Counted
               /\ Suspending(mpv)
               /\ left' = IF c.generation = wGeneration THEN left
                          ELSE Telling(mpv.events) \cup
                            {[kind |-> k, medium |-> mpv.medium] : k \in {"loaded", "eof", "broke"}}
               /\ asked' = IF c.kind \in {"pause", "resume"} THEN {"pause", "resume"} ELSE asked
               /\ Reports(<<[Report("error", 0) EXCEPT !.generation = c.generation]>>)
  /\ commands' = Tail(commands)
  /\ worker' = "pull"
  /\ UNCHANGED <<ui, native, view, panic, suspended, frame>>

TurnIdle ==
  /\ worker = "turn"
  /\ commands = <<>> /\ ui # "joining"
  /\ Suspending(mpv)
  /\ worker' = "pull"
  /\ UNCHANGED <<ui, count, native, view, panic, suspended, shared, wGeneration, renderReady, history>>

\* Fault: a queue without its sender is an empty one.
TurnEndsOnCommand ==
  /\ worker = "turn"
  /\ commands # <<>> /\ Head(commands).kind = "shutdown"
  /\ worker' = "ending"
  /\ UNCHANGED <<ui, count, native, view, panic, suspended, shared, locals, mpv, history>>

\* Shutdown is taken, or the queue is empty and its sender gone.
TurnEnds ==
  /\ worker = "turn"
  /\ IF commands = <<>> THEN ui = "joining" ELSE Head(commands).kind = "shutdown"
  /\ worker' = "ending"
  /\ UNCHANGED <<ui, count, native, view, panic, suspended, shared, locals, mpv, history>>

\* The reports of the events that were pulled; a medium without video is ready
\* when it is loaded.
Labelled(pulled, video) ==
  FlattenSeq([i \in DOMAIN pulled |->
    LET report == Report(pulled[i].kind, pulled[i].medium)
    IN  IF report.kind = "loaded" /\ ~video THEN <<report, Report("audio", 0)>>
                                            ELSE <<report>>])

\* Pull the first n events (an event of another kind ends the loop early), then
\* report the progress every 100 ms and render.  A video has a frame, which is
\* dropped when the last one has not been taken; rendering may fail, and libmpv
\* may shut down, which ends the worker.
Pull(n, video, progress, end) ==
  /\ worker = "pull"
  /\ \E pulled \in {SubSeq(mpv.events, 1, n)} :
     \E ready  \in {renderReady \/ \E e \in ToSet(pulled) : e.kind = "loaded"} :
       /\ progress => ready /\ end # "shut down"
       /\ end = "render error" => ready
       /\ Reports(Labelled(pulled, video)
                    \o (IF progress THEN <<Report("progress", 0)>> ELSE <<>>)
                    \o (IF end = "render error" THEN <<Report("error", 0)>> ELSE <<>>))
       /\ mpv' = [mpv EXCEPT !.events = SubSeq(@, n + 1, Len(@))]
       /\ renderReady' = ready
       /\ frame' = IF /\ frame = {} /\ ready /\ video /\ end = "none"
                      /\ ui \notin {"joining", "closed"}
                   THEN {wGeneration} ELSE frame
  /\ IF end = "none" THEN worker' = "turn" /\ UNCHANGED count
                     ELSE worker' = "ending" /\ Counted
  /\ UNCHANGED <<ui, native, view, panic, suspended, commands, wGeneration,
                 wasSuspended, restorePaused, left, asked>>

\* The locals are dropped, libmpv with them, and at last the receiver.
End ==
  /\ worker = "ending"
  /\ worker' = "dead"
  /\ mpv' = Idle
  /\ commands' = <<>>
  /\ UNCHANGED <<ui, count, native, view, panic, suspended, statuses, frame, locals, history>>

-----------------------------------------------------------------------------
(* libmpv, external.                                                       *)

Happens(stage, kind) ==
  /\ worker \in {"turn", "pull"}
  /\ mpv' = [mpv EXCEPT !.stage  = stage,
                        !.events = Append(@, [kind |-> kind, medium |-> mpv.medium])]
  /\ UNCHANGED <<ui, native, view, panic, suspended, shared, worker, locals, history>>

Opens    == mpv.stage = "opening" /\ Happens("playing", "loaded") /\ UNCHANGED count
Breaks   == mpv.stage \in {"opening", "playing"} /\ Happens("idle", "broke") /\ Counted
Finishes == mpv.stage = "playing" /\ ~mpv.paused /\ Happens("ended", "eof") /\ UNCHANGED count

-----------------------------------------------------------------------------
User == Play \/ PlayUnplayable \/ Stop \/ SetPaused \/ Set \/ Hide \/ Shutdown

Worker == \/ Start \/ TurnCommand \/ TurnIdle \/ TurnEnds \/ End
          \/ \E n \in 0..Len(mpv.events), video, progress \in BOOLEAN,
               end \in {"none", "render error", "shut down"} : Pull(n, video, progress, end)

Next == \/ User \/ Unsuspend \/ Restore \/ Joined
        \/ \E late \in BOOLEAN : Tick(late)
        \/ Stall \/ Worker
        \/ Opens \/ Breaks \/ Finishes

Spec == Init /\ [][Next]_vars

\* The timer ticks, the worker's thread runs, and it comes to the end of libmpv's
\* events and to the next progress report again and again.  Nothing makes the
\* user or libmpv act, or a time limit be reached.
Fairness ==
  /\ WF_vars(Tick(FALSE))
  /\ WF_vars(Restore) /\ WF_vars(Joined)
  /\ WF_vars(Start \/ TurnCommand \/ TurnIdle \/ TurnEnds \/ End)
  /\ SF_vars(Pull(Len(mpv.events), TRUE, renderReady, "none"))

FairSpec == Spec /\ Fairness

-----------------------------------------------------------------------------
(* Properties.                                                             *)

Media == 0..generation

\* Every variable has its type, and the queues keep to their capacities.
TypeOK ==
  /\ ui \in {"open", "restoring", "joining", "closed"} /\ count <= MaxEvents
  /\ generation \in Nat
  /\ player \in [loaded : BOOLEAN, timed : BOOLEAN, loading : BOOLEAN,
                 failed : SUBSET Media, ended : SUBSET Media, paused : BOOLEAN]
  /\ view \in [pending : BOOLEAN, active : BOOLEAN, handled : SUBSET Media, paused : BOOLEAN]
  /\ panic \in SUBSET BOOLEAN /\ suspended \in BOOLEAN
  /\ ui = "open" => suspended = (panic # {})
  /\ Len(commands) <= CommandCapacity /\ Len(statuses) <= StatusCapacity
  /\ frame \in SUBSET Media
  /\ worker \in Receiving \cup {"none", "dead"}
  /\ wGeneration \in Media

\* A status is about the medium that is played now: an end or a failure of a
\* medium that was replaced counts for its successor only when libmpv had
\* announced it, for an end also that the medium was loaded, and the worker had
\* pulled neither when it took the command that replaced it (player.rs:112-113).
\* After a refused Load or Stop the worker plays what it played, and the status is
\* "failed" until the next one.
StatusIsOwn ==
  /\ \A m \in player.ended \ {generation} :
       \/ player.failed # {}
       \/ {[kind |-> k, medium |-> m] : k \in {"loaded", "eof"}} \subseteq left
  /\ \A m \in player.failed \ {generation} : [kind |-> "broke", medium |-> m] \in left

\* Once the worker has taken everything, libmpv is paused or not as the last
\* pause or resume that was sent said: it wins over what the worker gives back
\* when a panic ends, in whatever order the worker sees the commands and the flag
\* (panic_restore).  Either may be once it was refused, and after a panic that hid
\* no video: what is sent before the worker has seen its end may be undone.
PauseIsRestored ==
  /\ ui = "open" /\ worker \in {"turn", "pull"}
  /\ commands = <<>> /\ ~suspended /\ ~wasSuspended
  => Pausing(mpv.paused) \in asked

\* A medium that ends is followed by what its mode plays next, also when it ends
\* just under the panic key: the view takes note of its end, or something else is
\* played.  Not so when a report of it met a full queue, the worker died, or the
\* end of a replaced medium was taken for its own.
EndAdvances ==
  mpv.stage = "ended" /\ mpv.medium = generation
    ~> \/ mpv.medium # generation
       \/ \E m \in view.handled : m = mpv.medium \/ [kind |-> "eof", medium |-> m] \in left
       \/ lost \/ panic # {} \/ ui # "open" \/ worker \in {"ending", "dead"}

\* The application's end waits for the worker, and the worker ends, whether or
\* not there was room for the command to shut down.
ShutdownEnds == ui = "joining" ~> ui = "closed"
=============================================================================
