---------------------------- MODULE RemoteListener ----------------------------
(***************************************************************************)
(* The HTTP listeners of the host (src/remote.rs).                         *)
(*                                                                         *)
(* One port is served on the loopback addresses or, when the user has      *)
(* enabled LAN access, on the wildcard; in the former mode also on each    *)
(* address that Tailscale reports.  The start of the program, changes of   *)
(* the setting and a refresher that wakes every fifteen seconds reconcile  *)
(* the sockets with the setting and with Tailscale, some of it under       *)
(* start_lock.  A listener that is cancelled closes its socket, waits for  *)
(* its requests and only then takes its address off bound_addresses.       *)
(*                                                                         *)
(* Tailscale's addresses are IPv4.  Another program may take the port on   *)
(* an interface of the host or on all of them.  A bind fails for no other  *)
(* reason.  The port itself never changes.  An operator introduced by      *)
(* "Fault:" is a variant of the definition after it with a bug that a      *)
(* property must catch.                                                    *)
(***************************************************************************)
EXTENDS Naturals, FiniteSets

CONSTANTS
  Tail,        \* the addresses Tailscale may report
  Caller,      \* requests and windows that change the setting
  Main,        \* the start of the program
  Refresher,   \* the task of spawn_listener_refresher
  V6,          \* whether the host has the IPv6 loopback
  MaxChanges,  \* bound: changes of the setting
  MaxEvents,   \* bound: changes of Tailscale, and of the other program
  MaxLong,     \* bound: listeners with requests that outlive their socket
  None         \* no task, no address

(* What is assumed of the constants; the theorem states it. *)
ListenerAssumption ==
  /\ Main \notin Caller \cup {Refresher, None}
  /\ Refresher \notin Caller \cup {None}
  /\ None \notin Caller \cup Tail
  /\ Tail \cap {"v4", "v6", "any"} = {}
  /\ V6 \in BOOLEAN
  /\ MaxChanges \in Nat
  /\ MaxEvents \in Nat
  /\ MaxLong \in Nat

Task     == Caller \cup {Main, Refresher}
Loopback == IF V6 THEN {"v4", "v6"} ELSE {"v4"}
Primary  == Loopback \cup {"any"}

VARIABLES
  lan,         \* settings.lan_access_enabled
  sock,        \* sock[a]: the socket that listens on the primary address a
  draining,    \* draining[a]: closed ones that still have requests
  extra,       \* extra_listeners, and what has become of each
  bound,       \* bound_addresses
  primary,     \* whether a cancellation token is kept for the primaries
  primaryLan,  \* primary_lan
  startLock,   \* who holds start_lock
  task,        \* task[t]: where the task is and what it knows
  tailnet,     \* what Tailscale reports
  foreign,     \* where another program has the port
  shutdown,
  count        \* changes, events and long requests so far

sockets == <<sock, draining, extra, bound>>
world   == <<lan, tailnet, foreign, shutdown, count>>
vars    == <<sockets, primary, primaryLan, startLock, task, world>>

Running == bound # {}

-----------------------------------------------------------------------------
(* Sockets. *)

Listening == {"open", "closing"}

CanBind(lanMode) ==
  /\ sock["v4"] = "none"
  /\ sock["any"] = "none"
  /\ IF lanMode
     THEN foreign = "none" /\ \A a \in Tail : extra[a] \notin Listening
     ELSE foreign # "host"

(* A primary address is bound and registered. *)
Open(a) ==
  /\ sock' = [sock EXCEPT ![a] = "open"]
  /\ bound' = bound \cup {a}

(* A token is cancelled, also the one of a listener that is yet to come.   *)
Revoked(state) ==
  CASE state = "reserved" -> "revoked"
    [] state = "open"     -> "closing"
    [] OTHER              -> state

CancelExtras(S) ==
  extra' = [a \in Tail |-> IF a \in S THEN Revoked(extra[a]) ELSE extra[a]]

(* The accept loop ends.  Without requests the address is unregistered.    *)
Close(a) ==
  /\ sock[a] = "closing" \/ (shutdown /\ sock[a] = "open")
  /\ sock' = [sock EXCEPT ![a] = "none"]
  /\ \/ /\ bound' = bound \ {a}
        /\ UNCHANGED <<draining, count>>
     \/ /\ count.long < MaxLong
        /\ count' = [count EXCEPT !.long = @ + 1]
        /\ draining' = [draining EXCEPT ![a] = @ + 1]
        /\ UNCHANGED bound
  /\ UNCHANGED <<lan, extra, primary, primaryLan, startLock, task, tailnet,
                 foreign, shutdown>>

(* Whoever listens there by now. *)
Drained(a) ==
  /\ draining[a] > 0
  /\ draining' = [draining EXCEPT ![a] = @ - 1]
  /\ bound' = bound \ {a}
  /\ UNCHANGED <<sock, extra, primary, primaryLan, startLock, task, world>>

CloseExtra(a) ==
  /\ extra[a] = "closing" \/ (shutdown /\ extra[a] = "open")
  /\ \/ /\ extra' = [extra EXCEPT ![a] = "none"]
        /\ bound' = bound \ {a}
        /\ UNCHANGED count
     \/ /\ count.long < MaxLong
        /\ count' = [count EXCEPT !.long = @ + 1]
        /\ extra' = [extra EXCEPT ![a] = "draining"]
        /\ UNCHANGED bound
  /\ UNCHANGED <<lan, sock, draining, primary, primaryLan, startLock, task,
                 tailnet, foreign, shutdown>>

DrainedExtra(a) ==
  /\ extra[a] = "draining"
  /\ extra' = [extra EXCEPT ![a] = "none"]
  /\ bound' = bound \ {a}
  /\ UNCHANGED <<sock, draining, primary, primaryLan, startLock, task, world>>

-----------------------------------------------------------------------------
(* Tasks.  want: the mode a caller saw in the settings, or the one that is *)
(* being bound; starts: by start_primary, and not by swap_primary; todo,   *)
(* cur: the addresses to be served, and the one whose key is reserved.     *)

Resting == [pc |-> "idle", want |-> FALSE, starts |-> FALSE, todo |-> {},
            cur |-> None]

Goes(t, pc) == task' = [task EXCEPT ![t].pc = pc]
Rests(t)    == task' = [task EXCEPT ![t] = Resting]

(* A task is done and drops start_lock. *)
Released(t) == Rests(t) /\ startLock' = None

(* The end of refresh_tailscale_listeners.  Who holds the lock is at the   *)
(* end of start_primary or of swap_primary, the first of which spawns the  *)
(* refresher; the refresher itself goes on to the LAN mode.                *)
TailEnds(t) ==
  IF startLock = t
  THEN /\ startLock' = None
       /\ task' = [task EXCEPT ![t] = Resting,
            ![Refresher].pc = IF @ = "off" \/ t = Refresher THEN "idle" ELSE @]
  ELSE /\ Goes(t, "compare")
       /\ UNCHANGED startLock

TailCheck(t) ==
  /\ task[t].pc = "tail"
  /\ IF primaryLan
     THEN CancelExtras(Tail) /\ TailEnds(t)
     ELSE Goes(t, "detect") /\ UNCHANGED <<extra, startLock>>
  /\ UNCHANGED <<sock, draining, bound, primary, primaryLan, world>>

(* The answer of the tailscale command. *)
Detect(t) ==
  /\ task[t].pc = "detect"
  /\ CancelExtras(Tail \ tailnet)
  /\ task' = [task EXCEPT ![t].pc = "extras", ![t].todo = tailnet]
  /\ UNCHANGED <<sock, draining, bound, primary, primaryLan, startLock, world>>

Reserve(t, a) ==
  /\ task[t].pc = "extras"
  /\ task[t].cur = None
  /\ a \in task[t].todo
  /\ IF extra[a] = "none"
     THEN /\ extra' = [extra EXCEPT ![a] = "reserved"]
          /\ task' = [task EXCEPT ![t].todo = @ \ {a}, ![t].cur = a]
     ELSE /\ task' = [task EXCEPT ![t].todo = @ \ {a}]
          /\ UNCHANGED extra
  /\ UNCHANGED <<sock, draining, bound, primary, primaryLan, startLock, world>>

BindExtra(t) ==
  LET a == task[t].cur
  IN  /\ a # None
      /\ task' = [task EXCEPT ![t].cur = None]
      /\ IF sock["any"] = "none" /\ foreign # "host"
         THEN /\ extra' = [extra EXCEPT ![a] =
                            IF @ = "reserved" THEN "open" ELSE "closing"]
              /\ bound' = bound \cup {a}
         ELSE /\ extra' = [extra EXCEPT ![a] = "none"]
              /\ UNCHANGED bound
      /\ UNCHANGED <<sock, draining, primary, primaryLan, startLock, world>>

ExtrasDone(t) ==
  /\ task[t].pc = "extras"
  /\ task[t].cur = None
  /\ task[t].todo = {}
  /\ TailEnds(t)
  /\ UNCHANGED <<sockets, primary, primaryLan, world>>

(* refresh_lan_listener, up to one of the two locks. *)
Compare(t) ==
  /\ task[t].pc = "compare"
  /\ IF lan = primaryLan THEN Rests(t)
     ELSE task' = [task EXCEPT ![t].want = lan,
                     ![t].pc = IF Running THEN "swap" ELSE "restart"]
  /\ UNCHANGED <<sockets, primary, primaryLan, startLock, world>>

(* start_lock, for start_primary, unless another has started meanwhile.    *)
Restart(t) ==
  /\ task[t].pc = "restart"
  /\ startLock = None
  /\ IF Running
     THEN Rests(t) /\ UNCHANGED startLock
     ELSE Goes(t, "setting") /\ startLock' = t
  /\ UNCHANGED <<sockets, primary, primaryLan, world>>

(* start_primary reads the setting once more.                              *)
ReadSetting(t) ==
  /\ task[t].pc = "setting"
  /\ task' = [task EXCEPT ![t].pc = "start", ![t].want = lan, ![t].starts = TRUE]
  /\ UNCHANGED <<sockets, primary, primaryLan, startLock, world>>

(* swap_primary, up to its wait. *)
Swap(t) ==
  /\ task[t].pc = "swap"
  /\ startLock = None
  /\ IF task[t].want = primaryLan \/ ~Running
     THEN Rests(t) /\ UNCHANGED <<sock, extra, primary, startLock>>
     ELSE /\ sock' = [a \in Primary |-> IF primary THEN Revoked(sock[a])
                                        ELSE sock[a]]
          /\ CancelExtras(Tail)
          /\ primary' = FALSE
          /\ startLock' = t
          /\ Goes(t, "waiting")
  /\ UNCHANGED <<draining, bound, primaryLan, world>>

(* Nothing is bound any more, or two seconds have passed, in which every   *)
(* accept loop that was cancelled has closed its socket.                   *)
WaitEnds(t) ==
  /\ task[t].pc = "waiting"
  /\ \A a \in Primary : sock[a] # "closing"
  /\ \A a \in Tail : extra[a] # "closing"
  /\ Goes(t, "bind")
  /\ UNCHANGED <<sockets, primary, primaryLan, startLock, world>>

(* The next mode to try when one cannot be bound: a swap restores the      *)
(* previous one; a start, and a swap that has tried both, give up.         *)
Unbound(t) ==
  IF task[t].pc = "bind"
  THEN /\ task' = [task EXCEPT ![t].pc = "restore", ![t].want = ~@]
       /\ UNCHANGED startLock
  ELSE Released(t)

(* The first socket of spawn_primary_set. *)
BindPrimary(t) ==
  LET mode == task[t].want
  IN  /\ task[t].pc \in {"start", "bind", "restore"}
      /\ IF CanBind(mode)
         THEN /\ Open(IF mode THEN "any" ELSE "v4")
              /\ Goes(t, IF mode THEN "bound" ELSE "second")
              /\ UNCHANGED startLock
         ELSE Unbound(t) /\ UNCHANGED <<sock, bound>>
      /\ UNCHANGED <<draining, extra, primary, primaryLan, world>>

(* The IPv6 loopback, if it can be had. *)
BindSecond(t) ==
  /\ task[t].pc = "second"
  /\ IF V6 /\ sock["v6"] = "none" THEN Open("v6") ELSE UNCHANGED <<sock, bound>>
  /\ Goes(t, "bound")
  /\ UNCHANGED <<draining, extra, primary, primaryLan, startLock, world>>

(* set_primary.  Tailscale's addresses come next, but for a swap to LAN.   *)
SetPrimary(t) ==
  /\ task[t].pc = "bound"
  /\ primary' = TRUE
  /\ primaryLan' = task[t].want
  /\ IF task[t].want /\ ~task[t].starts THEN Released(t)
     ELSE Goes(t, "tail") /\ UNCHANGED startLock
  /\ UNCHANGED <<sockets, world>>

TaskStep(t) ==
  \/ TailCheck(t) \/ Detect(t) \/ (\E a \in Tail : Reserve(t, a))
  \/ BindExtra(t) \/ ExtrasDone(t) \/ Compare(t) \/ Restart(t)
  \/ ReadSetting(t) \/ Swap(t) \/ WaitEnds(t) \/ BindPrimary(t)
  \/ BindSecond(t) \/ SetPrimary(t)

(* The refresher's sleep ends.  The program's end ends the refresher.      *)
Wake ==
  /\ task[Refresher].pc = "idle"
  /\ Goes(Refresher, IF shutdown THEN "ended" ELSE "tail")
  /\ UNCHANGED <<sockets, primary, primaryLan, startLock, world>>

-----------------------------------------------------------------------------
(* The user, Tailscale, and other programs. *)

(* apply_settings_patch *)
ChangeSetting(c) ==
  /\ ~shutdown
  /\ task[c].pc = "idle"
  /\ task[Main].pc = "idle"
  /\ count.changes < MaxChanges
  /\ count' = [count EXCEPT !.changes = @ + 1]
  /\ lan' = ~lan
  /\ Goes(c, "compare")
  /\ UNCHANGED <<sockets, primary, primaryLan, startLock, tailnet, foreign,
                 shutdown>>

Event ==
  /\ count.events < MaxEvents
  /\ count' = [count EXCEPT !.events = @ + 1]

TailnetChanges ==
  /\ Event
  /\ tailnet' \in SUBSET Tail \ {tailnet}
  /\ UNCHANGED <<lan, sockets, primary, primaryLan, startLock, task, foreign,
                 shutdown>>

ForeignBinds ==
  /\ foreign = "none"
  /\ sock["any"] = "none"
  /\ Event
  /\ \/ foreign' = "interface"
     \/ /\ sock["v4"] = "none"
        /\ \A a \in Tail : extra[a] \notin Listening
        /\ foreign' = "host"
  /\ UNCHANGED <<lan, sockets, primary, primaryLan, startLock, task, tailnet,
                 shutdown>>

ForeignLeaves ==
  /\ foreign # "none"
  /\ foreign' = "none"
  /\ UNCHANGED <<lan, sockets, primary, primaryLan, startLock, task, tailnet,
                 shutdown, count>>

Shutdown ==
  /\ ~shutdown
  /\ task[Main].pc = "idle"
  /\ shutdown' = TRUE
  /\ UNCHANGED <<lan, sockets, primary, primaryLan, startLock, task, tailnet,
                 foreign, count>>

-----------------------------------------------------------------------------

(* The setting is the one that was saved. *)
Init ==
  /\ lan \in BOOLEAN
  /\ sock = [a \in Primary |-> "none"]
  /\ draining = [a \in Primary |-> 0]
  /\ extra = [a \in Tail |-> "none"]
  /\ bound = {}
  /\ primary = FALSE
  /\ primaryLan = FALSE
  /\ startLock = None
  /\ task = [t \in Task |-> [Resting EXCEPT
       !.pc = IF t = Main THEN "restart"
              ELSE IF t = Refresher THEN "off" ELSE "idle"]]
  /\ tailnet = {}
  /\ foreign = "none"
  /\ shutdown = FALSE
  /\ count = [changes |-> 0, events |-> 0, long |-> 0]

SocketStep ==
  \/ \E a \in Primary : Close(a) \/ Drained(a)
  \/ \E a \in Tail : CloseExtra(a) \/ DrainedExtra(a)

Next ==
  \/ SocketStep
  \/ \E t \in Task : TaskStep(t)
  \/ \E c \in Caller : ChangeSetting(c)
  \/ Wake \/ TailnetChanges \/ ForeignBinds \/ ForeignLeaves \/ Shutdown

(* Tasks go on, requests end, and so do other programs.                    *)
Fairness ==
  /\ \A a \in Primary : WF_vars(Close(a)) /\ WF_vars(Drained(a))
  /\ \A a \in Tail : WF_vars(CloseExtra(a)) /\ WF_vars(DrainedExtra(a))
  /\ \A t \in Task : WF_vars(TaskStep(t))
  /\ WF_vars(Wake)
  /\ WF_vars(ForeignLeaves)

Spec == Init /\ [][Next]_vars /\ Fairness

-----------------------------------------------------------------------------
(* Properties. *)

Replacing == {"setting", "start", "waiting", "bind", "restore", "second", "bound"}

(* Types; only the holder of start_lock replaces the primaries, and a key  *)
(* is reserved for as long as somebody is about to bind its address.       *)
TypeOK ==
  /\ lan \in BOOLEAN
  /\ sock \in [Primary -> Listening \cup {"none"}]
  /\ draining \in [Primary -> 0..MaxLong]
  /\ extra \in [Tail -> {"none", "reserved", "revoked", "open", "closing",
                         "draining"}]
  /\ bound \subseteq Primary \cup Tail
  /\ primary \in BOOLEAN
  /\ primaryLan \in BOOLEAN
  /\ startLock \in Task \cup {None}
  /\ task \in [Task ->
       [pc : {"off", "idle", "tail", "detect", "extras", "compare", "restart",
              "swap", "ended"} \cup Replacing,
        want : BOOLEAN, starts : BOOLEAN, todo : SUBSET Tail, cur : Tail \cup {None}]]
  /\ tailnet \subseteq Tail
  /\ foreign \in {"none", "interface", "host"}
  /\ shutdown \in BOOLEAN
  /\ count \in [changes : 0..MaxChanges, events : 0..MaxEvents,
                long : 0..MaxLong]
  /\ \A t \in Task : task[t].pc \in Replacing => startLock = t
  /\ \A a \in Tail :
       extra[a] \in {"reserved", "revoked"} <=> \E t \in Task : task[t].cur = a

(* What the sockets should be.                                             *)
Served ==
  IF lan THEN sock["any"] = "open"
  ELSE /\ sock["v4"] = "open"
       /\ \A a \in Tail : extra[a] = "open" <=> a \in tailnet

(* A program that could not start its listeners has no refresher.          *)
Settled == Served \/ shutdown \/ task[Refresher].pc = "off"

(* Whatever callers, the refresher, slow requests and another program do,  *)
(* the host ends up with the sockets of the mode that was set last, and in *)
(* loopback mode with exactly those of Tailscale: "so the host is never    *)
(* left with no primary bound; the next refresh cycle retries the          *)
(* requested mode" (remote.rs:440-443), also "after a double bind failure" *)
(* (remote.rs:390-393).                                                    *)
ModeIsServed == <>[]Settled
=============================================================================
