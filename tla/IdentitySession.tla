-------------------------- MODULE IdentitySession --------------------------
(***************************************************************************)
(* The identity session and its lifecycle lock: starting, switching with   *)
(* roll-back, unlocking, auto-lock, restarting, passcodes, importing and   *)
(* removing identities (the identity and hardware commands of              *)
(* ratspeak-tauri; init, shutdown and auto-lock of ratspeak-runtime).      *)
(*                                                                         *)
(* One lock serializes the transitions.  What they share stays in places   *)
(* that nobody writes together: the active row of the database, the loaded *)
(* manager, the lock mark, a retained unlock, a staged secret, the slot of *)
(* the auto-lock, the session generation.  Requests are prepared outside   *)
(* of the lock and carry a fence, commands carry the generation they read, *)
(* the auto-lock carries the number it was armed with; all of them wait    *)
(* for the lock while transitions run.                                     *)
(***************************************************************************)
EXTENDS Naturals, FiniteSets

CONSTANTS
  Ids,          \* identities
  Profiles,     \* what the profile on disk may hold at the start
  MaxAsked,     \* bound: commands of the user
  MaxWaiting,   \* bound: commands of the user waiting for the lock
  MaxRefused,   \* bound: resets the activity recorder refuses
  None

Kinds == {"absent", "plain", "passcode", "hardware"}

ASSUME SessionAssumption ==
  /\ Profiles \subseteq [Ids -> Kinds]
  /\ None \notin Ids /\ None \notin [id : Ids, num : Nat, due : BOOLEAN]

VARIABLES
  active,    \* the active row of the database
  kind,      \* the row and key material of each identity
  runtime,   \* the identity of the loaded manager
  stage,     \* startup_stage
  locked,    \* hw_locked
  retained,  \* network_session.retained_identity
  pin,       \* hw_pending_pin: a secret staged for the next load
  auto,      \* auto_lock, and whether it is due
  armed,     \* hw_lock_gen
  fence,     \* session generation, epoch of the lock
  hold,      \* who holds the lock, and where it is
  waiting,   \* commands that wait for the lock
  progress,  \* what api_startup_progress found locked
  request,   \* a fenced request
  asked,     \* bound: commands so far
  refused,   \* bound: resets refused so far
  opened,    \* history: identities their secret opened, until they lock
  expired,   \* history: identities whose auto-lock fell due since
  before,    \* history: the session a switch leaves, and what failed since
  born       \* history: the session a request was born in, or Left

rowv   == <<active, kind>>
runv   == <<runtime, stage>>
keyv   == <<locked, retained, pin, auto, armed>>
askv   == <<waiting, asked>>
idlev  == <<progress, request>>
histv  == <<opened, expired, before>>
vars == <<rowv, runv, keyv, fence, hold, askv, idlev, refused, histv, born>>

Ops    == {"startup", "switch", "activate", "unlock", "restart", "autolock", "import",
           "delete", "remove", "protect", "unprotect"}
Steps  == {"begin", "reset", "stop", "stopped", "undo", "resume", "start", "load", "after",
           "failed"}
Opt    == Ids \union {None}
Fences == [gen : Nat, epoch : Nat]
Holds  == [op : Ops, at : Steps, id : Opt, prev : Opt, again : BOOLEAN, fence : Fences,
           num : Nat, was : Kinds, right : BOOLEAN]
Free   == [op |-> "free", at |-> "free"]
Served == [op |-> "request", at |-> "request"]

NoFence == [gen |-> 0, epoch |-> 0]

Command(op, i) ==
  [op |-> op, at |-> "begin", id |-> i, prev |-> None, again |-> FALSE,
   fence |-> NoFence, num |-> 0, was |-> "absent", right |-> FALSE]

Fenced(op, i) == [Command(op, i) EXCEPT !.fence = fence]
OfGen(op, i)  == [Command(op, i) EXCEPT !.fence = [NoFence EXCEPT !.gen = fence.gen]]

Exists(i)    == i # None /\ kind[i] # "absent"
Protected(i) == i # None /\ kind[i] \in {"passcode", "hardware"}

-----------------------------------------------------------------------------
(* Commands before they hold the lock.                                     *)

Waits(c) ==
  /\ asked < MaxAsked
  /\ Cardinality({d \in waiting : d.op # "autolock"}) < MaxWaiting
  /\ asked' = asked + 1
  /\ waiting' = waiting \union {c}
  /\ UNCHANGED <<rowv, runv, keyv, fence, hold, idlev, refused, histv>>

SwitchIdentity(i) == Waits(Command("switch", i))
Restart           == Waits(Command("restart", None))
Delete(i)         == Waits(Command("delete", i))
Remove(i)         == Waits(Fenced("remove", i))
Import(i)         == Waits(Fenced("import", i))

(* A passcode is checked here, a PIN by the load.                          *)
Unlock ==
  /\ locked # None
  /\ \E right \in IF kind[locked] = "passcode" THEN {TRUE} ELSE BOOLEAN :
       Waits([OfGen("unlock", locked) EXCEPT !.right = right, !.was = kind[locked]])

ActivateHardware(i) ==
  \E right \in BOOLEAN : Waits([Fenced("activate", i) EXCEPT !.right = right])

(* The vault is prepared here, from what it holds now.                     *)
SetPasscode(i) ==
  /\ kind[i] \in {"plain", "passcode"}
  /\ Waits([OfGen("protect", i) EXCEPT !.was = kind[i]])

RemovePasscode(i) ==
  /\ kind[i] = "passcode"
  /\ Waits([OfGen("unprotect", i) EXCEPT !.was = "passcode"])

(* watch_auto_lock.                                                        *)
AutoLockFires ==
  LET c == [Command("autolock", auto.id) EXCEPT !.num = auto.num] IN
  /\ auto # None /\ auto.due /\ c \notin waiting
  /\ ~ (hold.op = "autolock" /\ hold.num = auto.num)
  /\ waiting' = waiting \union {c}
  /\ UNCHANGED <<rowv, runv, keyv, fence, hold, asked, idlev, refused, histv>>

TimePasses ==
  /\ auto # None /\ ~auto.due
  /\ auto' = [auto EXCEPT !.due = TRUE]
  /\ expired' = expired \union {i \in opened : i = auto.id /\ Protected(i)}
  /\ UNCHANGED <<rowv, runv, locked, retained, pin, armed, fence, hold, askv, idlev, refused,
                 opened, before>>

-----------------------------------------------------------------------------
(* The lock.  A transition advances the epoch when it takes the lock and   *)
(* again when it gives it back.                                            *)

Advance(f) == [f EXCEPT !.epoch = @ + 1]
Bump(f)    == [f EXCEPT !.gen = @ + 1]

Acquire(c) ==
  /\ hold = Free
  /\ hold' = c
  /\ waiting' = waiting \ {c}
  /\ fence' = Advance(fence)
  /\ UNCHANGED <<rowv, runv, keyv, asked, idlev, refused, histv>>

Is(ops, at) == hold.op \in ops /\ hold.at = at
Goes(at)    == hold' = [hold EXCEPT !.at = at]

Done == hold' = Free /\ fence' = Advance(fence)

(* is_current_activity_request_fence_after_identity_lock.                  *)
Current(f) ==
  f.gen = fence.gen /\ fence.epoch = f.epoch + 1

(* is_current_activity_origin_fence.                                       *)
CurrentRoutine(f) == f = fence /\ f.epoch % 2 = 0

(* What a command checks once it holds the lock.                           *)
Allowed ==
  LET i == hold.id IN
  CASE hold.op = "switch"   -> Exists(i) /\ ~ (active = i /\ runtime = i)
    [] hold.op = "activate" -> Current(hold.fence) /\ kind[i] = "hardware"
    [] hold.op = "unlock"   -> hold.fence.gen = fence.gen /\ locked = i
    [] hold.op = "import"   -> Current(hold.fence) /\ ~Exists(i)
    [] hold.op = "delete"   -> active # i /\ runtime # i
    [] hold.op = "remove"   -> Current(hold.fence) /\ kind[i] = "hardware"
    [] hold.op \in {"protect", "unprotect"} ->
         hold.fence.gen = fence.gen /\ kind[i] = hold.was
    [] hold.op = "restart"  -> TRUE
    [] OTHER -> FALSE

(* Reading the rows may fail, too.                                         *)
Refuse ==
  /\ hold.at = "begin" /\ hold.op \notin {"startup", "autolock"}
  /\ ~Allowed \/ hold.op \in {"switch", "activate", "import", "remove"}
  /\ Done
  /\ UNCHANGED <<rowv, runv, keyv, askv, idlev, refused, histv>>

Drops(keep) == retained' = IF retained = keep THEN retained ELSE None

-----------------------------------------------------------------------------
(* Shutting the runtime down.                                              *)

(* reset_activity_for_shutdown, the only step that can be refused.         *)
ResetRefused ==
  /\ hold.at = "reset" /\ refused < MaxRefused
  /\ refused' = refused + 1
  /\ hold' = Free
  /\ fence' = Advance(fence)
  /\ UNCHANGED <<rowv, runv, keyv, askv, idlev, histv>>

(* What a transition does between the reset and the rest of the shutdown.  *)
Reset ==
  /\ hold.at = "reset"
  /\ Goes("stop")
  /\ fence' = IF hold.op \in {"unlock", "restart"} THEN fence ELSE Bump(fence)
  /\ IF hold.op = "autolock" THEN locked' = hold.id /\ auto' = None
     ELSE UNCHANGED <<locked, auto>>
  /\ before' = IF hold.op \in {"switch", "activate"}
               THEN [session |-> <<active, runtime, retained>>, failed |-> FALSE]
               ELSE before
  /\ UNCHANGED <<rowv, runv, retained, pin, armed, askv, idlev, refused, opened, expired>>

(* Mutant of Stop: the manager is left loaded.                             *)
StopLoaded ==
  /\ hold.at \in {"stop", "undo"}
  /\ Goes(IF hold.at = "stop" THEN "stopped" ELSE "resume")
  /\ stage' = "stopped"
  /\ UNCHANGED <<rowv, runtime, keyv, fence, askv, idlev, refused, histv>>

(* finish_shutdown; a token is locked again.                               *)
Stop ==
  /\ hold.at \in {"stop", "undo"}
  /\ Goes(IF hold.at = "stop" THEN "stopped" ELSE "resume")
  /\ runtime' = None
  /\ stage' = "stopped"
  /\ opened' = {i \in opened : ~ (i = runtime /\ kind[i] = "hardware")}
  /\ UNCHANGED <<rowv, keyv, fence, askv, idlev, refused, expired, before>>

-----------------------------------------------------------------------------
(* init_rns_lxmf.                                                          *)

Failed ==
  before' = IF hold.op \in {"switch", "activate"} THEN [before EXCEPT !.failed = TRUE] ELSE before

StartFails ==
  /\ hold.at = "start"
  /\ pin' = None
  /\ stage' = "error"
  /\ Failed
  /\ Goes("after")
  /\ UNCHANGED <<rowv, runtime, locked, retained, auto, armed, fence, askv, idlev, refused,
                 opened, expired>>

NothingToStart ==
  /\ hold.at = "start" /\ active = None /\ \A i \in Ids : ~Exists(i)
  /\ pin' = None
  /\ stage' = "ready"
  /\ Goes("after")
  /\ UNCHANGED <<rowv, runtime, locked, retained, auto, armed, fence, askv, idlev, refused,
                 histv>>

(* Mutant of Staged: the secret serves whatever identity is loaded.        *)
StagedForAny(i) == pin # None

Staged(i) == pin # None /\ pin.id = i

(* Who is started takes the place of all others but the one that a switch  *)
(* may still go back to.                                                   *)
Others(i) == expired \intersect ({hold.prev} \ {i})

(* Without an active row the most recently used identity that opens is     *)
(* made active; which that is, is left open.                               *)
Start(i) ==
  /\ hold.at = "start" /\ Exists(i) /\ active \in {i, None}
  /\ pin' = None
  /\ active' = i
  /\ fence' = IF active = None THEN Bump(fence) ELSE fence
  /\ IF Protected(i) /\ ~Staged(i) /\ retained # i
     THEN /\ auto' = None /\ locked' = i /\ stage' = "hw_locked"
          /\ opened' = opened \ {i} /\ expired' = Others(i)
          /\ Goes("after")
     ELSE /\ stage' = "lxmf"
          /\ hold' = [hold EXCEPT !.at = "load", !.right = Staged(i) /\ pin.right]
          /\ UNCHANGED <<auto, locked, opened, expired>>
  /\ UNCHANGED <<kind, runtime, retained, armed, askv, idlev, refused, before>>

(* Mutant of Deadline: every load is a new unlock.                         *)
DeadlineAnew(i) == FALSE

(* arm_auto_lock: a reload from the retained unlock keeps the deadline.    *)
Deadline(i) == retained = i /\ auto # None /\ auto.id = i /\ auto.due

Arm(i, due) ==
  /\ armed' = armed + 1
  /\ auto' = [id |-> i, num |-> armed', due |-> due]

Opens == retained = active \/ ~Protected(active) \/ hold.right

(* The stage tells whether the network came up behind the manager.         *)
Loads ==
  /\ hold.at = "load" /\ Opens
  /\ runtime' = active
  /\ locked' = None
  /\ stage' \in {"ready", "error"}
  /\ IF Protected(active) THEN Arm(active, Deadline(active))
     ELSE auto' = None /\ UNCHANGED armed
  /\ IF retained # active /\ hold.right
     THEN opened' = opened \union {active} /\ expired' = Others(active)
     ELSE UNCHANGED opened /\ expired' = Others(active) \union (expired \intersect {active})
  /\ Goes("after")
  /\ UNCHANGED <<rowv, retained, pin, fence, askv, idlev, refused, before>>

(* The key does not load, or it does and then is another identity's, or    *)
(* the row is not read again.                                              *)
LoadFails ==
  /\ hold.at = "load"
  /\ \/ /\ Protected(active)
        /\ auto' = None /\ locked' = active /\ stage' = "hw_locked"
        /\ expired' = Others(active)
     \/ /\ \/ ~Protected(active) /\ UNCHANGED locked
           \/ Opens /\ locked' = None
        /\ stage' = "error"
        /\ UNCHANGED <<auto, expired>>
  /\ Failed
  /\ Goes("after")
  /\ UNCHANGED <<rowv, runtime, retained, pin, armed, fence, askv, idlev, refused, opened>>

Ends(op) ==
  /\ Is({op}, "after") /\ Done
  /\ UNCHANGED <<rowv, runv, keyv, askv, idlev, refused, histv>>

-----------------------------------------------------------------------------
(* Switching the identity.                                                 *)

NoSwitch  == [session |-> <<None, None, None>>, failed |-> FALSE]
SwitchEnds == Done /\ before' = NoSwitch

BeginSwitch ==
  /\ Is({"switch", "activate"}, "begin") /\ Allowed
  /\ hold' = [hold EXCEPT !.at = "reset", !.prev = active]
  /\ UNCHANGED <<rowv, runv, keyv, fence, askv, idlev, refused, histv>>

(* Mutant of Activate: the unlock of the previous identity goes at once.   *)
ActivateDropping ==
  /\ Is({"switch"}, "stopped")
  /\ \/ active' = hold.id /\ Goes("start") /\ Drops(hold.id) /\ UNCHANGED fence
     \/ Goes("resume") /\ fence' = Bump(fence) /\ UNCHANGED <<active, retained>>
  /\ UNCHANGED <<kind, runv, locked, pin, auto, armed, askv, idlev, refused, histv>>

Activate ==
  /\ Is({"switch"}, "stopped")
  /\ \/ active' = hold.id /\ Goes("start") /\ UNCHANGED fence
     \/ Goes("resume") /\ fence' = Bump(fence) /\ UNCHANGED active
  /\ UNCHANGED <<kind, runv, keyv, askv, idlev, refused, histv>>

(* Mutant of Settle: the identity switched away from keeps its unlock.     *)
SettleKeeping ==
  /\ Is({"switch"}, "after") /\ ~hold.again
  /\ locked = hold.id \/ runtime = hold.id
  /\ opened' = opened \intersect {hold.id}
  /\ SwitchEnds
  /\ UNCHANGED <<rowv, runv, keyv, askv, idlev, refused, expired>>

(* A locked target is a state of its own and no failure.                   *)
Settle ==
  /\ Is({"switch"}, "after") /\ ~hold.again
  /\ locked = hold.id \/ runtime = hold.id
  /\ Drops(hold.id)
  /\ opened' = opened \intersect {hold.id}
  /\ expired' = expired \intersect {hold.id}
  /\ SwitchEnds
  /\ UNCHANGED <<rowv, runv, locked, pin, auto, armed, askv, idlev, refused>>

RollBack ==
  /\ Is({"switch"}, "after") /\ ~hold.again
  /\ locked # hold.id /\ runtime # hold.id
  /\ Goes("undo")
  /\ fence' = Bump(fence)
  /\ before' = [before EXCEPT !.failed = FALSE]
  /\ UNCHANGED <<rowv, runv, keyv, askv, idlev, refused, opened, expired>>

(* resume_previous.                                                        *)
Resume ==
  /\ hold.at = "resume"
  /\ \/ /\ hold.prev # None
        /\ active' = hold.prev
        /\ hold' = [hold EXCEPT !.at = "start", !.again = TRUE]
        /\ UNCHANGED <<stage, before>>
     \/ /\ hold.prev = None
        /\ active' = IF active = hold.id THEN None ELSE active
        /\ stage' = "ready"
        /\ Goes("failed")
        /\ UNCHANGED before
     \/ /\ stage' = "error"
        /\ before' = [before EXCEPT !.failed = TRUE]
        /\ Goes("failed")
        /\ UNCHANGED active
  /\ UNCHANGED <<kind, runtime, keyv, fence, askv, idlev, refused, opened, expired>>

Resumed ==
  /\ hold.at = "after" /\ hold.op \in {"switch", "activate"} /\ hold.again
  /\ Goes("failed")
  /\ UNCHANGED <<rowv, runv, keyv, fence, askv, idlev, refused, histv>>

SwitchFailed ==
  /\ hold.at = "failed" /\ SwitchEnds
  /\ UNCHANGED <<rowv, runv, keyv, askv, idlev, refused, opened, expired>>

(* hw_activate_and_unlock has no way back once the row is active.          *)
ActivateToken ==
  /\ Is({"activate"}, "stopped")
  /\ \/ /\ active' = hold.id
        /\ Drops(hold.id)
        /\ opened' = opened \intersect {hold.id}
        /\ expired' = expired \intersect {hold.id}
        /\ locked' = hold.id
        /\ pin' = [id |-> hold.id, right |-> hold.right]
        /\ Goes("start")
        /\ UNCHANGED fence
     \/ /\ Goes("resume")
        /\ fence' = Bump(fence)
        /\ UNCHANGED <<active, retained, opened, expired, locked, pin>>
  /\ UNCHANGED <<kind, runv, auto, armed, askv, idlev, refused, before>>

-----------------------------------------------------------------------------
(* Unlocking, and what follows the load of an unlock or of a token.        *)

BeginReset ==
  /\ Is({"unlock", "restart"}, "begin") /\ Allowed
  /\ Goes("reset")
  /\ UNCHANGED <<rowv, runv, keyv, fence, askv, idlev, refused, histv>>

Present ==
  /\ Is({"unlock"}, "stopped")
  /\ IF hold.was = "passcode"
     THEN /\ retained' = hold.id /\ auto' = None /\ pin' = None
          /\ opened' = opened \union {hold.id} /\ expired' = {}
     ELSE /\ pin' = [id |-> hold.id, right |-> hold.right]
          /\ UNCHANGED <<retained, auto, opened, expired>>
  /\ Goes("start")
  /\ UNCHANGED <<rowv, runv, locked, armed, fence, askv, idlev, refused, before>>

Unlocked ==
  /\ Is({"unlock", "activate"}, "after") /\ ~hold.again
  /\ IF runtime = hold.id THEN locked' = None /\ UNCHANGED stage
     ELSE locked' = hold.id /\ stage' = "hw_locked"
  /\ SwitchEnds
  /\ UNCHANGED <<rowv, runtime, retained, pin, auto, armed, askv, idlev, refused, opened,
                 expired>>

RestartInit ==
  /\ Is({"restart"}, "stopped")
  /\ Goes("start")
  /\ UNCHANGED <<rowv, runv, keyv, fence, askv, idlev, refused, histv>>

-----------------------------------------------------------------------------
(* lock_protected_session.                                                 *)

(* Mutant of IsCurrent: only a loaded identity is locked.                  *)
IsCurrentLoaded(i) == runtime = i

IsCurrent(i) == IF runtime # None THEN runtime = i ELSE active = i

BeginAutoLock ==
  /\ Is({"autolock"}, "begin")
  /\ IF auto = None \/ auto.num # hold.num
     THEN Done /\ UNCHANGED <<auto, expired>>
     ELSE IF ~IsCurrent(hold.id) \/ ~Protected(hold.id)
     THEN /\ Done /\ auto' = None
          /\ expired' = IF active = hold.id THEN expired ELSE expired \ {hold.id}
     ELSE Goes("reset") /\ UNCHANGED <<fence, auto, expired>>
  /\ UNCHANGED <<rowv, runv, locked, retained, pin, armed, askv, idlev, refused, opened,
                 before>>

AutoLocked ==
  /\ Is({"autolock"}, "stopped")
  /\ Drops(None)
  /\ pin' = None
  /\ stage' = "hw_locked"
  /\ opened' = opened \ {hold.id}
  /\ expired' = expired \ {hold.id}
  /\ Done
  /\ UNCHANGED <<rowv, runtime, locked, auto, armed, askv, idlev, refused, before>>

-----------------------------------------------------------------------------
(* The set of identities.                                                  *)

(* The import is activated only when no identity is active, and it is on   *)
(* disk before the reset.                                                  *)
BeginImport ==
  /\ Is({"import"}, "begin") /\ Allowed
  /\ kind' = [kind EXCEPT ![hold.id] = "plain"]
  /\ IF active = None THEN Goes("reset") /\ UNCHANGED fence ELSE Done
  /\ UNCHANGED <<active, runv, keyv, askv, idlev, refused, histv>>

Imported ==
  /\ Is({"import"}, "stopped")
  /\ active' \in {active, hold.id}
  /\ Done
  /\ UNCHANGED <<kind, runv, keyv, askv, idlev, refused, histv>>

DeleteIdentity ==
  /\ Is({"delete"}, "begin") /\ Allowed
  /\ kind' = [kind EXCEPT ![hold.id] = "absent"]
  /\ expired' = expired \ {hold.id}
  /\ Drops(active)
  /\ Done
  /\ UNCHANGED <<active, runv, locked, pin, auto, armed, askv, idlev, refused, opened, before>>

Live(i) == runtime = i \/ locked = i \/ active = i

BeginRemove ==
  /\ Is({"remove"}, "begin") /\ Allowed
  /\ IF Live(hold.id) THEN Goes("reset") /\ UNCHANGED <<kind, retained, fence, expired>>
     ELSE /\ Drops(active)
          /\ kind' = [kind EXCEPT ![hold.id] = "absent"]
          /\ expired' = expired \ {hold.id}
          /\ Done
  /\ UNCHANGED <<active, runv, locked, pin, auto, armed, askv, idlev, refused, opened, before>>

(* hw_remove of a live identity; the most recently used of those that      *)
(* remain is then switched to under the same lock.                         *)
Removed ==
  /\ Is({"remove"}, "stopped")
  /\ Drops(None)
  /\ opened' = opened \ {hold.id}
  /\ expired' = expired \ {hold.id}
  /\ \/ Done /\ UNCHANGED <<rowv, locked, pin, stage>>
     \/ /\ kind' = [kind EXCEPT ![hold.id] = "absent"]
        /\ active' = IF active = hold.id THEN None ELSE active
        /\ locked' = None /\ pin' = None
        /\ LET remain == {i \in Ids \ {hold.id} : Exists(i)} IN
           \/ remain = {} /\ stage' = "ready" /\ Done
           \/ remain # {} /\ stage' = "error" /\ Done
           \/ /\ \E i \in remain : hold' = Command("switch", i)
              /\ UNCHANGED <<stage, fence>>
  /\ UNCHANGED <<runtime, auto, armed, askv, idlev, refused, before>>

CommitPasscode ==
  LET i == hold.id IN
  /\ Is({"protect"}, "begin") /\ Allowed
  /\ kind' = [kind EXCEPT ![i] = "passcode"]
  /\ opened' = opened \union {i}
  /\ IF active = i /\ locked = None THEN Arm(i, FALSE) /\ expired' = {}
     ELSE UNCHANGED <<auto, armed>> /\ expired' = expired \ {i}
  /\ Done
  /\ UNCHANGED <<active, runv, locked, retained, pin, askv, idlev, refused, before>>

CommitPlain ==
  LET i == hold.id IN
  /\ Is({"unprotect"}, "begin") /\ Allowed
  /\ kind' = [kind EXCEPT ![i] = "plain"]
  /\ IF active = i THEN auto' = None /\ expired' = {}
     ELSE UNCHANGED auto /\ expired' = expired \ {i}
  /\ Done
  /\ UNCHANGED <<active, runv, locked, retained, pin, armed, askv, idlev, refused, opened,
                 before>>

-----------------------------------------------------------------------------
(* api_startup_progress clears the lock of an identity that has no         *)
(* protected material; nothing it does is under the lock.  A switch that   *)
(* looks for the mark meanwhile goes back to a new deadline: the history   *)
(* lets go what it counted.                                                *)

ProgressFinds ==
  /\ progress = None /\ locked # None /\ ~Protected(locked)
  /\ progress' = locked
  /\ UNCHANGED <<rowv, runv, keyv, fence, hold, askv, request, refused, histv>>

ProgressClears ==
  /\ progress # None
  /\ progress' = None
  /\ locked' = None
  /\ stage' = IF stage = "hw_locked" THEN "ready" ELSE stage
  /\ expired' = IF hold.at = "after" THEN {} ELSE expired
  /\ UNCHANGED <<rowv, runtime, retained, pin, auto, armed, fence, hold, askv, request,
                 refused, opened, before>>

-----------------------------------------------------------------------------
(* A request of a screen: it takes its fence, prepares, waits for the lock *)
(* and lands, as a mutation or as routine work.                            *)

(* Mutant of Capture: the epoch of the lock is read last.                  *)
CaptureEpochLast(at, f) ==
  CASE at = "idle" -> [f EXCEPT !.gen = fence.gen]
    [] OTHER -> [f EXCEPT !.epoch = fence.epoch]

(* activity_request_fence reads the epoch first.  The boundary of the      *)
(* activity recorder that a fence also holds moves only under the lock, as *)
(* the epoch does, and is left out.                                        *)
Capture(at, f) ==
  CASE at = "idle" -> [f EXCEPT !.epoch = fence.epoch]
    [] OTHER -> [f EXCEPT !.gen = fence.gen]

TakeFence ==
  /\ request.at \in {"idle", "epoch"}
  /\ request' = [fence |-> Capture(request.at, request.fence),
                 at |-> IF request.at = "idle" THEN "epoch" ELSE "fenced"]
  /\ UNCHANGED <<rowv, runv, keyv, fence, hold, askv, progress, refused, histv>>

Accepts(at) ==
  /\ request' = [request EXCEPT !.at = at]
  /\ hold' = Served

Rejects ==
  /\ request' = [at |-> "done", fence |-> NoFence]
  /\ UNCHANGED hold

(* acquire_identity_mutation: the request is a transition of its own.      *)
AcquireMutation ==
  /\ request.at = "fenced" /\ hold = Free
  /\ IF Advance(fence) = Advance(request.fence)
     THEN Accepts("mutation") /\ fence' = Advance(fence)
     ELSE Rejects /\ fence' = Advance(Advance(fence))
  /\ UNCHANGED <<rowv, runv, keyv, askv, progress, refused, histv>>

(* acquire_identity_routine.                                               *)
AcquireRoutine ==
  /\ request.at = "fenced" /\ hold = Free
  /\ IF CurrentRoutine(request.fence) THEN Accepts("routine") ELSE Rejects
  /\ UNCHANGED <<rowv, runv, keyv, fence, askv, progress, refused, histv>>

Land ==
  /\ request.at \in {"mutation", "routine"}
  /\ request' = [at |-> "done", fence |-> NoFence]
  /\ hold' = Free
  /\ fence' = IF request.at = "mutation" THEN Advance(fence) ELSE fence
  /\ UNCHANGED <<rowv, runv, keyv, askv, progress, refused, histv>>

-----------------------------------------------------------------------------
Session == <<active, runtime, fence.gen>>

Preparing == {"epoch", "fenced", "mutation", "routine"}

NoBirth == <<None, None, 0>>
Left    == <<>>

Remember ==
  born' = IF request'.at \notin Preparing THEN NoBirth
          ELSE IF request.at = "idle" \/ born = Session' THEN Session' ELSE Left

Init ==
  /\ kind \in Profiles
  /\ active \in {i \in Ids : kind[i] # "absent"} \union {None}
  /\ runtime = None /\ stage = "checking"
  /\ locked = None /\ retained = None /\ pin = None
  /\ auto = None /\ armed = 0
  /\ fence = [gen |-> 0, epoch |-> 1]
  /\ hold = [Command("startup", None) EXCEPT !.at = "start"]
  /\ waiting = {} /\ progress = None
  /\ request = [at |-> "idle", fence |-> NoFence]
  /\ asked = 0 /\ refused = 0
  /\ opened = {} /\ expired = {}
  /\ before = NoSwitch
  /\ born = NoBirth

User ==
  \/ Restart \/ Unlock
  \/ \E i \in Ids :
       \/ SwitchIdentity(i) \/ ActivateHardware(i) \/ Delete(i) \/ Remove(i) \/ Import(i)
       \/ SetPasscode(i) \/ RemovePasscode(i)

Begin ==
  \/ Refuse \/ BeginSwitch \/ BeginReset \/ BeginAutoLock \/ BeginImport \/ DeleteIdentity
  \/ BeginRemove \/ CommitPasscode \/ CommitPlain

Proceed ==
  \/ Reset \/ ResetRefused \/ Stop
  \/ Activate \/ ActivateToken \/ Present \/ RestartInit \/ AutoLocked \/ Imported \/ Removed
  \/ StartFails \/ NothingToStart \/ (\E i \in Ids : Start(i)) \/ Loads \/ LoadFails
  \/ Settle \/ RollBack \/ Resume \/ Resumed \/ SwitchFailed \/ Unlocked
  \/ Ends("startup") \/ Ends("restart")

Transition == Begin \/ Proceed

Next ==
  /\ \/ User \/ AutoLockFires \/ TimePasses
     \/ \E c \in waiting : Acquire(c)
     \/ Transition
     \/ ProgressFinds \/ ProgressClears
     \/ TakeFence \/ AcquireMutation \/ AcquireRoutine \/ Land
  /\ Remember

Spec == Init /\ [][Next]_vars

(* Tasks run, and the lock is handed on in the order of the waits, which   *)
(* is more than the weak fairness asked for here.                          *)
Fairness ==
  /\ WF_vars(Transition /\ Remember)
  /\ WF_vars(AutoLockFires /\ Remember)
  /\ WF_vars((\E c \in waiting : Acquire(c)) /\ Remember)
  /\ WF_vars(Land /\ Remember)

FairSpec == Spec /\ Fairness

-----------------------------------------------------------------------------
(* Properties.                                                             *)

(* Every variable has the values the code can give it, and the epoch is    *)
(* odd just while a transition holds the lock.                             *)
TypeOK ==
  /\ fence.epoch % 2 = IF hold = Free \/ request.at = "routine" THEN 0 ELSE 1
  /\ active \in Opt /\ runtime \in Opt /\ locked \in Opt /\ retained \in Opt
  /\ kind \in [Ids -> Kinds]
  /\ stage \in {"checking", "lxmf", "ready", "error", "stopped", "hw_locked"}
  /\ pin \in [id : Ids, right : BOOLEAN] \union {None}
  /\ auto \in [id : Ids, num : Nat, due : BOOLEAN] \union {None}
  /\ armed \in Nat
  /\ fence \in Fences
  /\ hold \in Holds \union {Free, Served}
  /\ waiting \subseteq Holds
  /\ progress \in Opt
  /\ request \in [at : Preparing \union {"idle", "done"}, fence : Fences]
  /\ asked \in Nat /\ refused \in Nat
  /\ opened \subseteq Ids /\ expired \subseteq Ids
  /\ before \in [session : Opt \X Opt \X Opt, failed : BOOLEAN]
  /\ born \in (Opt \X Opt \X Nat) \union {Left}

(* A request that lands, as a mutation or as routine work, lands in the    *)
(* session it was prepared in: from the first read of its fence until then *)
(* the active row, the loaded manager and the generation were the same,    *)
(* also when it was born while a transition held the lock.                 *)
LandsInSession ==
  request.at \in {"mutation", "routine"} => born = Session

(* A protected identity runs only if its secret was given since it was     *)
(* last locked, switched away from or, with a token, shut down; a secret   *)
(* staged or an unlock retained for one identity opens no other.           *)
OpenedBySecret ==
  runtime # None /\ Protected(runtime) => runtime \in opened

(* When no transition runs, what is loaded is what the database calls      *)
(* active, and it is not marked locked.                                    *)
RuntimeIsActive ==
  hold.at = "free" /\ runtime # None => runtime = active /\ locked # runtime

(* An identity whose auto-lock fell due stays due through restarts and     *)
(* failed switches, until the lock happens, the user gives its secret, or  *)
(* another identity takes its place.                                       *)
DeadlineKept ==
  hold.at = "free" /\ runtime \in expired =>
    auto # None /\ auto.id = runtime /\ auto.due

(* A switch that fails brings back what it left, row, manager and unlock,  *)
(* unless bringing it back fails too; what is protected and has no unlock  *)
(* to retain comes back locked.                                            *)
Restored ==
  LET was == before.session IN
  Is({"switch", "activate"}, "failed") /\ ~before.failed =>
    /\ active = was[1]
    /\ was[2] # None /\ (Protected(was[2]) => was[3] = was[2]) =>
         runtime = was[2] /\ retained = was[3] /\ locked = None

(* A due auto-lock locks its identity in the end, also when the network    *)
(* has stopped, resets are refused or transitions come first.              *)
DueLocks == (active \in expired) ~> (active \notin expired)

=============================================================================
