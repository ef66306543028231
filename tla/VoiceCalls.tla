----------------------------- MODULE VoiceCalls -----------------------------
(***************************************************************************)
(* Voice calls and voice memos (crates/ratspeak-runtime/src/voice.rs with  *)
(* voice/ptt.rs and voice_memo.rs, the voice commands).                    *)
(*                                                                         *)
(* A call and a memo share one microphone.  A call reserves it with a      *)
(* flag and then cancels the memo that may be recording; a memo reads the  *)
(* flag before and after it takes the lock both of them use.  The flag is  *)
(* taken by the commands that place and answer a call and by the event     *)
(* loop of the voice service, and cleared by whoever sees an end: the      *)
(* loop, a command that failed, the shutdown of the service.               *)
(*                                                                         *)
(* The telephony service is a library: it takes controls from one queue,   *)
(* has at most one call, and reports on another queue.  The event loop     *)
(* reads the reports later, awaiting the database, the memo lock and the   *)
(* audio devices in between, and runs on a thread that cannot be aborted.  *)
(***************************************************************************)
EXTENDS Naturals, Sequences, FiniteSets

CONSTANTS
  Links,        \* link ids of the calls; a link is used by one call
  Profiles,     \* codec profiles, by wire value
  Opus,         \* the profiles that are not constrained to push-to-talk
  MaxServices,  \* bound: services that can be registered
  MaxSwitches,  \* bound: identity switches
  MaxQueue,     \* bound: reports waiting for the loop
  MaxAsked,     \* bound: commands of the user
  None

ASSUME VoiceAssumption ==
  /\ Opus \subseteq Profiles
  /\ Profiles \subseteq Nat \ {0}
  /\ MaxServices \in Nat /\ MaxSwitches \in Nat /\ MaxAsked \in Nat
  /\ None \notin Links \union Profiles

VARIABLES
  call,       \* the service's call, or None              (external)
  service,    \* the service's task                       (external)
  controls,   \* controls the service has yet to take     (external)
  reports,    \* events the loop has yet to read          (external)
  used,       \* links that have carried a call           (external)
  handle,     \* lxst_voice: the service in use, 0 when there is none
  made,       \* services registered so far
  loop,       \* where the event loop of each service is
  latest,     \* its latest_snapshot
  audio,      \* its audio session
  wanted,     \* the profile its adaptation has asked for (profile_adaptation)
  refused,    \* its suppressed_call_links
  session,    \* its VoiceSession
  slot,       \* the push-to-talk session (voice/ptt.rs)
  reserved,   \* voice_call_audio_reserved
  shown,      \* the active call of voice_call_snapshot
  rung,       \* links the user interface was told are ringing
  command,    \* the commands and the task that use the service
  memo,       \* the recorder: the command that starts it, and its capture
  down,       \* the shutdown under way
  life,       \* holder of the identity lifecycle lock
  alerts,     \* alerts that wait for the lock
  alerted,    \* services an alert was raised for, with the session it found
  asked,      \* bound: commands given so far
  now,        \* session generation, and the current shutdown signal
  spurned,    \* history: calls the policy turned down
  least       \* history: lowest constrained profile a call has run with

extv    == <<call, service, controls, reports, used>>
loopv   == <<loop, latest, audio, wanted, refused, slot, shown>>
userv   == <<reserved, rung, command, memo>>
lifev   == <<handle, made, session, down, life, alerts, alerted, now>>
histv   == <<spurned, least, asked>>
vars == <<call, service, controls, reports, used, handle, made, loop, latest,
          audio, wanted, refused, session, slot, reserved, shown, rung, command, memo,
          down, life, alerts, alerted, asked, now, spurned, least>>

Services  == 1..MaxServices
Callers   == {"call", "answer", "boot"}
Calls     == [link : Links, status : {"ringing", "calling", "connecting"}, profile : {None}]
             \union [link : Links, status : {"established"}, profile : Profiles]
Controls  == [kind : {"call", "hangup", "shutdown"}] \union
             [kind : {"switch"}, to : Profiles] \union
             [kind : {"answer"}, link : Links]
Reports   == [kind : {"incoming", "ended"}, call : Calls] \union
             [kind : {"snapshot", "failed", "stopped"}, call : Calls \union {None}]
Loops     == [at : {"none", "free", "ended"}, link : Links \union {None}] \union
             [at : {"policy", "handoff"}, link : Links]
Audio     == [link : Links, profile : Profiles]
Wishes    == [link : Links, to : Opus]
Slots     == [link : Links, profile : Profiles \ Opus]
Sessions  == [gen : 0..MaxSwitches, signal : 0..MaxSwitches, triggered : BOOLEAN]
Commands  == [at : {"idle", "handoff", "ensure", "publish", "signal", "reply", "failed"},
              link : Links \union {None}, own : 0..MaxServices]
Memos     == [at : {"idle", "wait", "open"}, capture : BOOLEAN]
Downs     == [at : {"idle", "memo", "take", "loop", "task", "release", "trigger", "renew",
                    "boot"}, switch : BOOLEAN, of : 0..MaxServices]
Alerts    == [of : Services, link : Links, held : BOOLEAN]

ASSUME NoneAssumption == None \notin Calls /\ None \notin Slots

Report(kind, c) == [kind |-> kind, call |-> c]

-----------------------------------------------------------------------------
(* The telephony service.  It reports every change of its call, first the  *)
(* event and then a snapshot.                                              *)

Room(k, n) == Len(reports[k]) + n =< MaxQueue

Becomes(k, c, events) ==
  /\ Room(k, Len(events) + 1)
  /\ call' = [call EXCEPT ![k] = c]
  /\ reports' = [reports EXCEPT ![k] = @ \o Append(events, Report("snapshot", c))]

Up(k) == service[k] = "up"

CallArrives(k, l) ==
  /\ Up(k) /\ call[k] = None /\ l \notin used
  /\ LET c == [link |-> l, status |-> "ringing", profile |-> None] IN
     Becomes(k, c, <<Report("incoming", c)>>)
  /\ used' = used \union {l}
  /\ UNCHANGED <<service, controls, loopv, userv, lifev, histv>>

Take(k, kind) ==
  /\ Up(k) /\ controls[k] # <<>> /\ Head(controls[k]).kind = kind
  /\ controls' = [controls EXCEPT ![k] = Tail(@)]
  /\ UNCHANGED <<loopv, reserved, rung, memo, lifev, histv>>

PlaceCall(k) ==
  /\ Take(k, "call")
  /\ UNCHANGED <<service, command>>
  /\ \/ /\ call[k] = None
        /\ \E l \in Links \ used :
             /\ Becomes(k, [link |-> l, status |-> "calling", profile |-> None], <<>>)
             /\ used' = used \union {l}
     \/ /\ Room(k, 1)
        /\ reports' = [reports EXCEPT ![k] = Append(@, Report("failed", None))]
        /\ UNCHANGED <<call, used>>

Ended(k) == <<Report("ended", call[k])>>

TakeHangup(k) ==
  /\ Take(k, "hangup")
  /\ UNCHANGED <<service, used, command>>
  /\ IF call[k] = None THEN UNCHANGED <<call, reports>>
     ELSE Becomes(k, None, Ended(k))

TakeSwitch(k) ==
  /\ Take(k, "switch")
  /\ UNCHANGED <<service, used, command>>
  /\ IF call[k] = None \/ call[k].status # "established"
     THEN UNCHANGED <<call, reports>>
     ELSE Becomes(k, [call[k] EXCEPT !.profile = Head(controls[k]).to], <<>>)

TakeShutdown(k) ==
  /\ Take(k, "shutdown")
  /\ Room(k, 1)
  /\ service' = [service EXCEPT ![k] = "gone"]
  /\ call' = [call EXCEPT ![k] = None]
  /\ reports' = [reports EXCEPT ![k] = Append(@, Report("stopped", None))]
  /\ UNCHANGED <<used, command>>

(* request_answer: only the exact call that rings is answered.             *)
TakeAnswer(k) ==
  LET l == Head(controls[k]).link
      exact == call[k] # None /\ call[k].link = l /\ call[k].status = "ringing" IN
  /\ Take(k, "answer")
  /\ UNCHANGED <<service, used>>
  /\ IF exact THEN Becomes(k, [call[k] EXCEPT !.status = "connecting"], <<>>)
     ELSE UNCHANGED <<call, reports>>
  /\ command' = [command EXCEPT !["answer"] =
       IF @.at = "reply" /\ @.link = l
       THEN [@ EXCEPT !.at = IF exact THEN "idle" ELSE "failed"] ELSE @]

Service(k) ==
  PlaceCall(k) \/ TakeAnswer(k) \/ TakeHangup(k) \/ TakeSwitch(k) \/ TakeShutdown(k)

(* The remote side: it establishes what rings there or was answered here,  *)
(* changes the profile, and hangs up.  Bound: it changes the profile only  *)
(* of a service that has no control left to take.                          *)
Establish(k) ==
  /\ Up(k) /\ call[k] # None
  /\ call[k].status \in {"calling", "connecting"}
  /\ \E p \in Profiles :
       Becomes(k, [call[k] EXCEPT !.status = "established", !.profile = p], <<>>)
  /\ UNCHANGED <<service, controls, used, loopv, userv, lifev, histv>>

RemoteSwitch(k) ==
  /\ Up(k) /\ controls[k] = <<>> /\ call[k] # None /\ call[k].status = "established"
  /\ \E p \in Profiles \ {call[k].profile} :
       Becomes(k, [call[k] EXCEPT !.profile = p], <<>>)
  /\ UNCHANGED <<service, controls, used, loopv, userv, lifev, histv>>

RemoteHangup(k) ==
  /\ Up(k) /\ call[k] # None
  /\ Becomes(k, None, Ended(k))
  /\ UNCHANGED <<service, controls, used, loopv, userv, lifev, histv>>

-----------------------------------------------------------------------------
(* The event loop of one service.                                          *)

Free(k) == loop[k].at = "free"

(* Bound: the loop repeats no control that is still waiting.               *)
Send(k, c) ==
  controls' = IF service[k] # "up" \/ \E i \in DOMAIN controls[k] : controls[k][i] = c
              THEN controls
              ELSE [controls EXCEPT ![k] = Append(@, c)]

Hangup    == [kind |-> "hangup"]
Switch(p) == [kind |-> "switch", to |-> p]

Adapts(k, w) == wanted' = [wanted EXCEPT ![k] = w]
StopAudio(k) == audio' = [audio EXCEPT ![k] = None]

(* Mutant of Ceiling: a profile of another kind is not held to the codec.  *)
CeilingWithoutOpus(l, p) ==
  IF slot # None /\ slot.link = l /\ p \notin Opus /\ p > slot.profile
  THEN slot.profile ELSE None

(* ptt::sync: the profile a constrained call is held to, or None and the   *)
(* session that replaces the slot.                                         *)
Ceiling(l, p) ==
  IF slot # None /\ slot.link = l /\ (p \in Opus \/ p > slot.profile)
  THEN slot.profile ELSE None

Synced(l, p) == IF p \in Opus THEN None ELSE [link |-> l, profile |-> p]

StartAudio(k, l, p) ==
  \/ /\ audio' = [audio EXCEPT ![k] = [link |-> l, profile |-> p]]
     /\ least' = [least EXCEPT ![l] = IF p \in Opus \/ (@ # None /\ @ < p) THEN @ ELSE p]
  \/ StopAudio(k) /\ UNCHANGED least

Reconcile(k, c) ==
  IF c = None
  THEN slot' = None /\ StopAudio(k) /\ UNCHANGED <<controls, least>>
  ELSE IF c.status # "established"
  THEN StopAudio(k) /\ UNCHANGED <<slot, controls, least>>
  ELSE IF Ceiling(c.link, c.profile) # None
  THEN Send(k, Switch(Ceiling(c.link, c.profile))) /\ UNCHANGED <<slot, audio, least>>
  ELSE /\ slot' = Synced(c.link, c.profile)
       /\ UNCHANGED controls
       /\ IF audio[k] # None /\ audio[k].link = c.link /\ audio[k].profile = c.profile
          THEN UNCHANGED <<audio, least>>
          ELSE StartAudio(k, c.link, c.profile)

Read(k, kind) ==
  /\ Free(k) /\ reports[k] # <<>> /\ Head(reports[k]).kind = kind
  /\ reports' = [reports EXCEPT ![k] = Tail(@)]
  /\ UNCHANGED <<call, service, used>>

At(k, where, l) == loop' = [loop EXCEPT ![k] = [at |-> where, link |-> l]]

(* evaluate_incoming_call_policy awaits the database and the transport.    *)
ReadIncoming(k) ==
  /\ Read(k, "incoming")
  /\ At(k, "policy", Head(reports[k]).call.link)
  /\ UNCHANGED <<controls, latest, audio, wanted, refused, slot, shown, userv, lifev, histv>>

(* Mutant of TurnDown: the call is hung up and not remembered.             *)
TurnDownForgotten(k) ==
  /\ loop[k].at = "policy"
  /\ spurned' = spurned \union {loop[k].link}
  /\ Send(k, Hangup)
  /\ At(k, "free", None)
  /\ UNCHANGED <<call, service, reports, used, latest, audio, wanted, refused, slot, shown,
                 userv, lifev, least, asked>>

(* The hangup names no link.                                               *)
TurnDown(k) ==
  /\ loop[k].at = "policy"
  /\ refused' = [refused EXCEPT ![k] = @ \union {loop[k].link}]
  /\ spurned' = spurned \union {loop[k].link}
  /\ Send(k, Hangup)
  /\ At(k, "free", None)
  /\ UNCHANGED <<call, service, reports, used, latest, audio, wanted, slot, shown,
                 userv, lifev, least, asked>>

Admit(k) ==
  /\ loop[k].at = "policy"
  /\ reserved' = TRUE
  /\ At(k, "handoff", loop[k].link)
  /\ UNCHANGED <<extv, latest, audio, wanted, refused, slot, shown, rung, command, memo,
                 lifev, histv>>

(* cancel_recording, under voice_memo_control_lock.                        *)
MemoFree == memo.at # "open"
CancelMemo == memo' = [memo EXCEPT !.capture = FALSE]

(* Mutant of Announce: the alert needs the lifecycle lock in the loop.     *)
AnnounceLocked(k) ==
  /\ loop[k].at = "handoff" /\ MemoFree /\ life = "free"
  /\ CancelMemo
  /\ rung' = rung \union {loop[k].link}
  /\ alerts' = alerts \union {[of |-> k, link |-> loop[k].link, held |-> FALSE]}
  /\ At(k, "free", None)
  /\ UNCHANGED <<extv, latest, audio, wanted, refused, slot, shown, reserved, command,
                 handle, made, session, down, life, alerted, now, histv>>

Announce(k) ==
  /\ loop[k].at = "handoff" /\ MemoFree
  /\ CancelMemo
  /\ rung' = rung \union {loop[k].link}
  /\ alerts' = alerts \union {[of |-> k, link |-> loop[k].link, held |-> FALSE]}
  /\ At(k, "free", None)
  /\ UNCHANGED <<extv, latest, audio, wanted, refused, slot, shown, reserved, command,
                 handle, made, session, down, life, alerted, now, histv>>

ReadFailed(k) ==
  /\ Read(k, "failed")
  /\ reserved' = FALSE
  /\ UNCHANGED <<controls, loopv, rung, command, memo, lifev, histv>>

ReadEnded(k) ==
  LET l == Head(reports[k]).call.link IN
  /\ Read(k, "ended")
  /\ IF l \in refused[k]
     THEN /\ refused' = [refused EXCEPT ![k] = @ \ {l}]
          /\ UNCHANGED <<reserved, audio, wanted, latest, shown>>
     ELSE /\ reserved' = FALSE
          /\ StopAudio(k)
          /\ Adapts(k, None)
          /\ latest' = [latest EXCEPT ![k] = <<>>]
          /\ shown' = None
          /\ UNCHANGED refused
  /\ UNCHANGED <<controls, loop, slot, rung, command, memo, lifev, histv>>

(* maybe_adapt_voice_profile: what it has asked for it waits for; what it  *)
(* asks for depends on frames and clocks, and is left open.                *)
Adapted(k, c) ==
  IF c = None \/ c.status # "established" \/ c.profile \notin Opus THEN {None}
  ELSE IF wanted[k] # None /\ wanted[k].link = c.link /\ wanted[k].to # c.profile
  THEN {wanted[k]}
  ELSE {None} \union {[link |-> c.link, to |-> p] :
                       p \in IF Up(k) THEN Opus \ {c.profile} ELSE {}}

Request(k, w) == IF w \in {None, wanted[k]} THEN UNCHANGED controls ELSE Send(k, Switch(w.to))

(* Until the call has the profile asked for, its audio is stopped.         *)
ReadSnapshot(k) ==
  /\ Read(k, "snapshot")
  /\ latest' = [latest EXCEPT ![k] = <<Head(reports[k]).call>>]
  /\ LET c == Head(reports[k]).call IN
     IF c # None /\ c.link \in refused[k]
     THEN UNCHANGED <<audio, wanted, controls, slot, shown, least>>
     ELSE /\ \E w \in Adapted(k, c) :
               /\ Adapts(k, w)
               /\ IF w = None THEN Reconcile(k, c)
                  ELSE Request(k, w) /\ StopAudio(k) /\ UNCHANGED <<slot, least>>
          /\ shown' = IF c = None THEN None ELSE c.link
  /\ UNCHANGED <<loop, refused, userv, lifev, spurned, asked>>

(* Frames that are sent or received let it adapt too; the audio goes on.   *)
Media(k) ==
  /\ Free(k) /\ latest[k] # <<>>
  /\ \E w \in Adapted(k, Head(latest[k])) : Adapts(k, w) /\ Request(k, w)
  /\ UNCHANGED <<call, service, reports, used, loop, latest, audio, refused, slot, shown,
                 userv, lifev, histv>>

(* The recovery tick, also the restart of a speaker that has no session.   *)
Tick(k) ==
  /\ Free(k) /\ latest[k] # <<>>
  /\ Reconcile(k, Head(latest[k]))
  /\ UNCHANGED <<call, service, reports, used, loop, latest, wanted, refused, shown,
                 userv, lifev, spurned, asked>>

(* The last lines of the loop, after Stopped or when the queue is closed.  *)
LoopEnds(k) ==
  /\ \/ Read(k, "stopped") /\ shown' = None
     \/ /\ Free(k) /\ reports[k] = <<>> /\ service[k] = "gone"
        /\ UNCHANGED <<call, service, reports, used, shown>>
  /\ slot' = None
  /\ reserved' = FALSE
  /\ StopAudio(k)
  /\ Adapts(k, None)
  /\ At(k, "ended", None)
  /\ UNCHANGED <<controls, latest, refused, rung, command, memo, lifev, histv>>

Loop(k) ==
  \/ ReadIncoming(k) \/ TurnDown(k) \/ Admit(k) \/ Announce(k)
  \/ ReadFailed(k) \/ ReadEnded(k) \/ ReadSnapshot(k) \/ LoopEnds(k)

-----------------------------------------------------------------------------
(* The commands.  Bounds: one of each kind at a time, MaxAsked of them.    *)

Ask == asked < MaxAsked /\ asked' = asked + 1

Goes(p, where) == command' = [command EXCEPT ![p].at = where]
Is(p, where)   == command[p].at = where

VoiceCall ==
  /\ Ask
  /\ Is("call", "idle")
  /\ reserved' = TRUE
  /\ Goes("call", "handoff")
  /\ UNCHANGED <<extv, loopv, rung, memo, lifev, spurned, least>>

VoiceAnswer(l) ==
  /\ Ask
  /\ Is("answer", "idle")
  /\ reserved' = TRUE
  /\ command' = [command EXCEPT !["answer"] = [at |-> "handoff", link |-> l, own |-> 0]]
  /\ UNCHANGED <<extv, loopv, rung, memo, lifev, spurned, least>>

VoiceStart ==
  /\ Ask
  /\ Is("boot", "idle")
  /\ Goes("boot", "ensure")
  /\ UNCHANGED <<extv, loopv, reserved, rung, memo, lifev, spurned, least>>

HandOff(p) ==
  /\ Is(p, "handoff") /\ MemoFree
  /\ CancelMemo
  /\ Goes(p, "ensure")
  /\ UNCHANGED <<extv, loopv, reserved, rung, lifev, histv>>

Ready(p) == IF p = "boot" THEN "idle" ELSE "signal"

(* start_voice_service: it looks, registers, and looks again before it     *)
(* publishes; what it cannot publish it aborts, all but the event loop.    *)
Found(p) ==
  /\ Is(p, "ensure") /\ handle # 0
  /\ Goes(p, Ready(p))
  /\ UNCHANGED <<extv, loopv, reserved, rung, memo, lifev, histv>>

Register(p) ==
  /\ Is(p, "ensure") /\ handle = 0
  /\ made < MaxServices /\ ~now.triggered
  /\ made' = made + 1
  /\ service' = [service EXCEPT ![made'] = "up"]
  /\ loop' = [loop EXCEPT ![made'].at = "free"]
  /\ session' = [session EXCEPT ![made'] = now]
  /\ command' = [command EXCEPT ![p].at = "publish", ![p].own = made']
  /\ UNCHANGED <<call, controls, reports, used, latest, audio, wanted, refused, slot, shown,
                 reserved, rung, memo, handle, down, life, alerts, alerted, now,
                 histv>>

NotRegistered(p) ==
  /\ Is(p, "ensure") /\ handle = 0
  /\ made = MaxServices \/ now.triggered
  /\ Goes(p, IF p = "boot" THEN "idle" ELSE "failed")
  /\ UNCHANGED <<extv, loopv, reserved, rung, memo, lifev, histv>>

Abort(k) ==
  /\ service' = [service EXCEPT ![k] = "gone"]
  /\ call' = [call EXCEPT ![k] = None]
  /\ controls' = [controls EXCEPT ![k] = <<>>]

Publish(p) ==
  /\ Is(p, "publish")
  /\ IF handle = 0 THEN handle' = command[p].own /\ UNCHANGED <<service, call, controls>>
     ELSE Abort(command[p].own) /\ UNCHANGED handle
  /\ Goes(p, Ready(p))
  /\ UNCHANGED <<reports, used, loopv, reserved, rung, memo, made, session, down,
                 life, alerts, alerted, now, histv>>

Queue(k, c) == controls' = [controls EXCEPT ![k] = Append(@, c)]
Reach == handle # 0 /\ Up(handle)

SendCall ==
  /\ Is("call", "signal") /\ Reach
  /\ Queue(handle, [kind |-> "call"])
  /\ Goes("call", "idle")
  /\ UNCHANGED <<call, service, reports, used, loopv, reserved, rung, memo, lifev,
                 histv>>

SendAnswer ==
  /\ Is("answer", "signal") /\ Reach
  /\ Queue(handle, [kind |-> "answer", link |-> command["answer"].link])
  /\ command' = [command EXCEPT !["answer"].at = "reply", !["answer"].own = handle]
  /\ UNCHANGED <<call, service, reports, used, loopv, reserved, rung, memo, lifev,
                 histv>>

Unreachable(p) ==
  /\ \/ Is(p, "signal") /\ ~Reach
     \/ Is(p, "reply") /\ ~Up(command[p].own)
  /\ Goes(p, "failed")
  /\ UNCHANGED <<extv, loopv, reserved, rung, memo, lifev, histv>>

(* Mutant of Fails: the reservation stays.                                 *)
FailsReserved(p) ==
  /\ Is(p, "failed")
  /\ Goes(p, "idle")
  /\ UNCHANGED <<extv, loopv, reserved, rung, memo, lifev, histv>>

(* A command that failed releases the microphone.                          *)
Fails(p) ==
  /\ Is(p, "failed")
  /\ reserved' = FALSE
  /\ Goes(p, "idle")
  /\ UNCHANGED <<extv, loopv, rung, memo, lifev, histv>>

VoiceHangup ==
  /\ Ask
  /\ IF handle = 0 THEN reserved' = FALSE /\ UNCHANGED controls
     ELSE /\ Up(handle) /\ Send(handle, Hangup)
          /\ UNCHANGED reserved
  /\ UNCHANGED <<call, service, reports, used, loopv, rung, command, memo, lifev,
                 spurned, least>>

-----------------------------------------------------------------------------
(* Voice memos.  The command holds the lifecycle lock.                     *)

StartMemo ==
  /\ Ask
  /\ memo.at = "idle" /\ life = "free" /\ ~reserved
  /\ memo' = [memo EXCEPT !.at = "wait"]
  /\ life' = "memo"
  /\ UNCHANGED <<extv, loopv, reserved, rung, command, handle, made, session, down,
                 alerts, alerted, now, spurned, least>>

(* Mutant of EnterMemo: the reservation is not read again under the lock.  *)
EnterMemoUnread ==
  /\ memo.at = "wait"
  /\ IF memo.capture
     THEN memo' = [memo EXCEPT !.at = "idle"] /\ life' = "free"
     ELSE memo' = [memo EXCEPT !.at = "open"] /\ UNCHANGED life
  /\ UNCHANGED <<extv, loopv, reserved, rung, command, handle, made, session, down,
                 alerts, alerted, now, histv>>

EnterMemo ==
  /\ memo.at = "wait"
  /\ IF reserved \/ memo.capture
     THEN memo' = [memo EXCEPT !.at = "idle"] /\ life' = "free"
     ELSE memo' = [memo EXCEPT !.at = "open"] /\ UNCHANGED life
  /\ UNCHANGED <<extv, loopv, reserved, rung, command, handle, made, session, down,
                 alerts, alerted, now, histv>>

OpenMemo ==
  /\ memo.at = "open"
  /\ \E opened \in BOOLEAN : memo' = [at |-> "idle", capture |-> opened]
  /\ life' = "free"
  /\ UNCHANGED <<extv, loopv, reserved, rung, command, handle, made, session, down,
                 alerts, alerted, now, histv>>

(* The user stops or drops the memo.                                       *)
EndMemo ==
  /\ memo.capture /\ MemoFree
  /\ CancelMemo
  /\ UNCHANGED <<extv, loopv, reserved, rung, command, lifev, histv>>

-----------------------------------------------------------------------------
(* Shutting the service down: by command, or in a switch of the identity.  *)

VoiceStop ==
  /\ Ask
  /\ down.at = "idle"
  /\ down' = [at |-> "take", switch |-> FALSE, of |-> 0]
  /\ UNCHANGED <<extv, loopv, userv, handle, made, session, life, alerts, alerted,
                 now, spurned, least>>

SwitchIdentity ==
  /\ Ask
  /\ down.at = "idle" /\ life = "free" /\ now.gen < MaxSwitches
  /\ life' = "switch"
  /\ now' = [now EXCEPT !.gen = @ + 1]
  /\ down' = [at |-> "memo", switch |-> TRUE, of |-> 0]
  /\ UNCHANGED <<extv, loopv, userv, handle, made, session, alerts, alerted, spurned, least>>

Steps(from, to) == down.at = from /\ down' = [down EXCEPT !.at = to]

StopMemo ==
  /\ Steps("memo", "take") /\ MemoFree
  /\ CancelMemo
  /\ UNCHANGED <<extv, loopv, reserved, rung, command, handle, made, session, life,
                 alerts, alerted, now, histv>>

TakeHandle ==
  /\ down.at = "take"
  /\ handle' = 0
  /\ down' = [down EXCEPT !.of = handle, !.at = IF handle = 0 THEN "release" ELSE "loop"]
  /\ IF Reach THEN Queue(handle, [kind |-> "shutdown"]) ELSE UNCHANGED controls
  /\ UNCHANGED <<call, service, reports, used, loopv, userv, made, session, life,
                 alerts, alerted, now, histv>>

LoopJoined ==
  /\ Steps("loop", "task") /\ loop[down.of].at = "ended"
  /\ UNCHANGED <<extv, loopv, userv, handle, made, session, life, alerts, alerted,
                 now, histv>>

(* await_or_abort gives up; a blocking task that runs is not aborted.      *)
LoopTimeout ==
  /\ Steps("loop", "task") /\ loop[down.of].at # "ended"
  /\ UNCHANGED <<extv, loopv, userv, handle, made, session, life, alerts, alerted,
                 now, histv>>

TaskEnds ==
  /\ Steps("task", "release")
  /\ IF Up(down.of) THEN Abort(down.of) ELSE UNCHANGED <<service, call, controls>>
  /\ UNCHANGED <<reports, used, loopv, userv, handle, made, session, life, alerts,
                 alerted, now, histv>>

Release ==
  /\ Steps("release", IF down.switch THEN "trigger" ELSE "idle")
  /\ reserved' = FALSE
  /\ shown' = None
  /\ UNCHANGED <<extv, loop, latest, audio, wanted, refused, slot, rung, command, memo, handle,
                 made, session, life, alerts, alerted, now, histv>>

(* The session's signal is triggered, later a new one is put in its place  *)
(* and the runtime starts, the voice service with it.                      *)
Trigger ==
  /\ Steps("trigger", "renew")
  /\ now' = [now EXCEPT !.triggered = TRUE]
  /\ UNCHANGED <<extv, loopv, userv, handle, made, session, life, alerts, alerted, histv>>

Renew ==
  /\ Steps("renew", "boot") /\ Is("boot", "idle")
  /\ now' = [now EXCEPT !.signal = @ + 1, !.triggered = FALSE]
  /\ Goes("boot", "ensure")
  /\ UNCHANGED <<extv, loopv, reserved, rung, memo, handle, made, session, life,
                 alerts, alerted, histv>>

SwitchEnds ==
  /\ Steps("boot", "idle") /\ Is("boot", "idle")
  /\ life' = "free"
  /\ UNCHANGED <<extv, loopv, userv, handle, made, session, alerts, alerted, now, histv>>

Shutdown ==
  StopMemo \/ TakeHandle \/ LoopJoined \/ TaskEnds \/ Release \/ Trigger \/ Renew
    \/ SwitchEnds

-----------------------------------------------------------------------------
(* An incoming call's alert, beside the loop.                              *)

(* Mutant of IsCurrent: only the generation is compared.                   *)
IsCurrentByGeneration(k) == session[k].gen = now.gen

IsCurrent(k) ==
  /\ session[k].gen = now.gen
  /\ session[k].signal = now.signal /\ ~now.triggered

LockAlert(a) ==
  /\ life = "free" /\ ~a.held
  /\ IF IsCurrent(a.of)
     THEN /\ life' = "alert"
          /\ alerts' = (alerts \ {a}) \union {[a EXCEPT !.held = TRUE]}
     ELSE alerts' = alerts \ {a} /\ UNCHANGED life
  /\ UNCHANGED <<extv, loopv, userv, handle, made, session, down, alerted, now, histv>>

RaiseAlert(a) ==
  /\ a.held
  /\ alerts' = alerts \ {a}
  /\ alerted' = alerted \union {[of |-> a.of, found |-> now]}
  /\ life' = "free"
  /\ UNCHANGED <<extv, loopv, userv, handle, made, session, down, now, histv>>

-----------------------------------------------------------------------------
Init ==
  /\ call = [k \in Services |-> None]
  /\ service = [k \in Services |-> "none"]
  /\ controls = [k \in Services |-> <<>>]
  /\ reports = [k \in Services |-> <<>>]
  /\ used = {}
  /\ handle = 0 /\ made = 0
  /\ loop = [k \in Services |-> [at |-> "none", link |-> None]]
  /\ latest = [k \in Services |-> <<>>]
  /\ audio = [k \in Services |-> None]
  /\ wanted = [k \in Services |-> None]
  /\ refused = [k \in Services |-> {}]
  /\ now = [gen |-> 0, signal |-> 0, triggered |-> FALSE]
  /\ session = [k \in Services |-> now]
  /\ slot = None /\ reserved = FALSE /\ shown = None /\ rung = {}
  /\ command = [p \in Callers |-> [at |-> "idle", link |-> None, own |-> 0]]
  /\ memo = [at |-> "idle", capture |-> FALSE]
  /\ down = [at |-> "idle", switch |-> FALSE, of |-> 0]
  /\ life = "free"
  /\ alerts = {} /\ alerted = {}
  /\ spurned = {} /\ asked = 0
  /\ least = [l \in Links |-> None]

External ==
  \E k \in Services :
    \/ \E l \in Links : CallArrives(k, l)
    \/ Service(k) \/ Establish(k) \/ RemoteSwitch(k) \/ RemoteHangup(k)

Command(p) ==
  \/ HandOff(p) \/ Found(p) \/ Register(p) \/ NotRegistered(p) \/ Publish(p)
  \/ p = "call" /\ SendCall
  \/ p = "answer" /\ SendAnswer
  \/ Unreachable(p) \/ Fails(p)

User ==
  \/ VoiceCall \/ VoiceStart \/ VoiceHangup \/ VoiceStop \/ SwitchIdentity
  \/ \E l \in rung : VoiceAnswer(l)
  \/ StartMemo \/ EndMemo

Next ==
  \/ External \/ User
  \/ \E k \in Services : Loop(k) \/ Tick(k) \/ Media(k)
  \/ \E p \in Callers : Command(p)
  \/ EnterMemo \/ OpenMemo
  \/ Shutdown \/ LoopTimeout
  \/ \E a \in alerts : LockAlert(a) \/ RaiseAlert(a)

Spec == Init /\ [][Next]_vars

(* Tasks run, and the telephony service serves its queue.  Nothing is      *)
(* assumed of the user, of the remote side or of the two seconds of a      *)
(* shutdown.  The memo lock is first come, first served, which is more     *)
(* than the weak fairness asked for here.                                  *)
Fairness ==
  /\ \A k \in Services : WF_vars(Loop(k)) /\ WF_vars(Service(k))
  /\ \A p \in Callers : WF_vars(Command(p))
  /\ WF_vars(EnterMemo \/ OpenMemo)
  /\ WF_vars(Shutdown)
  /\ WF_vars(\E a \in alerts : RaiseAlert(a))

FairSpec == Spec /\ Fairness

-----------------------------------------------------------------------------
(* Properties.                                                             *)

(* Every variable has the values the code can give it.                     *)
TypeOK ==
  /\ call \in [Services -> Calls \union {None}]
  /\ service \in [Services -> {"none", "up", "gone"}]
  /\ controls \in [Services -> Seq(Controls)] /\ reports \in [Services -> Seq(Reports)]
  /\ used \subseteq Links
  /\ handle \in 0..MaxServices /\ made \in 0..MaxServices
  /\ loop \in [Services -> Loops]
  /\ latest \in [Services -> Seq(Calls \union {None})]
  /\ audio \in [Services -> Audio \union {None}]
  /\ wanted \in [Services -> Wishes \union {None}]
  /\ refused \in [Services -> SUBSET Links]
  /\ session \in [Services -> Sessions] /\ now \in Sessions
  /\ slot \in Slots \union {None}
  /\ reserved \in BOOLEAN
  /\ shown \in Links \union {None} /\ rung \subseteq Links
  /\ command \in [Callers -> Commands] /\ memo \in Memos /\ down \in Downs
  /\ life \in {"free", "memo", "switch", "alert"}
  /\ alerts \subseteq Alerts /\ alerted \subseteq [of : Services, found : Sessions]
  /\ spurned \subseteq Links /\ asked \in 0..MaxAsked
  /\ least \in [Links -> (Profiles \ Opus) \union {None}]

Waiting ==
  \/ \E p \in Callers : Is(p, "handoff")
  \/ \E k \in Services : loop[k].at = "handoff"

(* While the microphone is reserved for a call, a memo captures only as    *)
(* long as whoever made the reservation has yet to cancel it: however the  *)
(* start of a memo and of calls interleave, no memo slips in between.      *)
HandoffComplete == reserved /\ memo.capture => Waiting

(* A call the policy turned down stays unseen: it never rings in the user  *)
(* interface, is never the call of the stored snapshot, and no audio of it *)
(* is ever started.                                                        *)
RejectedUnseen ==
  \A l \in spurned :
    l \notin rung /\ shown # l /\ \A k \in Services : audio[k] # None => audio[k].link # l

(* An alert is raised only while the session of the service that got the   *)
(* call still runs: a switch leaves no alert of the identity it ended.     *)
AlertsInSession ==
  \A a \in alerted : a.found = session[a.of] /\ ~a.found.triggered

(* A call that has run with a constrained codec never runs with Opus or a  *)
(* higher profile again, in whatever order snapshots, recovery ticks and   *)
(* requests for another profile come.  It is said of the first service     *)
(* only: the end of the loop of any other clears the slot, whoever's it is.*)
CeilingKept ==
  made =< 1 =>
    \A k \in Services :
      audio[k] # None /\ least[audio[k].link] # None =>
        audio[k].profile \notin Opus /\ audio[k].profile =< least[audio[k].link]

(* A call's microphone and a memo's are never open together: the           *)
(* reservation begins before signalling and ends only when a call ends.    *)
MicrophoneNotShared ==
  ~ (memo.capture /\ \E k \in Services : audio[k] # None)

Quiet ==
  /\ \A k \in Services : call[k] = None /\ loop[k].at \notin {"policy", "handoff"}
  /\ \A p \in Callers : Is(p, "idle")

Released == ~reserved /\ \A k \in Services : audio[k] = None

(* When calls and commands are over, the reservation and every audio       *)
(* session end, unless another call comes first.                           *)
CallsLeaveNothing == Quiet ~> (Released \/ ~Quiet)

(* A switch of the identity completes although it joins the event loop     *)
(* under the lifecycle lock, without the help of its time limit.           *)
SwitchCompletes == life = "switch" ~> life # "switch"

=============================================================================
