--------------------------- MODULE VoiceCallsProofs ---------------------------
(***************************************************************************)
(* What VoiceCalls promises for every set of links, codec profiles and     *)
(* services: no memo records beside a reservation once its owner has       *)
(* cancelled the recording, no alert outlives the session of its call, a   *)
(* call the policy turned down stays unseen, and a constrained call keeps  *)
(* its ceiling.                                                            *)
(***************************************************************************)
EXTENDS VoiceCalls, SequenceTheorems, TLAPS

-----------------------------------------------------------------------------
(* Types.                                                                  *)

LEMMA AppendType ==
  ASSUME NEW S, NEW D, NEW f \in [D -> Seq(S)], NEW k \in D, NEW e \in S
  PROVE  [f EXCEPT ![k] = Append(@, e)] \in [D -> Seq(S)]
<1>1. Append(f[k], e) \in Seq(S)
  OBVIOUS
<1> QED BY <1>1

LEMMA TailType ==
  ASSUME NEW S, NEW D, NEW f \in [D -> Seq(S)], NEW k \in D, f[k] # <<>>
  PROVE  [f EXCEPT ![k] = Tail(@)] \in [D -> Seq(S)] /\ Head(f[k]) \in S
<1>1. Tail(f[k]) \in Seq(S) /\ Head(f[k]) \in S
  OBVIOUS
<1> QED BY <1>1

LEMMA BecomesType ==
  ASSUME TypeOK, NEW k \in Services, NEW c \in Calls \union {None}, NEW events,
         events = <<>> \/ \E e \in Reports : events = <<e>>, Becomes(k, c, events)
  PROVE  call' \in [Services -> Calls \union {None}] /\ reports' \in [Services -> Seq(Reports)]
<1>1. Report("snapshot", c) \in Reports
  BY DEF Report, Reports
<1>2. Append(events, Report("snapshot", c)) \in Seq(Reports)
  <2>1. CASE events = <<>>
    BY <1>1, <2>1
  <2>2. ASSUME NEW e \in Reports, events = <<e>>
        PROVE  Append(events, Report("snapshot", c)) \in Seq(Reports)
    <3>1. <<e>> \in Seq(Reports)
      OBVIOUS
    <3> QED BY <1>1, <2>2, <3>1
  <2> QED BY <2>1, <2>2
<1>3. reports[k] \o Append(events, Report("snapshot", c)) \in Seq(Reports)
  BY <1>2 DEF TypeOK
<1>4. reports' = [reports EXCEPT ![k] = reports[k] \o Append(events, Report("snapshot", c))]
  BY DEF Becomes
<1>5. reports' \in [Services -> Seq(Reports)]
  BY <1>3, <1>4 DEF TypeOK
<1> QED BY <1>5 DEF Becomes, TypeOK

LEMMA AtType ==
  ASSUME TypeOK, NEW k \in Services, NEW where, NEW l \in Links \union {None}, At(k, where, l),
         where \in {"free", "ended"} \/ (where \in {"policy", "handoff"} /\ l \in Links)
  PROVE  loop' \in [Services -> Loops]
<1>1. [at |-> where, link |-> l] \in Loops
  BY DEF Loops
<1> QED BY <1>1 DEF At, TypeOK

LEMMA GoesType ==
  ASSUME TypeOK, NEW p \in Callers, Goes(p, "idle") \/ Goes(p, "ensure") \/ Goes(p, "signal")
         \/ Goes(p, "failed") \/ Goes(p, "handoff")
  PROVE  command' \in [Callers -> Commands]
<1> DEFINE Steps2 == {"idle", "ensure", "signal", "failed", "handoff"}
<1>1. PICK where \in Steps2 : Goes(p, where)
  OBVIOUS
<1>2. [command[p] EXCEPT !.at = where] \in Commands
  BY DEF TypeOK, Commands
<1>3. command' = [command EXCEPT ![p] = [command[p] EXCEPT !.at = where]]
  BY <1>1, Zenon DEF Goes
<1> QED BY <1>2, <1>3 DEF TypeOK

LEMMA SendType ==
  ASSUME TypeOK, NEW k \in Services, NEW c \in Controls, Send(k, c)
  PROVE  controls' \in [Services -> Seq(Controls)]
BY AppendType DEF Send, TypeOK

LEMMA CancelType == ASSUME TypeOK, CancelMemo PROVE memo' \in Memos
BY DEF TypeOK, CancelMemo, Memos

LEMMA StepsType ==
  ASSUME TypeOK, NEW from, NEW to \in {"idle", "take", "task", "release", "trigger", "renew",
                                       "boot"},
         Steps(from, to)
  PROVE  down' \in Downs
BY DEF TypeOK, Steps, Downs

LEMMA AbortType ==
  ASSUME TypeOK, NEW k, Abort(k)
  PROVE  /\ service' \in [Services -> {"none", "up", "gone"}]
         /\ call' \in [Services -> Calls \union {None}]
         /\ controls' \in [Services -> Seq(Controls)]
<1>1. /\ service' \in [Services -> {"none", "up", "gone"}]
      /\ call' \in [Services -> Calls \union {None}]
  BY DEF TypeOK, Abort
<1>2. controls \in [Services -> Seq(Controls)] /\ <<>> \in Seq(Controls)
  BY DEF TypeOK
<1>3. controls' \in [Services -> Seq(Controls)]
  BY <1>2, Zenon DEF Abort
<1> QED BY <1>1, <1>3

LEMMA StopAudioType ==
  ASSUME TypeOK, NEW k, StopAudio(k)
  PROVE  audio' \in [Services -> Audio \union {None}]
BY DEF TypeOK, StopAudio

-----------------------------------------------------------------------------
(* The telephony service and the remote side.                              *)

LEMMA ExternalTypes ==
  ASSUME TypeOK, NEW k \in Services,
         \/ \E l \in Links : CallArrives(k, l)
         \/ PlaceCall(k) \/ TakeHangup(k) \/ TakeSwitch(k) \/ TakeShutdown(k)
         \/ Establish(k) \/ RemoteSwitch(k) \/ RemoteHangup(k)
  PROVE  TypeOK'
<1> USE VoiceAssumption DEF extv, loopv, userv, lifev, histv
<1>0. /\ call[k] # None => call[k] \in Calls /\ call[k].link \in Links
      /\ None \in Calls \union {None}
  BY DEF TypeOK, Calls
<1>1. ASSUME NEW l \in Links, CallArrives(k, l) PROVE TypeOK'
  <2> DEFINE c == [link |-> l, status |-> "ringing", profile |-> None]
  <2>1. c \in Calls /\ Report("incoming", c) \in Reports
    BY DEF Calls, Report, Reports
  <2> HIDE DEF c
  <2>2. Becomes(k, c, <<Report("incoming", c)>>)
    BY <1>1 DEF CallArrives, c
  <2>3. call' \in [Services -> Calls \union {None}] /\ reports' \in [Services -> Seq(Reports)]
    BY <2>1, <2>2, BecomesType
  <2> QED BY <1>1, <2>3 DEF CallArrives, TypeOK
<1>2. CASE PlaceCall(k)
  <2>1. controls' \in [Services -> Seq(Controls)]
    BY <1>2, TailType DEF PlaceCall, Take, TypeOK
  <2>2. ASSUME NEW l \in Links \ used,
               Becomes(k, [link |-> l, status |-> "calling", profile |-> None], <<>>),
               used' = used \union {l}
        PROVE  TypeOK'
    <3>1. [link |-> l, status |-> "calling", profile |-> None] \in Calls
      BY DEF Calls
    <3>2. call' \in [Services -> Calls \union {None}] /\ reports' \in [Services -> Seq(Reports)]
      BY <2>2, <3>1, BecomesType
    <3> QED BY <1>2, <2>1, <2>2, <3>2 DEF PlaceCall, Take, TypeOK
  <2>3. CASE /\ reports' = [reports EXCEPT ![k] = Append(@, Report("failed", None))]
             /\ UNCHANGED <<call, used>>
    <3>1. Report("failed", None) \in Reports
      BY DEF Report, Reports
    <3>2. reports' \in [Services -> Seq(Reports)]
      BY <2>3, <3>1, AppendType DEF TypeOK
    <3> QED BY <1>2, <2>1, <2>3, <3>2 DEF PlaceCall, Take, TypeOK
  <2> QED BY <1>2, <2>2, <2>3 DEF PlaceCall
<1>3. CASE TakeHangup(k)
  <2>1. controls' \in [Services -> Seq(Controls)]
    BY <1>3, TailType DEF TakeHangup, Take, TypeOK
  <2>2. CASE call[k] # None
    <3>1. Report("ended", call[k]) \in Reports
      BY <1>0, <2>2 DEF Report, Reports
    <3>2. call' \in [Services -> Calls \union {None}] /\ reports' \in [Services -> Seq(Reports)]
      BY <1>3, <2>2, <3>1, BecomesType DEF TakeHangup, Ended
    <3> QED BY <1>3, <2>1, <3>2 DEF TakeHangup, Take, TypeOK
  <2> QED BY <1>3, <2>1, <2>2 DEF TakeHangup, Take, TypeOK
<1>4. CASE TakeSwitch(k)
  <2>1. /\ controls' \in [Services -> Seq(Controls)]
        /\ Head(controls[k]) \in Controls /\ Head(controls[k]).kind = "switch"
    BY <1>4, TailType DEF TakeSwitch, Take, TypeOK
  <2>2. CASE ~ (call[k] = None \/ call[k].status # "established")
    <3>1. Head(controls[k]).to \in Profiles
      BY <2>1 DEF Controls
    <3>2. [call[k] EXCEPT !.profile = Head(controls[k]).to] \in Calls
      BY <1>0, <2>2, <3>1 DEF Calls
    <3>3. call' \in [Services -> Calls \union {None}] /\ reports' \in [Services -> Seq(Reports)]
      BY <1>4, <2>2, <3>2, BecomesType DEF TakeSwitch
    <3> QED BY <1>4, <2>1, <3>3 DEF TakeSwitch, Take, TypeOK
  <2> QED BY <1>4, <2>1, <2>2 DEF TakeSwitch, Take, TypeOK
<1>5. CASE TakeShutdown(k)
  <2>1. controls' \in [Services -> Seq(Controls)]
    BY <1>5, TailType DEF TakeShutdown, Take, TypeOK
  <2>2. Report("stopped", None) \in Reports
    BY DEF Report, Reports
  <2>3. reports' \in [Services -> Seq(Reports)]
    BY <1>5, <2>2, AppendType DEF TakeShutdown, TypeOK
  <2> QED BY <1>5, <2>1, <2>3 DEF TakeShutdown, Take, TypeOK
<1>6. CASE Establish(k)
  <2>1. PICK p \in Profiles :
          Becomes(k, [call[k] EXCEPT !.status = "established", !.profile = p], <<>>)
    BY <1>6 DEF Establish
  <2>2. [call[k] EXCEPT !.status = "established", !.profile = p] \in Calls
    BY <1>0, <1>6 DEF Establish, Calls
  <2>3. call' \in [Services -> Calls \union {None}] /\ reports' \in [Services -> Seq(Reports)]
    BY <2>1, <2>2, BecomesType
  <2> QED BY <1>6, <2>3 DEF Establish, TypeOK
<1>7. CASE RemoteSwitch(k)
  <2>1. PICK p \in Profiles : Becomes(k, [call[k] EXCEPT !.profile = p], <<>>)
    BY <1>7 DEF RemoteSwitch
  <2>2. [call[k] EXCEPT !.profile = p] \in Calls
    BY <1>0, <1>7 DEF RemoteSwitch, Calls
  <2>3. call' \in [Services -> Calls \union {None}] /\ reports' \in [Services -> Seq(Reports)]
    BY <2>1, <2>2, BecomesType
  <2> QED BY <1>7, <2>3 DEF RemoteSwitch, TypeOK
<1>8. CASE RemoteHangup(k)
  <2>1. Report("ended", call[k]) \in Reports
    BY <1>0, <1>8 DEF RemoteHangup, Report, Reports
  <2>2. call' \in [Services -> Calls \union {None}] /\ reports' \in [Services -> Seq(Reports)]
    BY <1>8, <2>1, BecomesType DEF RemoteHangup, Ended
  <2> QED BY <1>8, <2>2 DEF RemoteHangup, TypeOK
<1> QED BY <1>1, <1>2, <1>3, <1>4, <1>5, <1>6, <1>7, <1>8

-----------------------------------------------------------------------------
(* The event loop.                                                         *)

LEMMA ReadType ==
  ASSUME TypeOK, NEW k \in Services, NEW kind, Read(k, kind)
  PROVE  /\ reports' \in [Services -> Seq(Reports)]
         /\ Head(reports[k]) \in Reports /\ Head(reports[k]).kind = kind
         /\ kind \in {"incoming", "ended"} =>
              Head(reports[k]).call \in Calls /\ Head(reports[k]).call.link \in Links
         /\ Head(reports[k]).call \in Calls \union {None}
<1>1. reports' \in [Services -> Seq(Reports)] /\ Head(reports[k]) \in Reports
      /\ Head(reports[k]).kind = kind
  BY TailType DEF Read, TypeOK
<1> QED BY <1>1 DEF Reports, Calls

LEMMA ReconcileType ==
  ASSUME TypeOK, NEW k \in Services, NEW c \in Calls \union {None}, Reconcile(k, c)
  PROVE  /\ slot' \in Slots \union {None}
         /\ audio' \in [Services -> Audio \union {None}]
         /\ controls' \in [Services -> Seq(Controls)]
         /\ least' \in [Links -> (Profiles \ Opus) \union {None}]
<1>1. CASE c = None \/ c.status # "established"
  BY <1>1, StopAudioType DEF Reconcile, TypeOK
<1>2. CASE c # None /\ c.status = "established"
  <2>1. c.link \in Links /\ c.profile \in Profiles
    BY <1>2 DEF Calls
  <2>2. CASE Ceiling(c.link, c.profile) # None
    <3>1. Ceiling(c.link, c.profile) \in Profiles
      BY <2>2 DEF Ceiling, TypeOK, Slots
    <3>2. Switch(Ceiling(c.link, c.profile)) \in Controls
      BY <3>1 DEF Switch, Controls
    <3> QED BY <1>2, <2>2, <3>2, SendType DEF Reconcile, TypeOK
  <2>3. CASE Ceiling(c.link, c.profile) = None
    <3>1. Synced(c.link, c.profile) \in Slots \union {None}
      BY <2>1 DEF Synced, Slots
    <3>2. slot' = Synced(c.link, c.profile) /\ UNCHANGED controls
      BY <1>2, <2>3 DEF Reconcile
    <3>3. CASE UNCHANGED <<audio, least>>
      BY <3>1, <3>2, <3>3 DEF TypeOK
    <3>4. CASE StopAudio(k) /\ UNCHANGED least
      BY <3>1, <3>2, <3>4, StopAudioType DEF TypeOK
    <3>5. CASE /\ audio' = [audio EXCEPT ![k] = [link |-> c.link, profile |-> c.profile]]
               /\ least' = [least EXCEPT ![c.link] =
                    IF c.profile \in Opus \/ (@ # None /\ @ < c.profile) THEN @ ELSE c.profile]
      <4>1. [link |-> c.link, profile |-> c.profile] \in Audio
        BY <2>1 DEF Audio
      <4>2. audio' \in [Services -> Audio \union {None}]
        BY <3>5, <4>1 DEF TypeOK
      <4>3. least' \in [Links -> (Profiles \ Opus) \union {None}]
        BY <2>1, <3>5 DEF TypeOK
      <4> QED BY <3>1, <3>2, <4>2, <4>3 DEF TypeOK
    <3> QED BY <1>2, <2>3, <3>3, <3>4, <3>5 DEF Reconcile, StartAudio
  <2> QED BY <2>2, <2>3
<1> QED BY <1>1, <1>2

LEMMA AdaptedType ==
  ASSUME TypeOK, NEW k \in Services, NEW c \in Calls \union {None}, NEW w \in Adapted(k, c)
  PROVE  w \in Wishes \union {None}
<1>1. CASE w = None \/ w = wanted[k]
  BY <1>1 DEF TypeOK
<1>2. CASE c \in Calls /\ \E p \in Opus : w = [link |-> c.link, to |-> p]
  BY <1>2 DEF Wishes, Calls
<1> QED BY <1>1, <1>2 DEF Adapted

LEMMA RequestType ==
  ASSUME TypeOK, NEW k \in Services, NEW w \in Wishes \union {None}, Request(k, w), Adapts(k, w)
  PROVE  /\ controls' \in [Services -> Seq(Controls)]
         /\ wanted' \in [Services -> Wishes \union {None}]
<1>1. w # None => Switch(w.to) \in Controls
  BY VoiceAssumption DEF Switch, Controls, Wishes
<1>2. controls' \in [Services -> Seq(Controls)]
  BY <1>1, SendType DEF Request, TypeOK
<1> QED BY <1>2 DEF Adapts, TypeOK

LEMMA LoopTypes ==
  ASSUME TypeOK, NEW k \in Services, Loop(k) \/ Tick(k) \/ Media(k)
  PROVE  TypeOK'
<1> USE DEF extv, loopv, userv, lifev, histv
<1>0. /\ loop[k] \in Loops
      /\ loop[k].at \in {"policy", "handoff"} => loop[k].link \in Links
      /\ Hangup \in Controls
  BY DEF TypeOK, Loops, Hangup, Controls
<1>1. CASE ReadIncoming(k)
  BY <1>1, ReadType, AtType DEF ReadIncoming, Read, TypeOK
<1>2. CASE TurnDown(k)
  <2>1. refused' \in [Services -> SUBSET Links]
    BY <1>0, <1>2 DEF TurnDown, TypeOK
  <2>2. loop' \in [Services -> Loops]
    BY <1>2, AtType DEF TurnDown
  <2>3. controls' \in [Services -> Seq(Controls)]
    BY <1>0, <1>2, SendType DEF TurnDown
  <2>4. spurned' \subseteq Links
    BY <1>0, <1>2 DEF TurnDown, TypeOK
  <2> QED BY <1>2, <2>1, <2>2, <2>3, <2>4 DEF TurnDown, TypeOK
<1>3. CASE Admit(k)
  BY <1>0, <1>3, AtType DEF Admit, TypeOK
<1>4. CASE Announce(k)
  <2>1. [of |-> k, link |-> loop[k].link, held |-> FALSE] \in Alerts
    BY <1>0, <1>4 DEF Announce, Alerts
  <2>2. loop' \in [Services -> Loops] /\ memo' \in Memos
    BY <1>4, AtType, CancelType DEF Announce
  <2>3. rung' \subseteq Links /\ alerts' \subseteq Alerts
    BY <1>0, <1>4, <2>1 DEF Announce, TypeOK
  <2> QED BY <1>4, <2>2, <2>3 DEF Announce, TypeOK
<1>5. CASE ReadFailed(k)
  BY <1>5, ReadType DEF ReadFailed, Read, TypeOK
<1>6. CASE ReadEnded(k)
  <2>1. reports' \in [Services -> Seq(Reports)]
    BY <1>6, ReadType DEF ReadEnded
  <2>2. refused' \in [Services -> SUBSET Links]
    <3>1. \/ refused' = refused
          \/ refused' = [refused EXCEPT ![k] = refused[k] \ {Head(reports[k]).call.link}]
      BY <1>6 DEF ReadEnded
    <3> QED BY <3>1 DEF TypeOK
  <2>3. audio' \in [Services -> Audio \union {None}]
    BY <1>6, StopAudioType DEF ReadEnded, TypeOK
  <2>4. /\ wanted' \in [Services -> Wishes \union {None}] /\ reserved' \in BOOLEAN
        /\ shown' \in Links \union {None}
    BY <1>6 DEF ReadEnded, Adapts, TypeOK
  <2>5. latest' \in [Services -> Seq(Calls \union {None})]
    <3>1. <<>> \in Seq(Calls \union {None}) /\ latest \in [Services -> Seq(Calls \union {None})]
      BY DEF TypeOK
    <3>2. latest' = latest \/ latest' = [latest EXCEPT ![k] = <<>>]
      BY <1>6 DEF ReadEnded
    <3> QED BY <3>1, <3>2
  <2> QED BY <1>6, <2>1, <2>2, <2>3, <2>4, <2>5 DEF ReadEnded, Read, TypeOK
<1>7. CASE ReadSnapshot(k)
  <2> DEFINE c == Head(reports[k]).call
  <2>1. reports' \in [Services -> Seq(Reports)] /\ c \in Calls \union {None}
    BY <1>7, ReadType DEF ReadSnapshot
  <2>2. latest' \in [Services -> Seq(Calls \union {None})]
    <3>1. <<c>> \in Seq(Calls \union {None}) /\ latest \in [Services -> Seq(Calls \union {None})]
      BY <2>1 DEF TypeOK
    <3>2. latest' = [latest EXCEPT ![k] = <<c>>]
      BY <1>7 DEF ReadSnapshot
    <3> QED BY <3>1, <3>2
  <2>3. CASE UNCHANGED <<audio, wanted, controls, slot, shown, least>>
    BY <1>7, <2>1, <2>2, <2>3 DEF ReadSnapshot, Read, TypeOK
  <2>4. ASSUME NEW w \in Adapted(k, c), Adapts(k, w), shown' = IF c = None THEN None ELSE c.link,
               IF w = None THEN Reconcile(k, c)
               ELSE Request(k, w) /\ StopAudio(k) /\ UNCHANGED <<slot, least>>
        PROVE  TypeOK'
    <3>1. w \in Wishes \union {None}
      BY <2>1, AdaptedType
    <3>2. wanted' \in [Services -> Wishes \union {None}]
      BY <2>4, <3>1 DEF Adapts, TypeOK
    <3>3. shown' \in Links \union {None}
      BY <2>1, <2>4 DEF Calls
    <3> HIDE DEF c
    <3>4. /\ slot' \in Slots \union {None} /\ audio' \in [Services -> Audio \union {None}]
          /\ controls' \in [Services -> Seq(Controls)]
          /\ least' \in [Links -> (Profiles \ Opus) \union {None}]
      <4>1. CASE w = None
        BY <2>1, <2>4, <4>1, ReconcileType
      <4>2. CASE w # None
        BY <2>4, <3>1, <4>2, RequestType, StopAudioType DEF TypeOK
      <4> QED BY <4>1, <4>2
    <3> QED BY <1>7, <2>1, <2>2, <3>2, <3>3, <3>4 DEF ReadSnapshot, Read, TypeOK
  <2> QED BY <1>7, <2>3, <2>4 DEF ReadSnapshot
<1>8. CASE LoopEnds(k)
  <2>1. reports' \in [Services -> Seq(Reports)] /\ shown' \in Links \union {None}
        /\ UNCHANGED <<call, service, used>>
    BY <1>8, ReadType DEF LoopEnds, Read, TypeOK
  <2>2. loop' \in [Services -> Loops]
    <3>1. At(k, "ended", None)
      BY <1>8 DEF LoopEnds
    <3> QED BY <3>1, AtType
  <2>3. wanted' \in [Services -> Wishes \union {None}]
    BY <1>8 DEF LoopEnds, Adapts, TypeOK
  <2> QED BY <1>8, <2>1, <2>2, <2>3, StopAudioType DEF LoopEnds, TypeOK
<1>9. ASSUME Tick(k) \/ Media(k) PROVE TypeOK'
  <2>1. Head(latest[k]) \in Calls \union {None}
    BY <1>9, TailType DEF Tick, Media, TypeOK
  <2>2. CASE Tick(k)
    BY <2>1, <2>2, ReconcileType DEF Tick, TypeOK
  <2>3. CASE Media(k)
    <3>1. PICK w \in Adapted(k, Head(latest[k])) : Adapts(k, w) /\ Request(k, w)
      BY <2>3 DEF Media
    <3>2. w \in Wishes \union {None}
      BY <2>1, AdaptedType
    <3> QED BY <2>3, <3>1, <3>2, RequestType DEF Media, TypeOK
  <2> QED BY <1>9, <2>2, <2>3
<1> QED BY <1>1, <1>2, <1>3, <1>4, <1>5, <1>6, <1>7, <1>8, <1>9 DEF Loop

-----------------------------------------------------------------------------
(* Commands, memos, the shutdown and alerts.                               *)

(* What the types of the steps below need to know of each other.           *)
Answering == command["answer"].at # "idle" => command["answer"].link \in rung

LEMMA CommandTypes ==
  ASSUME TypeOK, Answering, NEW p \in Callers,
         \/ HandOff(p) \/ Found(p) \/ Register(p) \/ NotRegistered(p) \/ Publish(p)
         \/ p = "call" /\ SendCall
         \/ p = "answer" /\ SendAnswer
         \/ Unreachable(p) \/ Fails(p)
  PROVE  TypeOK'
<1> USE VoiceAssumption DEF extv, loopv, userv, lifev, histv
<1>0. Goes(p, Ready(p)) => command' \in [Callers -> Commands]
  BY GoesType DEF Ready
<1>1. CASE HandOff(p)
  BY <1>1, CancelType, GoesType DEF HandOff, TypeOK
<1>2. CASE Found(p)
  BY <1>0, <1>2 DEF Found, TypeOK
<1>3. CASE Register(p)
  <2>1. made' \in 0..MaxServices /\ made' \in Services
    BY <1>3 DEF Register, TypeOK, Services
  <2>2. service' \in [Services -> {"none", "up", "gone"}]
        /\ session' \in [Services -> Sessions]
    BY <1>3, <2>1 DEF Register, TypeOK
  <2>3. loop' \in [Services -> Loops]
    <3>1. loop[made'] \in Loops
      BY <2>1 DEF TypeOK
    <3>2. [loop[made'] EXCEPT !.at = "free"] = [at |-> "free", link |-> loop[made'].link]
          /\ loop[made'].link \in Links \union {None}
      BY <3>1 DEF Loops
    <3>3. [loop[made'] EXCEPT !.at = "free"] \in Loops
      BY <3>2 DEF Loops
    <3> QED BY <1>3, <2>1, <3>3 DEF Register, TypeOK
  <2>4. command' \in [Callers -> Commands]
    <3>1. command[p] \in Commands /\ made' \in 0..MaxServices
      BY <2>1 DEF TypeOK
    <3>2. [command[p] EXCEPT !.at = "publish", !.own = made'] \in Commands
      BY <3>1 DEF Commands
    <3> QED BY <1>3, <3>2 DEF Register, TypeOK
  <2> QED BY <1>3, <2>1, <2>2, <2>3, <2>4 DEF Register, TypeOK
<1>4. CASE NotRegistered(p)
  BY <1>4, GoesType DEF NotRegistered, TypeOK
<1>5. CASE Publish(p)
  <2>1. /\ handle' \in 0..MaxServices /\ service' \in [Services -> {"none", "up", "gone"}]
        /\ call' \in [Services -> Calls \union {None}]
        /\ controls' \in [Services -> Seq(Controls)]
    BY <1>5, AbortType DEF Publish, TypeOK, Commands
  <2> QED BY <1>0, <1>5, <2>1 DEF Publish, TypeOK
<1>6. CASE p = "call" /\ SendCall
  <2>1. [kind |-> "call"] \in Controls /\ handle \in Services
    BY <1>6 DEF Controls, SendCall, Reach, TypeOK, Services
  <2>2. controls' \in [Services -> Seq(Controls)]
    BY <1>6, <2>1, AppendType DEF SendCall, Queue, TypeOK
  <2> QED BY <1>6, <2>2, GoesType DEF SendCall, TypeOK
<1>7. CASE p = "answer" /\ SendAnswer
  <2>1. [kind |-> "answer", link |-> command["answer"].link] \in Controls /\ handle \in Services
    BY <1>7 DEF Controls, SendAnswer, Reach, TypeOK, Services, Answering, Is
  <2>2. controls' \in [Services -> Seq(Controls)]
    BY <1>7, <2>1, AppendType DEF SendAnswer, Queue, TypeOK
  <2>3. command' \in [Callers -> Commands]
    <3>1. command["answer"] \in Commands /\ handle \in 0..MaxServices
      BY <1>7 DEF TypeOK
    <3>2. [command["answer"] EXCEPT !.at = "reply", !.own = handle] \in Commands
      BY <3>1 DEF Commands
    <3> QED BY <1>7, <3>2 DEF SendAnswer, TypeOK
  <2> QED BY <1>7, <2>2, <2>3 DEF SendAnswer, TypeOK
<1>8. CASE Unreachable(p)
  BY <1>8, GoesType DEF Unreachable, TypeOK
<1>9. CASE Fails(p)
  BY <1>9, GoesType DEF Fails, TypeOK
<1> QED BY <1>1, <1>2, <1>3, <1>4, <1>5, <1>6, <1>7, <1>8, <1>9

LEMMA TakeAnswerTypes ==
  ASSUME TypeOK, NEW k \in Services, TakeAnswer(k)
  PROVE  TypeOK'
<1> USE DEF loopv, lifev, histv
<1>1. controls' \in [Services -> Seq(Controls)]
  BY TailType DEF TakeAnswer, Take, TypeOK
<1>2. call' \in [Services -> Calls \union {None}] /\ reports' \in [Services -> Seq(Reports)]
  <2>1. CASE UNCHANGED <<call, reports>>
    BY <2>1 DEF TypeOK
  <2>2. ASSUME call[k] # None, call[k].status = "ringing",
               Becomes(k, [call[k] EXCEPT !.status = "connecting"], <<>>)
        PROVE  call' \in [Services -> Calls \union {None}]
               /\ reports' \in [Services -> Seq(Reports)]
    <3>1. [call[k] EXCEPT !.status = "connecting"] \in Calls
      <4>1. call[k] \in Calls
        BY <2>2 DEF TypeOK
      <4>2. /\ [call[k] EXCEPT !.status = "connecting"] =
                 [link |-> call[k].link, status |-> "connecting", profile |-> None]
            /\ call[k].link \in Links
        BY <2>2, <4>1 DEF Calls
      <4> QED BY <4>2 DEF Calls
    <3> QED BY <2>2, <3>1, BecomesType
  <2> QED BY <2>1, <2>2 DEF TakeAnswer
<1>3. command' \in [Callers -> Commands]
  <2>1. \A at \in {"idle", "failed"} : [command["answer"] EXCEPT !.at = at] \in Commands
    BY DEF TypeOK, Commands, Callers
  <2>2. \/ command' = [command EXCEPT !["answer"] = command["answer"]]
        \/ \E at \in {"idle", "failed"} :
             command' = [command EXCEPT !["answer"] = [command["answer"] EXCEPT !.at = at]]
    BY DEF TakeAnswer
  <2> QED BY <2>1, <2>2 DEF TypeOK, Callers
<1> QED BY <1>1, <1>2, <1>3 DEF TakeAnswer, Take, TypeOK

LEMMA UserTypes ==
  ASSUME TypeOK, User
  PROVE  TypeOK'
<1> USE VoiceAssumption DEF extv, loopv, userv, lifev, histv
<1>0. Ask => asked' \in 0..MaxAsked
  BY DEF Ask, TypeOK
<1>c. "call" \in Callers /\ "boot" \in Callers /\ "answer" \in Callers
  BY DEF Callers
<1>1. CASE VoiceCall
  BY <1>0, <1>1, <1>c, GoesType DEF VoiceCall, TypeOK
<1>2. CASE VoiceStart
  BY <1>0, <1>2, <1>c, GoesType DEF VoiceStart, TypeOK
<1>3. CASE VoiceHangup
  <2>1. controls' \in [Services -> Seq(Controls)] /\ reserved' \in BOOLEAN
    <3>1. Hangup \in Controls /\ (handle # 0 => handle \in Services)
      BY DEF Hangup, Controls, TypeOK, Services
    <3> QED BY <1>3, <3>1, SendType DEF VoiceHangup, TypeOK
  <2> QED BY <1>0, <1>3, <2>1 DEF VoiceHangup, TypeOK
<1>4. CASE VoiceStop
  <2>1. down' \in Downs
    BY <1>4 DEF VoiceStop, Downs
  <2> QED BY <1>0, <1>4, <2>1 DEF VoiceStop, TypeOK
<1>5. CASE SwitchIdentity
  <2>1. down' \in Downs
    BY <1>5 DEF SwitchIdentity, Downs
  <2>2. now' \in Sessions
    <3>1. now \in Sessions /\ now.gen + 1 \in 0..MaxSwitches
      BY <1>5 DEF SwitchIdentity, Sessions, TypeOK
    <3> QED BY <1>5, <3>1 DEF SwitchIdentity, Sessions
  <2> QED BY <1>0, <1>5, <2>1, <2>2 DEF SwitchIdentity, TypeOK
<1>6. ASSUME NEW l \in rung, VoiceAnswer(l) PROVE TypeOK'
  <2>1. [at |-> "handoff", link |-> l, own |-> 0] \in Commands
    BY DEF Commands, TypeOK
  <2>2. command' \in [Callers -> Commands]
    BY <1>6, <2>1 DEF VoiceAnswer, TypeOK
  <2> QED BY <1>0, <1>6, <2>2 DEF VoiceAnswer, TypeOK
<1>7. CASE StartMemo
  <2>1. memo' \in Memos
    BY <1>7 DEF StartMemo, Memos, TypeOK
  <2> QED BY <1>0, <1>7, <2>1 DEF StartMemo, TypeOK
<1>8. CASE EndMemo
  BY <1>8, CancelType DEF EndMemo, TypeOK
<1> QED BY <1>1, <1>2, <1>3, <1>4, <1>5, <1>6, <1>7, <1>8 DEF User

LEMMA RestTypes ==
  ASSUME TypeOK, now.signal < now.gen \/ down.at # "renew",
         EnterMemo \/ OpenMemo \/ Shutdown \/ LoopTimeout
         \/ \E a \in alerts : LockAlert(a) \/ RaiseAlert(a)
  PROVE  TypeOK'
<1> USE VoiceAssumption DEF extv, loopv, userv, lifev, histv
<1>1. CASE EnterMemo
  <2>1. memo' \in Memos
    BY <1>1 DEF EnterMemo, Memos, TypeOK
  <2> QED BY <1>1, <2>1 DEF EnterMemo, TypeOK
<1>2. CASE OpenMemo
  <2>1. memo' \in Memos
    BY <1>2 DEF OpenMemo, Memos
  <2> QED BY <1>2, <2>1 DEF OpenMemo, TypeOK
<1>3. CASE StopMemo
  BY <1>3, StepsType, CancelType DEF StopMemo, TypeOK
<1>4. CASE TakeHandle
  <2>1. down' \in Downs
    BY <1>4 DEF TakeHandle, Downs, TypeOK
  <2>2. controls' \in [Services -> Seq(Controls)]
    <3>1. [kind |-> "shutdown"] \in Controls /\ (Reach => handle \in Services)
      BY DEF Controls, Reach, TypeOK, Services
    <3>2. controls \in [Services -> Seq(Controls)]
      BY DEF TypeOK
    <3>3. CASE Reach
      <4>1. Queue(handle, [kind |-> "shutdown"])
        BY <1>4, <3>3 DEF TakeHandle
      <4> QED BY <3>1, <3>2, <3>3, <4>1, AppendType DEF Queue
    <3>4. CASE ~Reach
      BY <1>4, <3>2, <3>4 DEF TakeHandle
    <3> QED BY <3>3, <3>4
  <2> QED BY <1>4, <2>1, <2>2 DEF TakeHandle, TypeOK
<1>5. CASE LoopJoined \/ LoopTimeout
  BY <1>5, StepsType DEF LoopJoined, LoopTimeout, TypeOK
<1>6. CASE TaskEnds
  BY <1>6, StepsType, AbortType DEF TaskEnds, TypeOK
<1>7. CASE Release
  BY <1>7, StepsType DEF Release, TypeOK
<1>8. CASE Trigger
  <2>1. now' \in Sessions
    BY <1>8 DEF Trigger, Sessions, TypeOK
  <2> QED BY <1>8, <2>1, StepsType DEF Trigger, TypeOK
<1>9. CASE Renew
  <2>1. now' \in Sessions
    <3>1. now \in Sessions /\ now.signal < now.gen
      BY <1>9 DEF Renew, Steps, TypeOK
    <3>2. now.signal + 1 \in 0..MaxSwitches
      BY <3>1 DEF Sessions
    <3> QED BY <1>9, <3>1, <3>2 DEF Renew, Sessions
  <2>2. command' \in [Callers -> Commands]
    BY <1>9, GoesType DEF Renew, Callers
  <2> QED BY <1>9, <2>1, <2>2, StepsType DEF Renew, TypeOK
<1>10. CASE SwitchEnds
  BY <1>10, StepsType DEF SwitchEnds, TypeOK
<1>11. ASSUME NEW a \in alerts, LockAlert(a) PROVE TypeOK'
  <2>1. [a EXCEPT !.held = TRUE] \in Alerts
    <3>1. a \in Alerts
      BY DEF TypeOK
    <3> QED BY <3>1 DEF Alerts
  <2> QED BY <1>11, <2>1 DEF LockAlert, TypeOK
<1>12. ASSUME NEW a \in alerts, RaiseAlert(a) PROVE TypeOK'
  <2>1. [of |-> a.of, found |-> now] \in [of : Services, found : Sessions]
    BY DEF Alerts, TypeOK
  <2> QED BY <1>12, <2>1 DEF RaiseAlert, TypeOK
<1> QED BY <1>1, <1>2, <1>3, <1>4, <1>5, <1>6, <1>7, <1>8, <1>9, <1>10, <1>11,
           <1>12 DEF Shutdown

-----------------------------------------------------------------------------
(* The memo and the reservation, the lifecycle lock, the session of an     *)
(* alert.                                                                  *)

Unmade == \A k \in Services : k > made => loop[k].at = "none"

(* While a memo is being opened or captures, whoever reserved still waits. *)
HandoffInv == reserved /\ (memo.capture \/ memo.at = "open") => Waiting

(* The lock is held by the memo that starts, by the one alert that checks  *)
(* or by the switch that shuts the service down.                           *)
LifeInv ==
  /\ memo.at # "idle" => life = "memo"
  /\ down.at \in {"memo", "trigger", "renew", "boot"} => down.switch
  /\ life = "switch" <=> down.at # "idle" /\ down.switch
  /\ \A a \in alerts : a.held => life = "alert"
  /\ \A a, b \in alerts : a.held /\ b.held => a = b

SignalInv ==
  /\ now.triggered => down.at = "renew"
  /\ now.gen = IF life = "switch" /\ down.at # "boot" THEN now.signal + 1 ELSE now.signal

AlertInv ==
  /\ \A k \in Services : ~session[k].triggered
  /\ \A a \in alerts : a.of =< made /\ (a.held => session[a.of] = now)
  /\ \A a \in alerted : a.of =< made /\ a.found = session[a.of]

ControlInv == Unmade /\ HandoffInv /\ LifeInv /\ SignalInv /\ AlertInv

LEMMA AtLoop ==
  ASSUME TypeOK, NEW k \in Services, NEW where, NEW l, At(k, where, l)
  PROVE  /\ loop'[k].at = where /\ loop'[k].link = l
         /\ \A j \in Services \ {k} : loop'[j] = loop[j]
BY DEF At, TypeOK

LEMMA GoesCommand ==
  ASSUME TypeOK, NEW p \in Callers, NEW where, Goes(p, where)
  PROVE  /\ command'[p].at = where /\ command'[p].link = command[p].link
         /\ \A q \in Callers \ {p} : command'[q] = command[q]
BY DEF Goes, TypeOK

LEMMA CancelledMemo ==
  ASSUME TypeOK, CancelMemo
  PROVE  ~memo'.capture /\ memo'.at = memo.at
BY DEF CancelMemo

LEMMA ExternalControl ==
  ASSUME TypeOK, ControlInv, NEW k \in Services,
         (\E l \in Links : CallArrives(k, l)) \/ PlaceCall(k) \/ TakeHangup(k)
         \/ TakeSwitch(k) \/ TakeShutdown(k) \/ Establish(k) \/ RemoteSwitch(k)
         \/ RemoteHangup(k) \/ TakeAnswer(k)
  PROVE  ControlInv'
<1> USE DEF extv, loopv, userv, lifev, histv
<1>1. ASSUME NEW l \in Links, CallArrives(k, l) PROVE ControlInv'
  BY <1>1 DEF CallArrives, ControlInv, Unmade, HandoffInv, LifeInv, SignalInv, AlertInv,
     Waiting, Is
<1>2. CASE PlaceCall(k)
  BY <1>2 DEF PlaceCall, ControlInv, Unmade, HandoffInv, LifeInv, SignalInv, AlertInv,
     Waiting, Is, Take
<1>3. CASE TakeHangup(k)
  BY <1>3 DEF TakeHangup, ControlInv, Unmade, HandoffInv, LifeInv, SignalInv, AlertInv,
     Waiting, Is, Take
<1>4. CASE TakeSwitch(k)
  BY <1>4 DEF TakeSwitch, ControlInv, Unmade, HandoffInv, LifeInv, SignalInv, AlertInv,
     Waiting, Is, Take
<1>5. CASE TakeShutdown(k)
  BY <1>5 DEF TakeShutdown, ControlInv, Unmade, HandoffInv, LifeInv, SignalInv, AlertInv,
     Waiting, Is, Take
<1>6. CASE Establish(k)
  BY <1>6 DEF Establish, ControlInv, Unmade, HandoffInv, LifeInv, SignalInv, AlertInv,
     Waiting, Is
<1>7. CASE RemoteSwitch(k)
  BY <1>7 DEF RemoteSwitch, ControlInv, Unmade, HandoffInv, LifeInv, SignalInv, AlertInv,
     Waiting, Is
<1>8. CASE RemoteHangup(k)
  BY <1>8 DEF RemoteHangup, ControlInv, Unmade, HandoffInv, LifeInv, SignalInv, AlertInv,
     Waiting, Is
<1>9. CASE TakeAnswer(k)
  BY <1>9 DEF TakeAnswer, ControlInv, Unmade, HandoffInv, LifeInv, SignalInv, AlertInv,
     Waiting, Is, Take
<1> QED BY <1>1, <1>2, <1>3, <1>4, <1>5, <1>6, <1>7, <1>8, <1>9

LEMMA LoopControl ==
  ASSUME TypeOK, ControlInv, NEW k \in Services,
         ReadIncoming(k) \/ TurnDown(k) \/ Admit(k) \/ Announce(k) \/ ReadFailed(k)
         \/ ReadEnded(k) \/ ReadSnapshot(k) \/ LoopEnds(k) \/ Tick(k) \/ Media(k)
  PROVE  ControlInv'
<1> USE DEF extv, loopv, userv, lifev, histv
<1>1. CASE ReadIncoming(k)
  <2>1. /\ loop[k].at = "free" /\ loop'[k].at = "policy"
        /\ \A j \in Services \ {k} : loop'[j] = loop[j]
    BY <1>1, AtLoop DEF ReadIncoming, Read, Free
  <2>2. Unmade'
    BY <1>1, <2>1 DEF ReadIncoming, ControlInv, Unmade
  <2>3. HandoffInv'
    BY <1>1, <2>1 DEF ReadIncoming, ControlInv, HandoffInv, Waiting, Is
  <2>4. LifeInv' /\ SignalInv' /\ AlertInv'
    BY <1>1 DEF ReadIncoming, ControlInv, LifeInv, SignalInv, AlertInv
  <2> QED BY <2>2, <2>3, <2>4 DEF ControlInv
<1>2. CASE TurnDown(k)
  BY <1>2 DEF TurnDown, ControlInv, Unmade, HandoffInv, LifeInv, SignalInv, AlertInv,
     Waiting, Is, At
<1>3. CASE Admit(k)
  BY <1>3 DEF Admit, ControlInv, Unmade, HandoffInv, LifeInv, SignalInv, AlertInv, Waiting,
     TypeOK, At
<1>4. CASE Announce(k)
  <2>1. /\ loop[k].at = "handoff" /\ loop'[k].at = "free"
        /\ \A j \in Services \ {k} : loop'[j] = loop[j]
    BY <1>4, AtLoop DEF Announce
  <2>2. memo.at # "open" /\ ~memo'.capture /\ memo'.at = memo.at
    BY <1>4, CancelledMemo DEF Announce, MemoFree
  <2>3. /\ k =< made /\ alerts' = alerts \union {[of |-> k, link |-> loop[k].link, held |-> FALSE]}
    BY <1>4 DEF Announce, ControlInv, Unmade, TypeOK, Services
  <2>4. Unmade'
    BY <1>4, <2>1 DEF Announce, ControlInv, Unmade
  <2>5. HandoffInv'
    BY <2>2 DEF HandoffInv
  <2>6. LifeInv'
    BY <1>4, <2>2 DEF Announce, ControlInv, LifeInv
  <2>7. AlertInv'
    BY <1>4, <2>3 DEF Announce, ControlInv, AlertInv
  <2>8. SignalInv'
    BY <1>4 DEF Announce, ControlInv, SignalInv
  <2> QED BY <2>4, <2>5, <2>6, <2>7, <2>8 DEF ControlInv
<1>5. CASE ReadFailed(k)
  BY <1>5 DEF ReadFailed, ControlInv, Unmade, HandoffInv, LifeInv, SignalInv, AlertInv
<1>6. CASE ReadEnded(k)
  BY <1>6 DEF ReadEnded, ControlInv, Unmade, HandoffInv, LifeInv, SignalInv, AlertInv,
     Waiting, Is
<1>7. CASE ReadSnapshot(k)
  BY <1>7 DEF ReadSnapshot, ControlInv, Unmade, HandoffInv, LifeInv, SignalInv, AlertInv,
     Waiting, Is
<1>8. CASE LoopEnds(k)
  <2>1. /\ loop[k].at = "free" /\ loop'[k].at = "ended"
        /\ \A j \in Services \ {k} : loop'[j] = loop[j]
    BY <1>8, AtLoop DEF LoopEnds, Read, Free
  <2>2. Unmade'
    BY <1>8, <2>1 DEF LoopEnds, ControlInv, Unmade
  <2>3. HandoffInv'
    BY <1>8 DEF LoopEnds, HandoffInv
  <2>4. LifeInv' /\ SignalInv' /\ AlertInv'
    BY <1>8 DEF LoopEnds, ControlInv, LifeInv, SignalInv, AlertInv
  <2> QED BY <2>2, <2>3, <2>4 DEF ControlInv
<1>9. CASE Tick(k)
  BY <1>9 DEF Tick, ControlInv, Unmade, HandoffInv, LifeInv, SignalInv, AlertInv, Waiting,
     Is
<1>10. CASE Media(k)
  BY <1>10 DEF Media, ControlInv, Unmade, HandoffInv, LifeInv, SignalInv, AlertInv, Waiting,
     Is
<1> QED BY <1>1, <1>2, <1>3, <1>4, <1>5, <1>6, <1>7, <1>8, <1>9, <1>10

LEMMA CommandControl ==
  ASSUME TypeOK, ControlInv, NEW p \in Callers,
         HandOff(p) \/ Found(p) \/ Register(p) \/ NotRegistered(p) \/ Publish(p) \/ SendCall
         \/ SendAnswer \/ Unreachable(p) \/ Fails(p)
  PROVE  ControlInv'
<1> USE DEF extv, loopv, userv, lifev, histv
<1>1. CASE HandOff(p)
  BY <1>1 DEF HandOff, ControlInv, Unmade, HandoffInv, LifeInv, SignalInv, AlertInv,
     MemoFree, CancelMemo
<1>2. CASE Found(p)
  BY <1>2 DEF Found, ControlInv, Unmade, HandoffInv, LifeInv, SignalInv, AlertInv, Waiting,
     Is, Goes, Is
<1>3. CASE Register(p)
  <2>1. made' = made + 1 /\ made' \in Services /\ made \in Nat
    BY <1>3, VoiceAssumption DEF Register, TypeOK, Services
  <2>2. /\ command'[p].at = "publish" /\ command[p].at = "ensure"
        /\ \A q \in Callers \ {p} : command'[q] = command[q]
    BY <1>3 DEF Register, Is, TypeOK
  <2>3. \A j \in Services \ {made'} : loop'[j] = loop[j]
    BY <1>3 DEF Register
  <2>4. loop[made'].at = "none"
    BY <2>1 DEF ControlInv, Unmade
  <2>5. /\ ~session'[made'].triggered
        /\ \A j \in Services \ {made'} : session'[j] = session[j]
    BY <1>3, <2>1 DEF Register, TypeOK
  <2>6. \A a \in alerts \union alerted : a.of =< made => a.of \in Services \ {made'}
    BY <2>1 DEF TypeOK, Alerts
  <2>7. Unmade'
    <3>1. \A j \in Services : j \in Nat /\ (j > made' => j > made /\ j # made')
      BY <2>1 DEF Services
    <3> QED BY <2>3, <3>1 DEF ControlInv, Unmade
  <2>8. HandoffInv'
    BY <1>3, <2>2, <2>3, <2>4 DEF Register, ControlInv, HandoffInv, Waiting, Is
  <2>9. AlertInv'
    BY <1>3, <2>1, <2>6 DEF Register, ControlInv, AlertInv, Services
  <2>10. LifeInv' /\ SignalInv'
    BY <1>3 DEF Register, ControlInv, LifeInv, SignalInv
  <2> QED BY <2>7, <2>8, <2>9, <2>10 DEF ControlInv
<1>4. CASE NotRegistered(p)
  BY <1>4 DEF NotRegistered, ControlInv, Unmade, HandoffInv, LifeInv, SignalInv, AlertInv,
     Waiting, Is, Goes, Is
<1>5. CASE Publish(p)
  BY <1>5 DEF Publish, ControlInv, Unmade, HandoffInv, LifeInv, SignalInv, AlertInv,
     Waiting, Is, Goes, Is
<1>6. CASE SendCall
  BY <1>6 DEF SendCall, ControlInv, Unmade, HandoffInv, LifeInv, SignalInv, AlertInv,
     Waiting, Is, Goes, Is
<1>7. CASE SendAnswer
  BY <1>7 DEF SendAnswer, ControlInv, Unmade, HandoffInv, LifeInv, SignalInv, AlertInv,
     Waiting, Is, TypeOK
<1>8. CASE Unreachable(p)
  BY <1>8 DEF Unreachable, ControlInv, Unmade, HandoffInv, LifeInv, SignalInv, AlertInv,
     Waiting, Is, Goes, Is
<1>9. CASE Fails(p)
  BY <1>9 DEF Fails, ControlInv, Unmade, HandoffInv, LifeInv, SignalInv, AlertInv
<1> QED BY <1>1, <1>2, <1>3, <1>4, <1>5, <1>6, <1>7, <1>8, <1>9

LEMMA UserControl ==
  ASSUME TypeOK, ControlInv,
         VoiceCall \/ VoiceStart \/ VoiceHangup \/ VoiceStop \/ SwitchIdentity
         \/ (\E l \in rung : VoiceAnswer(l)) \/ StartMemo \/ EndMemo
  PROVE  ControlInv'
<1> USE DEF extv, loopv, userv, lifev, histv
<1>1. CASE VoiceCall
  <2>1. command'["call"].at = "handoff"
    BY <1>1, GoesCommand DEF VoiceCall, Callers
  <2>2. HandoffInv'
    BY <2>1 DEF HandoffInv, Waiting, Is, Callers
  <2>3. Unmade' /\ LifeInv' /\ SignalInv' /\ AlertInv'
    BY <1>1 DEF VoiceCall, ControlInv, Unmade, LifeInv, SignalInv, AlertInv
  <2> QED BY <2>2, <2>3 DEF ControlInv
<1>2. CASE VoiceStart
  BY <1>2 DEF VoiceStart, ControlInv, Unmade, HandoffInv, LifeInv, SignalInv, AlertInv,
     Waiting, Is, Goes, Is
<1>3. CASE VoiceHangup
  BY <1>3 DEF VoiceHangup, ControlInv, Unmade, HandoffInv, LifeInv, SignalInv, AlertInv,
     Waiting, Is
<1>4. CASE VoiceStop
  BY <1>4 DEF VoiceStop, ControlInv, Unmade, HandoffInv, LifeInv, SignalInv, AlertInv,
     Waiting, Is
<1>5. CASE SwitchIdentity
  BY <1>5 DEF SwitchIdentity, ControlInv, Unmade, HandoffInv, LifeInv, SignalInv, AlertInv,
     Waiting, Is
<1>6. ASSUME NEW l \in rung, VoiceAnswer(l) PROVE ControlInv'
  <2>1. command'["answer"].at = "handoff"
    BY <1>6 DEF VoiceAnswer, Callers, TypeOK
  <2>2. HandoffInv'
    BY <2>1 DEF HandoffInv, Waiting, Is, Callers
  <2>3. Unmade' /\ LifeInv' /\ SignalInv' /\ AlertInv'
    BY <1>6 DEF VoiceAnswer, ControlInv, Unmade, LifeInv, SignalInv, AlertInv
  <2> QED BY <2>2, <2>3 DEF ControlInv
<1>7. CASE StartMemo
  BY <1>7 DEF StartMemo, ControlInv, Unmade, HandoffInv, LifeInv, SignalInv, AlertInv
<1>8. CASE EndMemo
  BY <1>8 DEF EndMemo, ControlInv, Unmade, HandoffInv, LifeInv, SignalInv, AlertInv,
     MemoFree, CancelMemo
<1> QED BY <1>1, <1>2, <1>3, <1>4, <1>5, <1>6, <1>7, <1>8

LEMMA RestControl ==
  ASSUME TypeOK, ControlInv,
         EnterMemo \/ OpenMemo \/ StopMemo \/ TakeHandle \/ LoopJoined \/ LoopTimeout
         \/ TaskEnds \/ Release \/ Trigger \/ Renew \/ SwitchEnds
         \/ (\E a \in alerts : LockAlert(a)) \/ (\E a \in alerts : RaiseAlert(a))
  PROVE  ControlInv'
<1> USE DEF extv, loopv, userv, lifev, histv
<1>1. CASE EnterMemo
  <2>1. /\ memo.at = "wait" /\ life = "memo"
        /\ \/ memo'.at = "idle" /\ life' = "free" /\ memo'.capture = memo.capture
           \/ memo'.at = "open" /\ life' = life /\ ~reserved
    BY <1>1 DEF EnterMemo, TypeOK, Memos, ControlInv, LifeInv
  <2>2. HandoffInv'
    BY <1>1, <2>1 DEF EnterMemo, ControlInv, HandoffInv, Waiting, Is
  <2>3. LifeInv'
    BY <1>1, <2>1 DEF EnterMemo, ControlInv, LifeInv
  <2>4. SignalInv'
    BY <1>1, <2>1 DEF EnterMemo, ControlInv, SignalInv
  <2>5. Unmade' /\ AlertInv'
    BY <1>1 DEF EnterMemo, ControlInv, Unmade, AlertInv
  <2> QED BY <2>2, <2>3, <2>4, <2>5 DEF ControlInv
<1>2. CASE OpenMemo
  BY <1>2 DEF OpenMemo, ControlInv, Unmade, HandoffInv, LifeInv, SignalInv, AlertInv,
     Waiting, Is
<1>3. CASE StopMemo
  BY <1>3 DEF StopMemo, ControlInv, Unmade, HandoffInv, LifeInv, SignalInv, AlertInv, Steps,
     CancelMemo
<1>4. CASE TakeHandle
  BY <1>4 DEF TakeHandle, ControlInv, Unmade, HandoffInv, LifeInv, SignalInv, AlertInv,
     Waiting, Is
<1>5. CASE LoopJoined
  BY <1>5 DEF LoopJoined, ControlInv, Unmade, HandoffInv, LifeInv, SignalInv, AlertInv,
     Waiting, Is, Steps
<1>6. CASE LoopTimeout
  BY <1>6 DEF LoopTimeout, ControlInv, Unmade, HandoffInv, LifeInv, SignalInv, AlertInv,
     Waiting, Is, Steps
<1>7. CASE TaskEnds
  BY <1>7 DEF TaskEnds, ControlInv, Unmade, HandoffInv, LifeInv, SignalInv, AlertInv,
     Waiting, Is, Steps
<1>8. CASE Release
  BY <1>8 DEF Release, ControlInv, Unmade, HandoffInv, LifeInv, SignalInv, AlertInv, Steps
<1>9. CASE Trigger
  BY <1>9 DEF Trigger, ControlInv, Unmade, HandoffInv, LifeInv, SignalInv, AlertInv,
     Waiting, Is, Steps
<1>10. CASE Renew
  BY <1>10 DEF Renew, ControlInv, Unmade, HandoffInv, LifeInv, SignalInv, AlertInv, Waiting,
     Is, Steps, Goes, Is
<1>11. CASE SwitchEnds
  BY <1>11 DEF SwitchEnds, ControlInv, Unmade, HandoffInv, LifeInv, SignalInv, AlertInv,
     Waiting, Is, Steps, Is
<1>12. ASSUME NEW a \in alerts, LockAlert(a) PROVE ControlInv'
  <2>1. life = "free" /\ \A b \in alerts : ~b.held
    BY <1>12 DEF LockAlert, ControlInv, LifeInv
  <2>2. CASE life' = life /\ alerts' = alerts \ {a}
    BY <1>12, <2>2 DEF LockAlert, ControlInv, Unmade, HandoffInv, Waiting, Is, LifeInv,
       SignalInv, AlertInv
  <2>3. CASE /\ IsCurrent(a.of) /\ life' = "alert"
             /\ alerts' = (alerts \ {a}) \union {[a EXCEPT !.held = TRUE]}
    <3>1. a.of \in Services /\ [a EXCEPT !.held = TRUE].of = a.of /\ [a EXCEPT !.held = TRUE].held
      BY DEF TypeOK, Alerts
    <3>2. session[a.of] = now
      <4>1. session[a.of] \in Sessions /\ now \in Sessions
        BY <3>1 DEF TypeOK
      <4>2. /\ session[a.of].gen = now.gen /\ session[a.of].signal = now.signal
            /\ session[a.of].triggered = now.triggered
        BY <2>3, <3>1, <4>1 DEF IsCurrent, ControlInv, AlertInv, Sessions
      <4> QED BY <4>1, <4>2 DEF Sessions
    <3>3. LifeInv'
      BY <1>12 DEF LockAlert, ControlInv, LifeInv
    <3>4. AlertInv'
      BY <1>12, <3>1, <3>2 DEF LockAlert, ControlInv, AlertInv
    <3>5. Unmade' /\ HandoffInv' /\ SignalInv'
      BY <1>12 DEF LockAlert, ControlInv, Unmade, HandoffInv, Waiting, Is, SignalInv
    <3> QED BY <3>3, <3>4, <3>5 DEF ControlInv
  <2> QED BY <1>12, <2>2, <2>3 DEF LockAlert
<1>13. ASSUME NEW a \in alerts, RaiseAlert(a) PROVE ControlInv'
  BY <1>13 DEF RaiseAlert, ControlInv, Unmade, HandoffInv, LifeInv, SignalInv, AlertInv,
     Waiting, Is
<1> QED BY <1>1, <1>2, <1>3, <1>4, <1>5, <1>6, <1>7, <1>8, <1>9, <1>10, <1>11, <1>12, <1>13


LEMMA RungGrows ==
  ASSUME Next
  PROVE  rung \subseteq rung'
<1> USE DEF extv, loopv, userv, lifev, histv
<1>1. CASE External
  BY <1>1 DEF External, Service, PlaceCall, TakeAnswer, TakeHangup, TakeSwitch, TakeShutdown,
     CallArrives, Establish, RemoteSwitch, RemoteHangup, Take
<1>2. ASSUME NEW k \in Services, Loop(k) \/ Tick(k) \/ Media(k) PROVE rung \subseteq rung'
  BY <1>2 DEF Loop, Tick, Media, ReadIncoming, TurnDown, Admit, Announce, ReadFailed, ReadEnded,
     ReadSnapshot, LoopEnds
<1>3. CASE User
  BY <1>3 DEF User, VoiceCall, VoiceStart, VoiceHangup, VoiceStop, SwitchIdentity,
     VoiceAnswer, StartMemo, EndMemo
<1>4. ASSUME NEW p \in Callers, Command(p) PROVE rung \subseteq rung'
  BY <1>4 DEF Command, HandOff, Found, Register, NotRegistered, Publish, SendCall, SendAnswer,
     Unreachable, Fails
<1>5. CASE \/ EnterMemo \/ OpenMemo \/ LoopTimeout \/ Shutdown
           \/ \E a \in alerts : LockAlert(a) \/ RaiseAlert(a)
  BY <1>5 DEF EnterMemo, OpenMemo, LoopTimeout, LockAlert, RaiseAlert, Shutdown, StopMemo,
     TakeHandle, LoopJoined, TaskEnds, Release, Trigger, Renew, SwitchEnds
<1> QED BY <1>1, <1>2, <1>3, <1>4, <1>5 DEF Next

(* The link of an answer that is under way has been reported as ringing.   *)
LEMMA AnsweringKept ==
  ASSUME TypeOK, Answering, Next
  PROVE  Answering'
<1> USE DEF extv, loopv, userv, lifev, histv
<1>a. "answer" \in Callers /\ "boot" \in Callers /\ "call" \in Callers
  BY DEF Callers
<1>0. rung \subseteq rung'
  BY RungGrows
<1>1. ASSUME UNCHANGED command PROVE Answering'
  BY <1>0, <1>1 DEF Answering
<1>2. ASSUME NEW p \in Callers, NEW where, Goes(p, where), p # "answer" \/ ~Is(p, "idle")
      PROVE  Answering'
  BY <1>0, <1>a, <1>2, GoesCommand DEF Answering, Is
<1>3. ASSUME NEW k \in Services, TakeAnswer(k) PROVE Answering'
  <2>1. \/ command' = [command EXCEPT !["answer"] = command["answer"]]
        \/ command["answer"].at = "reply" /\ \E at \in {"idle", "failed"} :
             command' = [command EXCEPT !["answer"] = [command["answer"] EXCEPT !.at = at]]
    BY <1>3 DEF TakeAnswer
  <2>2. command["answer"] \in Commands
    BY <1>a DEF TypeOK
  <2>3. CASE command' = [command EXCEPT !["answer"] = command["answer"]]
    BY <1>0, <2>3 DEF Answering
  <2>4. ASSUME command["answer"].at = "reply", NEW at,
               command' = [command EXCEPT !["answer"] = [command["answer"] EXCEPT !.at = at]]
        PROVE  Answering'
    <3>1. command'["answer"] = [command["answer"] EXCEPT !.at = at]
      BY <1>a, <2>4 DEF TypeOK
    <3>2. command'["answer"].link = command["answer"].link
      BY <3>1
    <3> QED BY <1>0, <2>4, <3>2 DEF Answering
  <2> QED BY <2>1, <2>3, <2>4
<1>4. CASE External
  <2>1. ASSUME NEW k \in Services,
               (\E l \in Links : CallArrives(k, l)) \/ PlaceCall(k) \/ TakeHangup(k)
               \/ TakeSwitch(k) \/ TakeShutdown(k) \/ Establish(k) \/ RemoteSwitch(k)
               \/ RemoteHangup(k)
        PROVE  UNCHANGED command
    BY <2>1 DEF CallArrives, PlaceCall, TakeHangup, TakeSwitch, TakeShutdown, Establish,
       RemoteSwitch, RemoteHangup
  <2> QED BY <1>1, <1>3, <1>4, <2>1 DEF External, Service
<1>5. CASE User
  <2>1. ASSUME NEW l \in rung, VoiceAnswer(l) PROVE Answering'
    <3>1. command'["answer"].link = l
      BY <1>a, <2>1 DEF VoiceAnswer, TypeOK
    <3> QED BY <1>0, <3>1 DEF Answering
  <2>2. CASE VoiceCall
    BY <1>a, <1>2, <2>2 DEF VoiceCall
  <2>3. CASE VoiceStart
    BY <1>a, <1>2, <2>3 DEF VoiceStart
  <2>4. CASE VoiceHangup \/ VoiceStop \/ SwitchIdentity \/ StartMemo \/ EndMemo
    BY <1>1, <2>4 DEF VoiceHangup, VoiceStop, SwitchIdentity, StartMemo, EndMemo
  <2> QED BY <1>5, <2>1, <2>2, <2>3, <2>4 DEF User
<1>6. ASSUME NEW k \in Services, Loop(k) \/ Tick(k) \/ Media(k) PROVE Answering'
  BY <1>1, <1>6 DEF Loop, ReadIncoming, TurnDown, Admit, Announce, ReadFailed, ReadEnded,
     ReadSnapshot, LoopEnds, Tick, Media
<1>7. ASSUME NEW p \in Callers, Command(p) PROVE Answering'
  <2>1. CASE HandOff(p) \/ Found(p) \/ NotRegistered(p) \/ Publish(p) \/ Unreachable(p)
             \/ Fails(p)
    BY <1>2, <2>1 DEF HandOff, Found, NotRegistered, Publish, Unreachable, Fails, Is
  <2>2. CASE Register(p)
    <3>1. command[p] \in Commands /\ command[p].at = "ensure"
      BY <2>2 DEF Register, Is, TypeOK
    <3>2. [command[p] EXCEPT !.at = "publish", !.own = made'].link = command[p].link
      BY <3>1
    <3>3. command'[p].link = command[p].link
          /\ \A q \in Callers \ {p} : command'[q] = command[q]
      BY <2>2 DEF Register, TypeOK
    <3> QED BY <1>0, <1>a, <3>1, <3>3 DEF Answering
  <2>3. CASE p = "call" /\ SendCall
    BY <1>2, <2>3 DEF SendCall
  <2>4. CASE p = "answer" /\ SendAnswer
    <3>1. command["answer"] \in Commands /\ command["answer"].at = "signal"
      BY <2>4 DEF SendAnswer, Is, TypeOK
    <3>2. [command["answer"] EXCEPT !.at = "reply", !.own = handle].link =
            command["answer"].link
      BY <3>1
    <3>3. command'["answer"].link = command["answer"].link
      BY <2>4 DEF SendAnswer, TypeOK
    <3> QED BY <1>0, <3>1, <3>3 DEF Answering
  <2> QED BY <1>7, <2>1, <2>2, <2>3, <2>4 DEF Command
<1>8. CASE EnterMemo \/ OpenMemo \/ Shutdown \/ LoopTimeout
           \/ \E a \in alerts : LockAlert(a) \/ RaiseAlert(a)
  <2>1. CASE Renew
    BY <1>a, <1>2, <2>1 DEF Renew
  <2> QED BY <1>1, <1>8, <2>1 DEF EnterMemo, OpenMemo, Shutdown, LoopTimeout, LockAlert,
             RaiseAlert, StopMemo, TakeHandle, LoopJoined, TaskEnds, Release, Trigger,
             SwitchEnds
<1> QED BY <1>4, <1>5, <1>6, <1>7, <1>8 DEF Next

-----------------------------------------------------------------------------
(* Links and calls: the order of the reports, who a link belongs to, what  *)
(* is refused.                                                             *)

(* Between two reports of a call the service only reports failures.        *)
Holds(c, l)  == c # None /\ c.link = l
Steady(e, l) == e.kind = "failed" \/ Holds(e.call, l)

(* Of a link l, with the call c of the service, the reports r it has sent  *)
(* and the last snapshot t that was read: its reports follow each other,   *)
(* the first may announce it, and nothing follows its end.                 *)
Runs(l, c, r, t) ==
  /\ \A i, j \in 1..Len(r) :
       i < j /\ Holds(r[i].call, l) /\ Holds(r[j].call, l) =>
         \A m \in 1..Len(r) : i < m /\ m < j => Steady(r[m], l)
  /\ \A i \in 1..Len(r) : Holds(r[i].call, l) =>
       /\ Holds(c, l) => \A m \in 1..Len(r) : i < m => Steady(r[m], l)
       /\ Holds(t, l) => \A m \in 1..Len(r) : m < i => Steady(r[m], l)
       /\ r[i].kind = "ended" =>
            ~Holds(c, l) /\ \A j \in 1..Len(r) : i < j => ~Holds(r[j].call, l)
       /\ r[i].kind = "incoming" =>
            ~Holds(t, l) /\ \A j \in 1..Len(r) : j < i => ~Holds(r[j].call, l)
  /\ Holds(t, l) /\ Holds(c, l) => \A m \in 1..Len(r) : Steady(r[m], l)

LEMMA RunsAppend ==
  ASSUME NEW r \in Seq(Reports), NEW c \in Calls \union {None}, NEW t \in Calls \union {None},
         NEW l \in Links, Runs(l, c, r, t), NEW e \in Reports, NEW d \in Calls \union {None},
         \/ e.kind = "failed" /\ e.call = None /\ d = c
         \/ e.kind \in {"snapshot", "stopped"} /\ e.call = None /\ d = None
         \/ e.kind = "snapshot" /\ e.call = d /\ (Holds(c, l) <=> Holds(d, l))
         \/ e.kind = "ended" /\ e.call = c /\ d = None
         \/ /\ e.kind \in {"incoming", "snapshot"} /\ e.call = d
            /\ ~Holds(c, l) /\ ~Holds(t, l) /\ \A i \in 1..Len(r) : ~Holds(r[i].call, l)
         \/ e.kind \in {"incoming", "snapshot"} /\ e.call = d /\ ~Holds(c, l) /\ ~Holds(d, l)
  PROVE  Runs(l, d, Append(r, e), t)
<1> DEFINE n == Len(r)
           s == Append(r, e)
<1>1. /\ n \in Nat /\ Len(s) = n + 1 /\ s[n + 1] = e
      /\ \A i \in 1..n : s[i] = r[i]
  OBVIOUS
<1>2. 1..Len(s) = 1..n \union {n + 1} /\ \A i \in 1..n : i < n + 1
  BY <1>1
<1> HIDE DEF s
<1>3. Holds(d, l) => Holds(c, l) \/ \A i \in 1..n : ~Holds(r[i].call, l)
  BY DEF Holds
<1>4. Holds(e.call, l) => (Holds(c, l) \/ \A i \in 1..n : ~Holds(r[i].call, l))
  BY DEF Holds
<1>5. ASSUME NEW i \in 1..Len(s), NEW j \in 1..Len(s), i < j, Holds(s[i].call, l),
    Holds(s[j].call, l),
             NEW m \in 1..Len(s), i < m, m < j
      PROVE  Steady(s[m], l)
  <2>1. i \in 1..n /\ m \in 1..n /\ Holds(r[i].call, l) /\ s[m] = r[m]
    BY <1>1, <1>2, <1>5
  <2>2. CASE j \in 1..n
    BY <1>1, <1>5, <2>1, <2>2 DEF Runs
  <2>3. CASE j = n + 1
    BY <1>1, <1>4, <1>5, <2>1, <2>3 DEF Runs
  <2> QED BY <1>2, <2>2, <2>3
<1>6. ASSUME NEW i \in 1..Len(s), Holds(s[i].call, l)
      PROVE  /\ Holds(d, l) => \A m \in 1..Len(s) : i < m => Steady(s[m], l)
             /\ Holds(t, l) => \A m \in 1..Len(s) : m < i => Steady(s[m], l)
             /\ s[i].kind = "ended" =>
                  ~Holds(d, l) /\ \A j \in 1..Len(s) : i < j => ~Holds(s[j].call, l)
             /\ s[i].kind = "incoming" =>
                  ~Holds(t, l) /\ \A j \in 1..Len(s) : j < i => ~Holds(s[j].call, l)
  <2>1. CASE i \in 1..n
    <3>1. Holds(r[i].call, l) /\ s[i] = r[i]
      BY <1>1, <1>6, <2>1
    <3>2. Holds(d, l) => \A m \in 1..Len(s) : i < m => Steady(s[m], l)
      <4>1. ASSUME Holds(d, l) PROVE Holds(c, l) /\ Steady(e, l)
        BY <1>3, <2>1, <3>1, <4>1 DEF Steady, Holds
      <4> QED BY <1>1, <1>2, <2>1, <3>1, <4>1 DEF Runs
    <3>3. Holds(t, l) => \A m \in 1..Len(s) : m < i => Steady(s[m], l)
      BY <1>1, <1>2, <2>1, <3>1 DEF Runs
    <3>4. r[i].kind = "ended" => ~Holds(d, l) /\ ~Holds(e.call, l)
      <4>1. r[i].kind = "ended" => ~Holds(c, l)
        BY <2>1, <3>1 DEF Runs
      <4> QED BY <1>3, <1>4, <2>1, <3>1, <4>1
    <3>5. s[i].kind = "ended" =>
            ~Holds(d, l) /\ \A j \in 1..Len(s) : i < j => ~Holds(s[j].call, l)
      BY <1>1, <1>2, <2>1, <3>1, <3>4 DEF Runs
    <3>6. s[i].kind = "incoming" =>
            ~Holds(t, l) /\ \A j \in 1..Len(s) : j < i => ~Holds(s[j].call, l)
      BY <1>1, <1>2, <2>1, <3>1 DEF Runs
    <3> QED BY <3>2, <3>3, <3>5, <3>6
  <2>2. CASE i = n + 1
    <3>1. s[i] = e /\ Holds(e.call, l) /\ \A m \in 1..Len(s) : ~(i < m)
      BY <1>1, <1>2, <1>6, <2>2
    <3>2. Holds(t, l) => \A m \in 1..n : Steady(r[m], l)
      BY <3>1 DEF Runs, Holds
    <3>3. e.kind = "ended" => ~Holds(d, l)
      BY DEF Holds
    <3>4. e.kind = "incoming" => ~Holds(t, l) /\ \A j \in 1..n : ~Holds(r[j].call, l)
      BY <3>1
    <3> QED BY <1>1, <1>2, <2>2, <3>1, <3>2, <3>3, <3>4
  <2> QED BY <1>2, <2>1, <2>2
<1>7. ASSUME Holds(t, l), Holds(d, l), NEW m \in 1..Len(s) PROVE Steady(s[m], l)
  <2>1. Holds(c, l) /\ Steady(e, l)
    BY <1>7 DEF Holds, Steady
  <2> QED BY <1>1, <1>2, <1>7, <2>1 DEF Runs
<1>8. Runs(l, d, s, t)
  BY <1>5, <1>6, <1>7 DEF Runs
<1> QED BY <1>8 DEF s

LEMMA RunsTail ==
  ASSUME NEW r \in Seq(Reports), NEW c \in Calls \union {None}, NEW t \in Calls \union {None},
         NEW l \in Links, Runs(l, c, r, t), r # <<>>, NEW v \in Calls \union {None},
         v \in {t, None} \/ (v = Head(r).call /\ Head(r).kind = "snapshot")
  PROVE  Runs(l, c, Tail(r), v)
<1> DEFINE n == Len(r)
           s == Tail(r)
<1>1. /\ n \in Nat \ {0} /\ Len(s) = n - 1 /\ Head(r) = r[1] /\ 1 \in 1..n
      /\ \A i \in 1..Len(s) : i + 1 \in 1..n /\ s[i] = r[i + 1] /\ 1 < i + 1
  OBVIOUS
<1> HIDE DEF s
<1>2. v = t \/ v = None \/ (v = r[1].call /\ r[1].kind = "snapshot")
  BY <1>1
<1>3. ASSUME NEW i \in 1..Len(s), NEW j \in 1..Len(s), i < j, Holds(s[i].call, l),
    Holds(s[j].call, l),
             NEW m \in 1..Len(s), i < m, m < j
      PROVE  Steady(s[m], l)
  <2>1. i + 1 < j + 1 /\ i + 1 < m + 1 /\ m + 1 < j + 1
    BY <1>1, <1>3
  <2> QED BY <1>1, <1>3, <2>1 DEF Runs
<1>4. ASSUME NEW i \in 1..Len(s), Holds(s[i].call, l)
      PROVE  /\ Holds(c, l) => \A m \in 1..Len(s) : i < m => Steady(s[m], l)
             /\ Holds(v, l) => \A m \in 1..Len(s) : m < i => Steady(s[m], l)
             /\ s[i].kind = "ended" =>
                  ~Holds(c, l) /\ \A j \in 1..Len(s) : i < j => ~Holds(s[j].call, l)
             /\ s[i].kind = "incoming" =>
                  ~Holds(v, l) /\ \A j \in 1..Len(s) : j < i => ~Holds(s[j].call, l)
  <2>1. i + 1 \in 1..n /\ Holds(r[i + 1].call, l) /\ s[i] = r[i + 1]
    BY <1>1, <1>4
  <2>2. \A m \in 1..Len(s) : (i < m <=> i + 1 < m + 1) /\ (m < i <=> m + 1 < i + 1)
    BY <1>1
  <2>3. Holds(c, l) => \A m \in 1..Len(s) : i < m => Steady(s[m], l)
    BY <1>1, <2>1, <2>2 DEF Runs
  <2>4. Holds(v, l) => \A m \in 1..Len(s) : m < i => Steady(s[m], l)
    <3>1. CASE v = t
      BY <1>1, <2>1, <2>2, <3>1 DEF Runs
    <3>2. CASE v = r[1].call
      BY <1>1, <2>1, <2>2, <3>2 DEF Runs
    <3> QED BY <1>2, <3>1, <3>2 DEF Holds
  <2>5. s[i].kind = "ended" =>
          ~Holds(c, l) /\ \A j \in 1..Len(s) : i < j => ~Holds(s[j].call, l)
    BY <1>1, <2>1, <2>2 DEF Runs
  <2>6. s[i].kind = "incoming" =>
          ~Holds(v, l) /\ \A j \in 1..Len(s) : j < i => ~Holds(s[j].call, l)
    <3>1. CASE v = t
      BY <1>1, <2>1, <2>2, <3>1 DEF Runs
    <3>2. CASE v = r[1].call
      BY <1>1, <2>1, <2>2, <3>2 DEF Runs
    <3>3. CASE v = None
      BY <1>1, <2>1, <2>2, <3>3 DEF Runs, Holds
    <3> QED BY <1>2, <3>1, <3>2, <3>3
  <2> QED BY <2>3, <2>4, <2>5, <2>6
<1>5. ASSUME Holds(v, l), Holds(c, l), NEW m \in 1..Len(s) PROVE Steady(s[m], l)
  <2>1. CASE v = t
    BY <1>1, <1>5, <2>1 DEF Runs
  <2>2. CASE v = r[1].call
    BY <1>1, <1>5, <2>2 DEF Runs
  <2> QED BY <1>2, <1>5, <2>1, <2>2 DEF Holds
<1> QED BY <1>3, <1>4, <1>5 DEF Runs, s

LEMMA RunsWeaker ==
  ASSUME NEW r, NEW c, NEW t, NEW l, Runs(l, c, r, t)
  PROVE  Runs(l, None, r, t) /\ Runs(l, c, r, None)
BY DEF Runs, Holds

Last(k)   == IF latest[k] = <<>> THEN None ELSE Head(latest[k])
Coming(k) == {call[k]} \union {reports[k][i].call : i \in 1..Len(reports[k])}

AtLink(k, l)    == loop[k].at \in {"policy", "handoff"} /\ loop[k].link = l
Announced(k, l) == \E i \in 1..Len(reports[k]) :
                     reports[k][i].kind = "incoming" /\ Holds(reports[k][i].call, l)
Pending(k, l)   == AtLink(k, l) \/ Announced(k, l)
Has(k, l)       == \/ Holds(audio[k], l) \/ Pending(k, l)
                   \/ \E c \in Coming(k) \union {Last(k)} : Holds(c, l)
Unseen(l)       == l \notin rung /\ shown # l /\ \A k \in Services : ~Holds(audio[k], l)

OrderInv == \A k \in Services, l \in Links : Runs(l, call[k], reports[k], Last(k))

OwnInv == \A k \in Services, l \in Links :
            Has(k, l) => l \in used /\ \A j \in Services \ {k} : ~Has(j, l)

UsedInv ==
  /\ rung \subseteq used /\ spurned \subseteq used /\ shown \in used \union {None}
  /\ \A l \in Links : least[l] # None => l \in used /\ made # 0
  /\ \A k \in Services : audio[k] # None => k =< made

PendingInv == \A k \in Services, l \in Links :
  Pending(k, l) => Unseen(l) /\ l \notin spurned /\ ~ (AtLink(k, l) /\ Announced(k, l))

RingInv == \A k \in Services, l \in Links :
  l \in spurned \/ Pending(k, l) =>
    \A c \in Coming(k) \union {Last(k)} : Holds(c, l) => c.status = "ringing"

RefusedInv == \A k \in Services, l \in spurned :
  (\E c \in Coming(k) : Holds(c, l)) => l \in refused[k]

SpurnedInv == \A l \in spurned : Unseen(l)

SlotInv == \A k \in Services, l \in Links :
  made = 1 /\ k = 1 /\ loop[k].at # "ended" /\ least[l] # None
  /\ (\E c \in Coming(k) \union {Last(k)} : Holds(c, l)) =>
       Holds(Last(k), l) /\ Holds(slot, l) /\ slot.profile =< least[l]

CallInv == OrderInv /\ OwnInv /\ UsedInv /\ PendingInv /\ RingInv /\ RefusedInv /\ SpurnedInv /\ SlotInv

(* What a step of the service does to its call and its reports.            *)
New(k, l) == l \in used' \ used /\ call'[k].status = "ringing"

Fed(k) ==
  /\ \A j \in Services \ {k} : call'[j] = call[j] /\ reports'[j] = reports[j]
  /\ used \subseteq used'
  /\ Coming(k)' \subseteq Coming(k) \union {call'[k], None}
  /\ \/ call'[k] \in {None, call[k]}
     \/ /\ Holds(call[k], call'[k].link)
        /\ call[k].status # "ringing" \/ call[k].link \in rung
     \/ call'[k].link \in used' \ used
  /\ \A l \in Links : Announced(k, l)' => Announced(k, l) \/ New(k, l)
  /\ \A l \in Links : Runs(l, call'[k], reports'[k], Last(k))

LEMMA FedKeeps ==
  ASSUME TypeOK, TypeOK', CallInv, NEW k \in Services, Fed(k),
         UNCHANGED <<latest, audio, loop, refused, rung, shown, spurned, least, slot, made>>
  PROVE  CallInv'
<1>0. \A j \in Services : UNCHANGED <<Last(j), loop[j], audio[j], refused[j]>>
  BY DEF Last
<1>1. \A j \in Services \ {k} : UNCHANGED <<call[j], reports[j], Coming(j)>>
      /\ \A l \in Links : UNCHANGED <<AtLink(j, l), Announced(j, l), Pending(j, l), Has(j, l)>>
  BY <1>0 DEF Fed, Coming, AtLink, Announced, Pending, Has
<1>2. \A l \in Links : (UNCHANGED <<AtLink(k, l), Unseen(l)>>) /\ (Announced(k, l)' => Announced(k, l) \/ New(k, l))
  BY <1>0 DEF AtLink, Unseen, Fed
<1>3a. call[k] \in Coming(k)
  BY DEF Coming
<1>3. ASSUME NEW c \in Coming(k)' \union {Last(k)'}, NEW l \in Links, Holds(c, l)
      PROVE  \/ c \in Coming(k) \union {Last(k)}
             \/ /\ c = call'[k] /\ Holds(call[k], l)
                /\ call[k].status # "ringing" \/ l \in rung
             \/ c = call'[k] /\ l \in used' \ used
  BY <1>0, <1>3, <1>3a DEF Fed, Holds
<1>4. \A l \in Links : Has(k, l)' => Has(k, l) \/ l \in used' \ used
  <2> SUFFICES ASSUME NEW l \in Links, Has(k, l)' PROVE Has(k, l) \/ l \in used' \ used
    OBVIOUS
  <2>1. CASE Holds(audio[k], l)' \/ Pending(k, l)'
    BY <1>0, <1>2, <2>1 DEF Pending, Has, New
  <2>2. ASSUME NEW c \in Coming(k)' \union {Last(k)'}, Holds(c, l)
        PROVE  Has(k, l) \/ l \in used' \ used
    BY <1>3, <1>3a, <2>2 DEF Has
  <2> QED BY <2>1, <2>2 DEF Has
<1>5. \A j \in Services, l \in Links : Has(j, l) => l \in used
  BY DEF CallInv, OwnInv
<1>6. used \subseteq used'
  BY DEF Fed
<1>7. OrderInv'
  BY <1>0, <1>1 DEF CallInv, OrderInv, Fed
<1>8. OwnInv'
  BY <1>1, <1>4, <1>5, <1>6 DEF CallInv, OwnInv
<1>9. UsedInv'
  BY <1>6 DEF CallInv, UsedInv
<1>10. \A l \in Links : New(k, l) => Unseen(l) /\ l \notin spurned /\ ~AtLink(k, l)
  <2> SUFFICES ASSUME NEW l \in Links, l \notin used
               PROVE  Unseen(l) /\ l \notin spurned /\ ~AtLink(k, l)
    BY DEF New
  <2>1. ~AtLink(k, l) /\ \A j \in Services : ~Holds(audio[j], l)
    BY <1>5 DEF Has, Pending
  <2> QED BY <2>1, VoiceAssumption DEF CallInv, UsedInv, Unseen
<1>11. PendingInv'
  <2> SUFFICES ASSUME NEW j \in Services, NEW l \in Links, Pending(j, l)'
               PROVE  (Unseen(l) /\ l \notin spurned /\ ~ (AtLink(j, l) /\ Announced(j, l)))'
    BY DEF PendingInv
  <2>1. CASE j # k
    BY <1>1, <1>2, <2>1 DEF CallInv, PendingInv
  <2>2. CASE j = k
    <3>1. CASE New(k, l)
      BY <1>2, <1>10, <2>2, <3>1
    <3>2. CASE ~New(k, l)
      BY <1>2, <2>2, <3>2 DEF CallInv, PendingInv, Pending
    <3> QED BY <3>1, <3>2
  <2> QED BY <2>1, <2>2
<1>12. RingInv'
  <2> SUFFICES ASSUME NEW j \in Services, NEW l \in Links, (l \in spurned \/ Pending(j, l))',
                      NEW c \in (Coming(j) \union {Last(j)})', Holds(c, l)
               PROVE  c.status = "ringing"
    BY DEF RingInv
  <2>1. CASE j # k
    BY <1>0, <1>1, <2>1 DEF CallInv, RingInv
  <2>2. CASE j = k
    <3>1. (l \in spurned \/ Pending(k, l)) \/ New(k, l)
      BY <1>2, <2>2 DEF Pending
    <3>2. CASE c \in Coming(k) \union {Last(k)}
      <4>1. l \in used
        BY <1>5, <3>2 DEF Has
      <4> QED BY <3>1, <3>2, <4>1 DEF CallInv, RingInv, New
    <3>3. CASE Holds(call[k], l) /\ (call[k].status # "ringing" \/ l \in rung)
      <4>1. l \in used
        BY <1>3a, <1>5, <3>3 DEF Has
      <4>2. l \notin rung
        BY <3>1, <4>1 DEF New, CallInv, PendingInv, SpurnedInv, Unseen
      <4>3. call[k].status = "ringing"
        BY <1>3a, <3>1, <3>3, <4>1 DEF New, CallInv, RingInv
      <4> QED BY <3>3, <4>2, <4>3
    <3>4. CASE c = call'[k] /\ l \in used' \ used
      <4>1. l \notin spurned /\ ~Pending(k, l)
        BY <1>5, <3>4 DEF Has, CallInv, UsedInv
      <4> QED BY <3>1, <3>4, <4>1 DEF New
    <3> QED BY <1>3, <2>2, <3>2, <3>3, <3>4
  <2> QED BY <2>1, <2>2
<1>13. RefusedInv'
  <2> SUFFICES ASSUME NEW j \in Services, NEW l \in spurned, NEW c \in Coming(j)', Holds(c, l)
               PROVE  l \in refused[j]
    BY <1>0 DEF RefusedInv
  <2>0. l \in Links /\ l \in used
    BY DEF TypeOK, CallInv, UsedInv
  <2>1. CASE j # k
    BY <1>1, <2>1 DEF CallInv, RefusedInv
  <2>2. CASE j = k
    BY <1>3a, <2>0, <2>2 DEF CallInv, RefusedInv, Fed, Holds
  <2> QED BY <2>1, <2>2
<1>14. SpurnedInv'
  BY <1>2 DEF CallInv, SpurnedInv, TypeOK
<1>15. SlotInv'
  <2> SUFFICES ASSUME NEW j \in Services, NEW l \in Links, made = 1, j = 1,
                      loop[j].at # "ended", least[l] # None,
                      NEW c \in (Coming(j) \union {Last(j)})', Holds(c, l)
               PROVE  Holds(Last(j), l) /\ Holds(slot, l) /\ slot.profile =< least[l]
    BY <1>0 DEF SlotInv
  <2>1. l \in used
    BY DEF CallInv, UsedInv
  <2>2. \E d \in Coming(j) \union {Last(j)} : Holds(d, l)
    BY <1>0, <1>1, <1>3, <1>3a, <2>1
  <2> QED BY <2>2 DEF CallInv, SlotInv
<1> QED BY <1>7, <1>8, <1>9, <1>11, <1>12, <1>13, <1>14, <1>15 DEF CallInv

LEMMA BecomesOnce ==
  ASSUME TypeOK, NEW k \in Services, NEW c \in Calls \union {None}, Becomes(k, c, <<>>)
  PROVE  /\ call' = [call EXCEPT ![k] = c] /\ call'[k] = c /\ Report("snapshot", c) \in Reports
         /\ reports' = [reports EXCEPT ![k] = Append(@, Report("snapshot", c))]
<1>1. Report("snapshot", c) \in Reports
  BY DEF Report, Reports
<1>2. reports[k] \o Append(<<>>, Report("snapshot", c)) = Append(reports[k], Report("snapshot", c))
  BY <1>1 DEF TypeOK
<1> QED BY <1>1, <1>2 DEF Becomes, TypeOK

LEMMA BecomesTwice ==
  ASSUME TypeOK, NEW k \in Services, NEW c \in Calls \union {None}, NEW e \in Reports,
         Becomes(k, c, <<e>>)
  PROVE  /\ call' = [call EXCEPT ![k] = c] /\ call'[k] = c /\ Report("snapshot", c) \in Reports
         /\ reports' = [reports EXCEPT ![k] = Append(Append(@, e), Report("snapshot", c))]
<1>1. Report("snapshot", c) \in Reports
  BY DEF Report, Reports
<1>2. reports[k] \o Append(<<e>>, Report("snapshot", c)) = Append(Append(reports[k], e), Report("snapshot", c))
  BY <1>1 DEF TypeOK
<1> QED BY <1>1, <1>2 DEF Becomes, TypeOK

LEMMA FedOnce ==
  ASSUME TypeOK, NEW k \in Services, NEW e \in Reports,
         reports' = [reports EXCEPT ![k] = Append(@, e)],
         \A j \in Services \ {k} : call'[j] = call[j], e.call \in {call'[k], None}
  PROVE  /\ \A j \in Services \ {k} : call'[j] = call[j] /\ reports'[j] = reports[j]
         /\ reports'[k] = Append(reports[k], e)
         /\ Coming(k)' \subseteq Coming(k) \union {call'[k], None}
         /\ \A l \in Links : Announced(k, l)' => Announced(k, l) \/ (e.kind = "incoming" /\ Holds(e.call, l))
<1>1. reports[k] \in Seq(Reports) /\ reports'[k] = Append(reports[k], e)
  BY DEF TypeOK
<1>2. \A i \in 1..Len(reports'[k]) : reports'[k][i] = e \/ (i \in 1..Len(reports[k]) /\ reports'[k][i] = reports[k][i])
  BY <1>1
<1>3. \A j \in Services \ {k} : reports'[j] = reports[j]
  BY DEF TypeOK
<1>4. ASSUME NEW i \in 1..Len(reports'[k])
      PROVE  reports'[k][i].call \in Coming(k) \union {call'[k], None}
  BY <1>2 DEF Coming
<1>5. Coming(k)' \subseteq Coming(k) \union {call'[k], None}
  BY <1>4 DEF Coming
<1>6. ASSUME NEW l \in Links, Announced(k, l)'
      PROVE  Announced(k, l) \/ (e.kind = "incoming" /\ Holds(e.call, l))
  BY <1>2, <1>6 DEF Announced
<1> QED BY <1>1, <1>3, <1>5, <1>6

LEMMA FedTwice ==
  ASSUME TypeOK, NEW k \in Services, NEW e \in Reports, NEW f \in Reports,
         reports' = [reports EXCEPT ![k] = Append(Append(@, e), f)],
         \A j \in Services \ {k} : call'[j] = call[j], f.call = call'[k],
         e.call \in {call[k], call'[k]}, f.kind # "incoming"
  PROVE  /\ \A j \in Services \ {k} : call'[j] = call[j] /\ reports'[j] = reports[j]
         /\ reports'[k] = Append(Append(reports[k], e), f)
         /\ Coming(k)' \subseteq Coming(k) \union {call'[k], None}
         /\ \A l \in Links : Announced(k, l)' => Announced(k, l) \/ (e.kind = "incoming" /\ Holds(e.call, l))
<1>1. reports[k] \in Seq(Reports) /\ reports'[k] = Append(Append(reports[k], e), f)
  BY DEF TypeOK
<1>2. \A i \in 1..Len(reports'[k]) : reports'[k][i] \in {e, f} \/ (i \in 1..Len(reports[k]) /\ reports'[k][i] = reports[k][i])
  BY <1>1
<1>3. \A j \in Services \ {k} : reports'[j] = reports[j]
  BY DEF TypeOK
<1>4. ASSUME NEW i \in 1..Len(reports'[k])
      PROVE  reports'[k][i].call \in Coming(k) \union {call'[k], None}
  BY <1>2 DEF Coming
<1>5. Coming(k)' \subseteq Coming(k) \union {call'[k], None}
  BY <1>4 DEF Coming
<1>6. ASSUME NEW l \in Links, Announced(k, l)'
      PROVE  Announced(k, l) \/ (e.kind = "incoming" /\ Holds(e.call, l))
  BY <1>2, <1>6 DEF Announced
<1> QED BY <1>1, <1>3, <1>5, <1>6

(* A control that answers names a link the user interface was told rings.  *)
AskedInv == \A k \in Services : \A i \in 1..Len(controls[k]) :
  controls[k][i].kind = "answer" => controls[k][i].link \in rung

LEMMA ExternalFeeds ==
  ASSUME TypeOK, CallInv, AskedInv, NEW k \in Services,
         \/ \E l \in Links : CallArrives(k, l)
         \/ Service(k) \/ Establish(k) \/ RemoteSwitch(k) \/ RemoteHangup(k)
  PROVE  Fed(k) /\ UNCHANGED <<latest, audio, loop, refused, rung, shown, spurned, least,
      slot, made>>
<1> USE DEF extv, loopv, userv, lifev, histv, Take
<1> DEFINE Frame == UNCHANGED <<latest, audio, loop, refused, rung, shown, spurned, least,
    slot, made>>
<1>0. /\ reports[k] \in Seq(Reports) /\ Last(k) \in Calls \union {None}
      /\ call[k] \in Calls \union {None}
      /\ \A l \in Links : Runs(l, call[k], reports[k], Last(k))
  <2>1. latest[k] # <<>> => Head(latest[k]) \in Calls \union {None}
    BY TailType DEF TypeOK
  <2> QED BY <2>1 DEF TypeOK, Last, CallInv, OrderInv
<1>1. \A l \in Links \ used : /\ ~Holds(call[k], l) /\ ~Holds(Last(k), l)
                              /\ \A i \in 1..Len(reports[k]) : ~Holds(reports[k][i].call, l)
  BY DEF CallInv, OwnInv, Has, Coming
<1>2. ASSUME NEW l \in Links, CallArrives(k, l) PROVE Fed(k) /\ Frame
  <2> DEFINE c == [link |-> l, status |-> "ringing", profile |-> None]
             e == Report("incoming", c)
             f == Report("snapshot", c)
  <2>1. c \in Calls /\ e \in Reports /\ f \in Reports /\ c.link = l /\ c.status = "ringing"
        /\ e.kind = "incoming" /\ e.call = c /\ f.kind = "snapshot" /\ f.call = c
    BY DEF Calls, Report, Reports
  <2> HIDE DEF c
  <2>2. Becomes(k, c, <<e>>) /\ call[k] = None /\ l \notin used /\ used' = used \union {l}
    BY <1>2 DEF CallArrives, c
  <2>3. /\ call' = [call EXCEPT ![k] = c] /\ call'[k] = c
        /\ reports' = [reports EXCEPT ![k] = Append(Append(@, e), f)]
    BY <2>1, <2>2, BecomesTwice
  <2>4. \A j \in Services \ {k} : call'[j] = call[j]
    BY <2>3 DEF TypeOK
  <2> HIDE DEF e, f
  <2>5. /\ \A j \in Services \ {k} : call'[j] = call[j] /\ reports'[j] = reports[j]
        /\ reports'[k] = Append(Append(reports[k], e), f)
        /\ Coming(k)' \subseteq Coming(k) \union {call'[k], None}
        /\ \A m \in Links : Announced(k, m)' => Announced(k, m) \/ (e.kind = "incoming" /\ Holds(e.call, m))
    BY <2>1, <2>3, <2>4, FedTwice
  <2>6. ASSUME NEW m \in Links PROVE Runs(m, c, Append(Append(reports[k], e), f), Last(k))
    <3>1. Runs(m, c, Append(reports[k], e), Last(k))
      <4>1. m # l => ~Holds(c, m)
        BY <2>1 DEF Holds
      <4> QED BY <1>0, <1>1, <2>1, <2>2, <4>1, RunsAppend DEF Holds
    <3>2. Append(reports[k], e) \in Seq(Reports)
      BY <1>0, <2>1
    <3> QED BY <1>0, <2>1, <3>1, <3>2, RunsAppend
  <2>7. Fed(k)
    BY <2>1, <2>2, <2>3, <2>5, <2>6 DEF Fed, New, Holds
  <2> QED BY <1>2, <2>7 DEF CallArrives
<1>3. ASSUME NEW c \in Calls, Becomes(k, c, <<>>), UNCHANGED used,
             Holds(call[k], c.link), call[k].status # "ringing" \/ call[k].link \in rung
      PROVE  Fed(k)
  <2> DEFINE f == Report("snapshot", c)
  <2>1. f.kind = "snapshot" /\ f.call = c /\ c # None
    BY NoneAssumption DEF Report
  <2>2. /\ call' = [call EXCEPT ![k] = c] /\ call'[k] = c /\ f \in Reports
        /\ reports' = [reports EXCEPT ![k] = Append(@, f)]
    BY <1>3, BecomesOnce
  <2> HIDE DEF f
  <2>3. \A j \in Services \ {k} : call'[j] = call[j]
    BY <2>2 DEF TypeOK
  <2>4. /\ \A j \in Services \ {k} : call'[j] = call[j] /\ reports'[j] = reports[j]
        /\ reports'[k] = Append(reports[k], f)
        /\ Coming(k)' \subseteq Coming(k) \union {call'[k], None}
        /\ \A m \in Links : Announced(k, m)' => Announced(k, m) \/ (f.kind = "incoming" /\ Holds(f.call, m))
    BY <2>1, <2>2, <2>3, FedOnce
  <2>5. ASSUME NEW m \in Links PROVE Runs(m, c, Append(reports[k], f), Last(k))
    <3>1. Holds(call[k], m) <=> Holds(c, m)
      BY <1>3, <2>1 DEF Holds
    <3> QED BY <1>0, <2>1, <2>2, <3>1, RunsAppend
  <2> QED BY <1>3, <2>1, <2>2, <2>4, <2>5 DEF Fed, Holds
<1>4. ASSUME call[k] # None, Becomes(k, None, Ended(k)), UNCHANGED used
      PROVE  Fed(k)
  <2> DEFINE e == Report("ended", call[k])
             f == Report("snapshot", None)
  <2>1. /\ e \in Reports /\ f \in Reports
        /\ e.kind = "ended" /\ e.call = call[k] /\ f.kind = "snapshot" /\ f.call = None
    BY <1>0, <1>4 DEF Report, Reports
  <2>2. Becomes(k, None, <<e>>)
    BY <1>4 DEF Ended
  <2>3. /\ call' = [call EXCEPT ![k] = None] /\ call'[k] = None
        /\ reports' = [reports EXCEPT ![k] = Append(Append(@, e), f)]
    BY <2>1, <2>2, BecomesTwice
  <2> HIDE DEF e, f
  <2>4. \A j \in Services \ {k} : call'[j] = call[j]
    BY <2>3 DEF TypeOK
  <2>5. /\ \A j \in Services \ {k} : call'[j] = call[j] /\ reports'[j] = reports[j]
        /\ reports'[k] = Append(Append(reports[k], e), f)
        /\ Coming(k)' \subseteq Coming(k) \union {call'[k], None}
        /\ \A m \in Links : Announced(k, m)' => Announced(k, m) \/ (e.kind = "incoming" /\ Holds(e.call, m))
    BY <2>1, <2>3, <2>4, FedTwice
  <2>6. ASSUME NEW m \in Links PROVE Runs(m, None, Append(Append(reports[k], e), f), Last(k))
    <3>1. Runs(m, None, Append(reports[k], e), Last(k))
      BY <1>0, <2>1, RunsAppend
    <3>2. Append(reports[k], e) \in Seq(Reports)
      BY <1>0, <2>1
    <3> QED BY <1>0, <2>1, <3>1, <3>2, RunsAppend
  <2> QED BY <1>4, <2>1, <2>3, <2>5, <2>6 DEF Fed
<1>5. ASSUME NEW e \in Reports, e.call = None, e.kind \in {"failed", "stopped"},
             reports' = [reports EXCEPT ![k] = Append(@, e)], UNCHANGED used,
             \/ e.kind = "failed" /\ UNCHANGED call
             \/ e.kind = "stopped" /\ call' = [call EXCEPT ![k] = None]
      PROVE  Fed(k)
  <2>1. call'[k] = (IF e.kind = "failed" THEN call[k] ELSE None)
        /\ \A j \in Services \ {k} : call'[j] = call[j]
    BY <1>5 DEF TypeOK
  <2>2. /\ \A j \in Services \ {k} : call'[j] = call[j] /\ reports'[j] = reports[j]
        /\ reports'[k] = Append(reports[k], e)
        /\ Coming(k)' \subseteq Coming(k) \union {call'[k], None}
        /\ \A m \in Links : Announced(k, m)' => Announced(k, m) \/ (e.kind = "incoming" /\ Holds(e.call, m))
    BY <1>5, <2>1, FedOnce
  <2>3. ASSUME NEW m \in Links PROVE Runs(m, call'[k], Append(reports[k], e), Last(k))
    BY <1>0, <1>5, <2>1, RunsAppend
  <2> QED BY <1>5, <2>1, <2>2, <2>3 DEF Fed
<1>6. ASSUME UNCHANGED <<call, reports, used>> PROVE Fed(k)
  BY <1>0, <1>6 DEF Fed, Coming, Announced
<1>7. CASE PlaceCall(k)
  <2>1. ASSUME NEW l \in Links \ used, call[k] = None, used' = used \union {l},
               Becomes(k, [link |-> l, status |-> "calling", profile |-> None], <<>>)
        PROVE  Fed(k)
    <3> DEFINE c == [link |-> l, status |-> "calling", profile |-> None]
               f == Report("snapshot", c)
    <3>1. c \in Calls /\ c.link = l /\ f.kind = "snapshot" /\ f.call = c
      BY DEF Calls, Report
    <3> HIDE DEF c
    <3>2. Becomes(k, c, <<>>)
      BY <2>1 DEF c
    <3>3. /\ call' = [call EXCEPT ![k] = c] /\ call'[k] = c /\ f \in Reports
          /\ reports' = [reports EXCEPT ![k] = Append(@, f)]
      BY <3>1, <3>2, BecomesOnce
    <3> HIDE DEF f
    <3>4. \A j \in Services \ {k} : call'[j] = call[j]
      BY <3>3 DEF TypeOK
    <3>5. /\ \A j \in Services \ {k} : call'[j] = call[j] /\ reports'[j] = reports[j]
          /\ reports'[k] = Append(reports[k], f)
          /\ Coming(k)' \subseteq Coming(k) \union {call'[k], None}
          /\ \A m \in Links : Announced(k, m)' => Announced(k, m) \/ (f.kind = "incoming" /\ Holds(f.call, m))
      BY <3>1, <3>3, <3>4, FedOnce
    <3>6. ASSUME NEW m \in Links PROVE Runs(m, c, Append(reports[k], f), Last(k))
      <4>1. ~Holds(call[k], m) /\ (m # l => ~Holds(c, m))
        BY <2>1, <3>1 DEF Holds
      <4> QED BY <1>0, <1>1, <2>1, <3>1, <3>3, <4>1, RunsAppend
    <3> QED BY <2>1, <3>1, <3>3, <3>5, <3>6 DEF Fed
  <2>2. Report("failed", None) \in Reports /\ Report("failed", None).kind = "failed"
        /\ Report("failed", None).call = None
    BY DEF Report, Reports
  <2>3. Fed(k)
    BY <1>5, <1>7, <2>1, <2>2 DEF PlaceCall
  <2> QED BY <1>7, <2>3 DEF PlaceCall
<1>8. CASE TakeAnswer(k)
  <2>1. Fed(k)
    <3>1. CASE UNCHANGED <<call, reports>>
      BY <1>6, <1>8, <3>1 DEF TakeAnswer
    <3>2. CASE /\ call[k] # None /\ call[k].link = Head(controls[k]).link
               /\ call[k].status = "ringing"
               /\ Becomes(k, [call[k] EXCEPT !.status = "connecting"], <<>>)
      <4> DEFINE c == [call[k] EXCEPT !.status = "connecting"]
      <4>1. c = [link |-> call[k].link, status |-> "connecting", profile |-> None]
            /\ call[k].link \in Links
        BY <1>0, <3>2 DEF Calls
      <4>2. c \in Calls /\ c.link = call[k].link
        BY <4>1 DEF Calls
      <4>3. controls[k] \in Seq(Controls) /\ controls[k] # <<>> /\ Head(controls[k]).kind = "answer"
        BY <1>8 DEF TakeAnswer, TypeOK
      <4>4. Head(controls[k]) = controls[k][1] /\ 1 \in 1..Len(controls[k])
        BY <4>3
      <4>5. call[k].link \in rung
        BY <3>2, <4>3, <4>4 DEF AskedInv
      <4> HIDE DEF c
      <4>6. Becomes(k, c, <<>>)
        BY <3>2 DEF c
      <4> QED BY <1>3, <1>8, <3>2, <4>2, <4>5, <4>6 DEF TakeAnswer, Holds
    <3> QED BY <1>8, <3>1, <3>2 DEF TakeAnswer
  <2> QED BY <1>8, <2>1 DEF TakeAnswer
<1>9. CASE TakeHangup(k)
  <2>1. Fed(k)
    BY <1>4, <1>6, <1>9 DEF TakeHangup
  <2> QED BY <1>9, <2>1 DEF TakeHangup
<1>10. ASSUME NEW p \in Profiles, call[k] # None, call[k].status = "established", UNCHANGED used,
              Becomes(k, [call[k] EXCEPT !.profile = p], <<>>)
       PROVE  Fed(k)
  <2> DEFINE c == [call[k] EXCEPT !.profile = p]
  <2>1. c \in Calls /\ c.link = call[k].link
    BY <1>0, <1>10 DEF Calls
  <2> HIDE DEF c
  <2>2. Becomes(k, c, <<>>)
    BY <1>10 DEF c
  <2> QED BY <1>3, <1>10, <2>1, <2>2 DEF Holds
<1>11. CASE TakeSwitch(k)
  <2>1. Fed(k)
    <3>1. CASE UNCHANGED <<call, reports>>
      BY <1>6, <1>11, <3>1 DEF TakeSwitch
    <3>2. CASE ~ (call[k] = None \/ call[k].status # "established")
      <4>1. Head(controls[k]) \in Controls /\ Head(controls[k]).kind = "switch"
        BY <1>11, TailType DEF TakeSwitch, TypeOK
      <4>2. Head(controls[k]).to \in Profiles
        BY <4>1 DEF Controls
      <4> QED BY <1>10, <1>11, <3>2, <4>2 DEF TakeSwitch
    <3> QED BY <1>11, <3>1, <3>2 DEF TakeSwitch
  <2> QED BY <1>11, <2>1 DEF TakeSwitch
<1>12. CASE TakeShutdown(k)
  <2>1. Report("stopped", None) \in Reports /\ Report("stopped", None).kind = "stopped"
        /\ Report("stopped", None).call = None
    BY DEF Report, Reports
  <2>2. Fed(k)
    BY <1>5, <1>12, <2>1 DEF TakeShutdown
  <2> QED BY <1>12, <2>2 DEF TakeShutdown
<1>13. CASE Establish(k)
  <2>1. PICK p \in Profiles :
          Becomes(k, [call[k] EXCEPT !.status = "established", !.profile = p], <<>>)
    BY <1>13 DEF Establish
  <2> DEFINE c == [call[k] EXCEPT !.status = "established", !.profile = p]
  <2>2. c \in Calls /\ c.link = call[k].link
    BY <1>0, <1>13 DEF Calls, Establish
  <2> HIDE DEF c
  <2>3. Becomes(k, c, <<>>)
    BY <2>1 DEF c
  <2>4. Fed(k)
    BY <1>3, <1>13, <2>2, <2>3 DEF Holds, Establish
  <2> QED BY <1>13, <2>4 DEF Establish
<1>14. CASE RemoteSwitch(k)
  <2>1. Fed(k)
    BY <1>10, <1>14 DEF RemoteSwitch
  <2> QED BY <1>14, <2>1 DEF RemoteSwitch
<1>15. CASE RemoteHangup(k)
  <2>1. Fed(k)
    BY <1>4, <1>15 DEF RemoteHangup
  <2> QED BY <1>15, <2>1 DEF RemoteHangup
<1> QED BY <1>2, <1>7, <1>8, <1>9, <1>11, <1>12, <1>13, <1>14, <1>15 DEF Service

LEMMA ReadShrinks ==
  ASSUME TypeOK, CallInv, NEW k \in Services, NEW kind, Read(k, kind)
  PROVE  /\ reports[k] \in Seq(Reports) /\ reports[k] # <<>> /\ reports'[k] = Tail(reports[k])
         /\ \A j \in Services \ {k} : reports'[j] = reports[j]
         /\ Head(reports[k]).kind = kind /\ Head(reports[k]).call \in Coming(k)
         /\ Coming(k)' \subseteq Coming(k)
         /\ \A l \in Links : Announced(k, l)' => Announced(k, l)
         /\ \A l \in Links : Holds(Head(reports[k]).call, l) =>
              /\ kind = "incoming" => Announced(k, l) /\ ~Announced(k, l)'
              /\ kind = "ended" => \A c \in Coming(k)' : ~Holds(c, l)
         /\ \A l \in Links :
              Holds(Last(k), l) /\ ~Holds(Head(reports[k]).call, l) /\ kind # "failed" =>
                \A c \in Coming(k)' : ~Holds(c, l)
<1> DEFINE r == reports[k]
           n == Len(reports[k])
<1>1. /\ r \in Seq(Reports) /\ r # <<>> /\ reports'[k] = Tail(r) /\ call' = call
      /\ Head(r).kind = kind /\ \A j \in Services \ {k} : reports'[j] = reports[j]
  BY DEF Read, TypeOK
<1>2. /\ n \in Nat \ {0} /\ Head(r) = r[1] /\ 1 \in 1..n /\ Len(reports'[k]) = n - 1
      /\ \A i \in 1..Len(reports'[k]) : i + 1 \in 1..n /\ reports'[k][i] = r[i + 1] /\ 1 < i + 1
  BY <1>1
<1>3. r[1].call \in Coming(k)
  BY <1>2 DEF Coming
<1>4. \A c \in Coming(k)' : c = call[k] \/ \E i \in 1..n : 1 < i /\ c = r[i].call
  BY <1>1, <1>2 DEF Coming
<1>5. Coming(k)' \subseteq Coming(k)
  BY <1>4 DEF Coming
<1>6. \A l \in Links : Announced(k, l)' =>
        \E i \in 1..n : 1 < i /\ r[i].kind = "incoming" /\ Holds(r[i].call, l)
  BY <1>2 DEF Announced
<1>7. \A l \in Links : Runs(l, call[k], r, Last(k))
  BY DEF CallInv, OrderInv
<1>8. ASSUME NEW l \in Links, Holds(r[1].call, l)
      PROVE  /\ kind = "incoming" => Announced(k, l) /\ ~Announced(k, l)'
             /\ kind = "ended" => \A c \in Coming(k)' : ~Holds(c, l)
  <2>1. kind = "incoming" => Announced(k, l)
    BY <1>1, <1>2, <1>8 DEF Announced
  <2>2. ASSUME kind = "incoming", Announced(k, l)' PROVE FALSE
    <3>1. PICK i \in 1..n : 1 < i /\ r[i].kind = "incoming" /\ Holds(r[i].call, l)
      BY <1>6, <2>2
    <3> QED BY <1>2, <1>7, <1>8, <3>1 DEF Runs
  <2>3. ASSUME kind = "ended", NEW c \in Coming(k)' PROVE ~Holds(c, l)
    BY <1>1, <1>2, <1>4, <1>7, <1>8, <2>3 DEF Runs
  <2> QED BY <2>1, <2>2, <2>3
<1>9. ASSUME NEW l \in Links, Holds(Last(k), l), ~Holds(r[1].call, l), kind # "failed",
             NEW c \in Coming(k)', Holds(c, l)
      PROVE  FALSE
  <2>1. ~Steady(r[1], l)
    BY <1>1, <1>2, <1>9 DEF Steady
  <2> QED BY <1>2, <1>4, <1>7, <1>9, <2>1 DEF Runs
<1> QED BY <1>1, <1>2, <1>3, <1>5, <1>6, <1>8, <1>9 DEF Announced

LEMMA ReadOrder ==
  ASSUME TypeOK, CallInv, NEW k \in Services, NEW kind, Read(k, kind),
         NEW v \in Calls \union {None},
         v \in {Last(k), None} \/ (v = Head(reports[k]).call /\ kind = "snapshot"),
         Last(k)' = v, \A j \in Services \ {k} : Last(j)' = Last(j)
  PROVE  OrderInv'
<1>1. /\ reports[k] \in Seq(Reports) /\ reports[k] # <<>> /\ reports'[k] = Tail(reports[k])
      /\ call' = call /\ Head(reports[k]).kind = kind
      /\ \A j \in Services \ {k} : reports'[j] = reports[j]
  BY DEF Read, TypeOK
<1>2. latest[k] # <<>> => Head(latest[k]) \in Calls \union {None}
  BY TailType DEF TypeOK
<1>3. Last(k) \in Calls \union {None} /\ call[k] \in Calls \union {None}
  BY <1>2 DEF Last, TypeOK
<1>4. \A l \in Links : Runs(l, call[k], reports[k], Last(k))
  BY DEF CallInv, OrderInv
<1>5. \A l \in Links : Runs(l, call[k], Tail(reports[k]), v)
  BY <1>1, <1>3, <1>4, RunsTail
<1> QED BY <1>1, <1>5 DEF CallInv, OrderInv

(* What a step of the loop, of a command or of the shutdown may do.        *)
Loud(j, l) == \E c \in Coming(j) \union {Last(j)} : Holds(c, l) /\ c.status # "ringing"

Fewer(j) ==
  /\ Coming(j)' \subseteq Coming(j) \union {None}
  /\ Last(j)' \in Coming(j) \union {Last(j), None}
  /\ audio'[j] # None => audio[j] # None \/ j =< made

Calmer(j, l) ==
  /\ Pending(j, l)' => Pending(j, l)
  /\ ~ (Announced(j, l)' /\ AtLink(j, l)')
  /\ Holds(audio'[j], l) => Holds(audio[j], l) \/ Loud(j, l)

Decided(l) == \A j \in Services : ~Pending(j, l)'

Settled(l) ==
  /\ l \in rung' => \/ l \in rung
                    \/ /\ \E j \in Services : Pending(j, l)
                       /\ l \notin spurned' /\ Decided(l)
  /\ shown' = l => \/ shown = l
                   \/ /\ \E j \in Services : \E c \in Coming(j) : Holds(c, l)
                      /\ l \notin spurned' /\ Decided(l)
  /\ l \in spurned' => l \in spurned \/ ((\E j \in Services : Pending(j, l)) /\ Decided(l))
  /\ least'[l] # None => least[l] # None \/ (made # 0 /\ \E j \in Services : Loud(j, l))

LEMMA LoopKeeps ==
  ASSUME TypeOK, TypeOK', CallInv, UNCHANGED used, made =< made',
         \A j \in Services : Fewer(j) /\ \A l \in Links : Calmer(j, l),
         \A l \in Links : Settled(l),
         OrderInv', RefusedInv', SlotInv'
  PROVE  CallInv'
<1> USE DEF Fewer, Calmer, Settled, Decided
<1>1. \A j \in Services, l \in Links : Loud(j, l) => Has(j, l)
  BY DEF Loud, Has
<1>2. \A j \in Services,
    l \in Links : Has(j, l) => l \in used /\ \A i \in Services \ {j} : ~Has(i, l)
  BY DEF CallInv, OwnInv
<1>3. ASSUME NEW j \in Services, NEW l \in Links, NEW c \in Coming(j)' \union {Last(j)'},
    Holds(c, l)
      PROVE  c \in Coming(j) \union {Last(j)}
  BY <1>3 DEF Holds
<1>4. ASSUME NEW j \in Services, NEW l \in Links, Has(j, l)' PROVE Has(j, l)
  <2>1. CASE Holds(audio'[j], l) \/ Pending(j, l)'
    BY <1>1, <2>1 DEF Has
  <2>2. ASSUME NEW c \in Coming(j)' \union {Last(j)'}, Holds(c, l) PROVE Has(j, l)
    BY <1>3, <2>2 DEF Has
  <2> QED BY <1>4, <2>1, <2>2 DEF Has
<1>5. OwnInv'
  BY <1>2, <1>4 DEF OwnInv
<1>6. UsedInv'
  <2>1. \A l \in Links : (l \in rung' => l \in used) /\ (l \in spurned' => l \in used)
    BY <1>2 DEF Has, CallInv, UsedInv
  <2>2. \A j \in Services, l \in Links : (\E c \in Coming(j) : Holds(c, l)) => l \in used
    BY <1>2 DEF Has
  <2>3. shown' \in used \union {None}
    BY <2>2 DEF TypeOK, CallInv, UsedInv
  <2>4. \A l \in Links : least'[l] # None => l \in used /\ made' # 0
    BY <1>1, <1>2 DEF CallInv, UsedInv, TypeOK
  <2>5. \A j \in Services : audio'[j] # None => j =< made'
    BY DEF CallInv, UsedInv, TypeOK, Services
  <2> QED BY <2>1, <2>3, <2>4, <2>5 DEF UsedInv, TypeOK
<1>7. ASSUME NEW l \in Links, NEW j \in Services, Pending(j, l) \/ l \in spurned
      PROVE  Unseen(l) /\ \A i \in Services : ~Loud(i, l)
  <2>1. Unseen(l)
    BY <1>7 DEF CallInv, PendingInv, SpurnedInv
  <2>2. ASSUME NEW i \in Services, Loud(i, l) PROVE FALSE
    <3>1. l \in spurned \/ Pending(i, l)
      BY <1>1, <1>2, <1>7, <2>2 DEF Has
    <3> QED BY <2>2, <3>1 DEF CallInv, RingInv, Loud
  <2> QED BY <2>1, <2>2
<1>8. PendingInv'
  <2> SUFFICES ASSUME NEW j \in Services, NEW l \in Links, Pending(j, l)'
               PROVE  Unseen(l)' /\ l \notin spurned'
    BY DEF PendingInv
  <2>1. Pending(j, l) /\ l \notin spurned
    BY DEF CallInv, PendingInv
  <2>2. Unseen(l) /\ \A i \in Services : ~Loud(i, l)
    BY <1>7, <2>1
  <2>3. l \notin rung' /\ shown' # l /\ \A i \in Services : ~Holds(audio'[i], l)
    BY <2>2 DEF Unseen
  <2> QED BY <2>1, <2>3 DEF Unseen
<1>9. RingInv'
  <2> SUFFICES ASSUME NEW j \in Services, NEW l \in Links, l \in spurned' \/ Pending(j, l)',
                      NEW c \in Coming(j)' \union {Last(j)'}, Holds(c, l)
               PROVE  c.status = "ringing"
    BY DEF RingInv
  <2>1. c \in Coming(j) \union {Last(j)}
    BY <1>3
  <2>2. l \in spurned \/ \E i \in Services : Pending(i, l)
    OBVIOUS
  <2> QED BY <1>7, <2>1, <2>2 DEF Loud
<1>10. SpurnedInv'
  <2> SUFFICES ASSUME NEW l \in Links, l \in spurned' PROVE Unseen(l)'
    BY DEF SpurnedInv, TypeOK
  <2>1. l \in spurned \/ \E i \in Services : Pending(i, l)
    OBVIOUS
  <2>2. l \notin rung /\ shown # l /\ \A i \in Services : ~Holds(audio[i], l) /\ ~Loud(i, l)
    <3>1. CASE \E i \in Services : Pending(i, l)
      BY <1>7, <3>1 DEF Unseen
    <3>2. CASE l \in spurned
      BY <1>7, <3>2 DEF Unseen, CallInv, SpurnedInv
    <3> QED BY <2>1, <3>1, <3>2
  <2> QED BY <2>2 DEF Unseen
<1> QED BY <1>5, <1>6, <1>8, <1>9, <1>10 DEF CallInv

LEMMA SlotKept ==
  ASSUME CallInv, UNCHANGED <<made, slot, least>>,
         \A j \in Services : /\ Coming(j)' \subseteq Coming(j) \union {None}
                             /\ Last(j)' = Last(j)
                             /\ loop'[j].at # "ended" => loop[j].at # "ended"
  PROVE  SlotInv'
<1> SUFFICES ASSUME NEW j \in Services, NEW l \in Links, made = 1, j = 1, loop'[j].at # "ended",
                    least[l] # None, NEW c \in Coming(j)' \union {Last(j)'}, Holds(c, l)
             PROVE  Holds(Last(j), l) /\ Holds(slot, l) /\ slot.profile =< least[l]
  BY DEF SlotInv
<1>1. c \in Coming(j) \union {Last(j)} /\ loop[j].at # "ended"
  BY DEF Holds
<1> QED BY <1>1 DEF CallInv, SlotInv

LEMMA RefusedKept ==
  ASSUME CallInv, UNCHANGED spurned,
         \A j \in Services : Coming(j)' \subseteq Coming(j) \union {None} /\ refused[j] \subseteq refused'[j]
  PROVE  RefusedInv'
BY DEF CallInv, RefusedInv, Holds

LEMMA ReconcileCall ==
  ASSUME TypeOK, NEW k \in Services, NEW c \in Calls \union {None}, Reconcile(k, c)
  PROVE  /\ \A j \in Services \ {k} : audio'[j] = audio[j]
         /\ \A l \in Links : Holds(audio'[k], l) =>
              Holds(audio[k], l) \/ (Holds(c, l) /\ c.status = "established")
         /\ \A l \in Links : least'[l] # least[l] => Holds(c, l) /\ c.status = "established"
<1>1. CASE UNCHANGED <<audio, least>>
  BY <1>1
<1>2. CASE StopAudio(k) /\ UNCHANGED least
  BY <1>2 DEF StopAudio, TypeOK, Holds
<1>3. CASE /\ c # None /\ c.status = "established"
           /\ StartAudio(k, c.link, c.profile)
  <2>1. ASSUME audio' = [audio EXCEPT ![k] = [link |-> c.link, profile |-> c.profile]],
               least' = [least EXCEPT ![c.link] =
                 IF c.profile \in Opus \/ (@ # None /\ @ < c.profile) THEN @ ELSE c.profile]
        PROVE  /\ \A j \in Services \ {k} : audio'[j] = audio[j]
               /\ \A l \in Links : Holds(audio'[k], l) => Holds(c, l)
               /\ \A l \in Links : least'[l] # least[l] => Holds(c, l)
    <3>1. audio'[k] = [link |-> c.link, profile |-> c.profile]
          /\ \A j \in Services \ {k} : audio'[j] = audio[j]
      BY <2>1 DEF TypeOK
    <3>2. \A l \in Links : l # c.link => least'[l] = least[l]
      BY <2>1 DEF TypeOK
    <3> QED BY <1>3, <3>1, <3>2 DEF Holds
  <2> QED BY <1>2, <1>3, <2>1 DEF StartAudio
<1> QED BY <1>1, <1>2, <1>3 DEF Reconcile

(* The slot answers for every constrained call that can still be heard of. *)
Bound(c, sl, le, l) == Holds(c, l) /\ Holds(sl, l) /\ sl.profile =< le[l]

LEMMA ReconcileSlot ==
  ASSUME TypeOK, NEW k \in Services, NEW c \in Calls \union {None}, Reconcile(k, c),
         NEW l \in Links, least[l] # None => Bound(c, slot, least, l), least'[l] # None
  PROVE  Bound(c, slot', least', l)
<1>1. CASE UNCHANGED <<slot, least>>
  BY <1>1
<1>2. CASE c = None
  <2>1. least' = least
    BY <1>2 DEF Reconcile
  <2> QED BY <1>2, <2>1 DEF Bound, Holds
<1>3. CASE /\ c # None /\ c.status = "established" /\ Ceiling(c.link, c.profile) = None
           /\ slot' = Synced(c.link, c.profile)
           /\ UNCHANGED least \/ StartAudio(k, c.link, c.profile)
  <2> DEFINE p == c.profile
  <2>1. c \in Calls /\ p \in Profiles /\ p \in Nat \ {0} /\ c.link \in Links
    BY <1>3, VoiceAssumption DEF Calls
  <2>2. slot # None => slot \in Slots /\ slot.profile \in Profiles \ Opus /\ slot.profile \in Nat
        /\ slot.profile # None
    BY VoiceAssumption DEF TypeOK, Slots
  <2>3. slot # None /\ slot.link = c.link => p \notin Opus /\ p =< slot.profile
    BY <1>3, <2>1, <2>2 DEF Ceiling
  <2>4. \A m \in Links : m # c.link => least'[m] = least[m]
    BY <1>3 DEF StartAudio, TypeOK
  <2>5. Holds(c, l)
    <3>1. CASE least[l] # None
      BY <3>1 DEF Bound
    <3>2. CASE least[l] = None
      BY <1>3, <2>4, <3>2 DEF Holds
    <3> QED BY <3>1, <3>2
  <2>6. l = c.link
    BY <2>5 DEF Holds
  <2>7. least[l] # None => least[l] \in Nat /\ least[l] # None
    BY VoiceAssumption DEF TypeOK
  <2>8. least'[l] = least[l] \/ (p \notin Opus /\ least'[l] = p)
    BY <1>3, <2>6 DEF StartAudio, TypeOK
  <2>9. p \notin Opus /\ p =< least'[l]
    <3>1. CASE least[l] # None
      <4>1. slot # None /\ slot.link = c.link /\ slot.profile =< least[l]
        BY <2>6, <3>1 DEF Bound, Holds
      <4>2. p =< least[l]
        BY <2>1, <2>2, <2>3, <2>7, <3>1, <4>1
      <4> QED BY <2>1, <2>3, <2>8, <4>1, <4>2
    <3>2. CASE least[l] = None
      BY <2>1, <2>8, <3>2
    <3> QED BY <3>1, <3>2
  <2>10. slot' = [link |-> c.link, profile |-> p] /\ slot' \in Slots
    BY <1>3, <2>1, <2>9 DEF Synced, Slots
  <2>11. slot' # None
    BY <2>10, NoneAssumption
  <2> QED BY <2>5, <2>6, <2>9, <2>10, <2>11 DEF Bound, Holds
<1>4. CASE c # None /\ c.status # "established"
  BY <1>1, <1>4 DEF Reconcile
<1>5. CASE c # None /\ c.status = "established"
  BY <1>1, <1>3, <1>5 DEF Reconcile
<1> QED BY <1>2, <1>4, <1>5

Low(k) == audio[k] # None /\ least[audio[k].link] # None =>
            audio[k].profile \notin Opus /\ audio[k].profile =< least[audio[k].link]

LEMMA ReconcileLow ==
  ASSUME TypeOK, NEW k \in Services, NEW c \in Calls \union {None}, Reconcile(k, c), Low(k),
         \A l \in Links : Holds(c, l) /\ least[l] # None => Bound(c, slot, least, l)
  PROVE  Low(k)'
<1>1. CASE UNCHANGED <<audio, least>>
  BY <1>1 DEF Low
<1>2. CASE StopAudio(k)
  BY <1>2 DEF StopAudio, Low, TypeOK
<1>3. CASE /\ c # None /\ c.status = "established" /\ Ceiling(c.link, c.profile) = None
           /\ audio' = [audio EXCEPT ![k] = [link |-> c.link, profile |-> c.profile]]
           /\ least' = [least EXCEPT ![c.link] =
                 IF c.profile \in Opus \/ (@ # None /\ @ < c.profile) THEN @ ELSE c.profile]
  <2> DEFINE p == c.profile
             l == c.link
  <2>1. c \in Calls /\ p \in Profiles /\ p \in Nat \ {0} /\ l \in Links /\ Holds(c, l)
    BY <1>3, VoiceAssumption DEF Calls, Holds
  <2>2. slot # None => slot \in Slots /\ slot.profile \in Profiles \ Opus /\ slot.profile \in Nat
        /\ slot.profile # None
    BY VoiceAssumption DEF TypeOK, Slots
  <2>3. slot # None /\ slot.link = l => p \notin Opus /\ p =< slot.profile
    BY <1>3, <2>1, <2>2 DEF Ceiling
  <2>4. least[l] # None => least[l] \in Nat
    BY <2>1, VoiceAssumption DEF TypeOK
  <2>5. least[l] # None => p \notin Opus /\ p =< least[l]
    BY <2>1, <2>2, <2>3, <2>4 DEF Bound, Holds
  <2>6. least'[l] = IF p \in Opus \/ (least[l] # None /\ least[l] < p) THEN least[l] ELSE p
    BY <1>3, <2>1 DEF TypeOK
  <2>7. least'[l] # None => p \notin Opus /\ p =< least'[l]
    BY <2>1, <2>4, <2>5, <2>6
  <2>8. audio'[k] = [link |-> l, profile |-> p]
    BY <1>3 DEF TypeOK
  <2>9. audio'[k].link = l /\ audio'[k].profile = p
    BY <2>8
  <2> QED BY <2>7, <2>9 DEF Low
<1> QED BY <1>1, <1>2, <1>3 DEF Reconcile, StartAudio

LEMMA LoopCalls ==
  ASSUME TypeOK, TypeOK', CallInv, Unmade, NEW k \in Services, Loop(k) \/ Tick(k) \/ Media(k)
  PROVE  CallInv'
<1> USE DEF extv, loopv, userv, lifev, histv
<1>0. /\ made \in Nat /\ made' = made /\ call' = call /\ used' = used
      /\ loop[k].at # "none" => k =< made
  BY DEF Loop, Tick, Media, ReadIncoming, TurnDown, Admit, Announce, ReadFailed, ReadEnded,
     ReadSnapshot, LoopEnds, Read, TypeOK, Unmade, Services
<1>1. ASSUME UNCHANGED <<reports, latest>>
      PROVE  /\ \A j \in Services : Coming(j)' = Coming(j) /\ Last(j)' = Last(j)
             /\ \A j \in Services, l \in Links : Announced(j, l)' <=> Announced(j, l)
             /\ OrderInv'
  BY <1>0, <1>1 DEF Coming, Last, Announced, CallInv, OrderInv
<1>2. ASSUME NEW kind, Read(k, kind)
      PROVE  /\ \A j \in Services : Coming(j)' \subseteq Coming(j)
             /\ \A j \in Services, l \in Links : Announced(j, l)' => Announced(j, l)
             /\ Free(k) /\ k =< made
  <2>1. \A j \in Services \ {k} : Coming(j)' = Coming(j)
                                  /\ \A l \in Links : Announced(j, l)' <=> Announced(j, l)
    BY <1>0, <1>2, ReadShrinks DEF Coming, Announced
  <2> QED BY <1>0, <1>2, <2>1, ReadShrinks DEF Read, Free
<1>3. \A j \in Services, l \in Links : Pending(j, l) => ~ (Announced(j, l) /\ AtLink(j, l))
  BY DEF CallInv, PendingInv
<1>4. ASSUME UNCHANGED latest PROVE \A j \in Services : Last(j)' = Last(j)
  BY <1>4 DEF Last
<1>5. Last(k) \in Calls \union {None}
  BY TailType DEF Last, TypeOK
<1>6. CASE ReadIncoming(k)
  <2>1. Read(k, "incoming") /\ loop[k].at = "free"
        /\ UNCHANGED <<audio, refused, slot, rung, spurned, shown, least, latest>>
    BY <1>6 DEF ReadIncoming, Read, Free
  <2>2. PICK m \in Links : m = Head(reports[k]).call.link
    BY <2>1, ReadType
  <2>2a. Head(reports[k]).call \in Calls /\ Head(reports[k]).call # None
    BY <2>1, ReadType, NoneAssumption
  <2>3. /\ loop'[k].at = "policy" /\ loop'[k].link = m
        /\ \A j \in Services \ {k} : loop'[j] = loop[j]
    BY <1>6, <2>2, AtLoop DEF ReadIncoming
  <2>4a. Holds(Head(reports[k]).call, m)
    BY <2>2, <2>2a DEF Holds
  <2>4. Announced(k, m) /\ ~Announced(k, m)'
    BY <2>1, <2>2, <2>4a, ReadShrinks
  <2>5. \A j \in Services, l \in Links : AtLink(j, l)' =>
          AtLink(j, l) \/ (j = k /\ l = m)
    BY <2>3 DEF AtLink
  <2>6. \A j \in Services, l \in Links :
          (Pending(j, l)' => Pending(j, l)) /\ ~ (Announced(j, l)' /\ AtLink(j, l)')
    <3> SUFFICES ASSUME NEW j \in Services, NEW l \in Links
                 PROVE  (Pending(j, l)' => Pending(j, l)) /\ ~ (Announced(j, l)' /\ AtLink(j, l)')
      OBVIOUS
    <3>1. Announced(j, l)' => Announced(j, l)
      BY <1>2, <2>1
    <3>2. CASE AtLink(j, l)
      BY <1>3, <3>1, <3>2 DEF Pending
    <3>3. CASE j = k /\ l = m
      BY <2>4, <3>3 DEF Pending
    <3> QED BY <2>5, <3>1, <3>2, <3>3 DEF Pending
  <2>7. OrderInv'
    BY <1>4, <1>5, <2>1, ReadOrder
  <2>8. RefusedInv'
    BY <1>2, <2>1, RefusedKept
  <2>9. SlotInv'
    BY <1>0, <1>2, <1>4, <2>1, <2>3, SlotKept
  <2>91. \A j \in Services : Fewer(j)
    BY <1>0, <1>2, <1>4, <2>1, <2>6, <2>7, <2>8, <2>9 DEF Fewer
  <2>92. \A j \in Services, l \in Links : Calmer(j, l)
    BY <1>0, <1>2, <1>4, <2>1, <2>6, <2>7, <2>8, <2>9 DEF Calmer
  <2>93. \A l \in Links : Settled(l)
    BY <1>0, <1>2, <1>4, <2>1, <2>6, <2>7, <2>8, <2>9 DEF Settled, Decided
  <2> QED BY <1>0, <1>2, <1>4, <2>1, <2>6, <2>7, <2>8, <2>9, <2>91, <2>92, <2>93, LoopKeeps
<1>7. CASE TurnDown(k)
  <2>0. PICK m \in Links : m = loop[k].link
    BY <1>7 DEF TurnDown, TypeOK, Loops
  <2>1. /\ loop[k].at = "policy" /\ spurned' = spurned \union {m}
        /\ UNCHANGED <<reports, latest, audio, slot, shown, rung, least>>
    BY <1>7, <2>0 DEF TurnDown
  <2>2. m \in Links /\ AtLink(k, m)
    BY <2>0, <2>1 DEF AtLink
  <2>3. /\ loop'[k].at = "free" /\ \A j \in Services \ {k} : loop'[j] = loop[j]
    BY <1>7, AtLoop DEF TurnDown
  <2>4. \A j \in Services, l \in Links : AtLink(j, l)' => AtLink(j, l) /\ j # k
    BY <2>3 DEF AtLink
  <2>5. Pending(k, m) /\ ~Announced(k, m) /\ \A j \in Services \ {k} : ~Pending(j, m)
    BY <1>3, <2>2 DEF Pending, CallInv, OwnInv, Has
  <2>6. \A j \in Services, l \in Links : /\ Pending(j, l)' => Pending(j, l)
                                         /\ ~ (Announced(j, l)' /\ AtLink(j, l)')
    BY <1>1, <1>3, <2>1, <2>4 DEF Pending
  <2>7. \A j \in Services : ~Pending(j, m)'
    <3>1. ~Announced(k, m)' /\ ~AtLink(k, m)'
      BY <1>1, <2>1, <2>2, <2>4, <2>5
    <3>2. \A j \in Services \ {k} : ~Pending(j, m)'
      BY <2>2, <2>5, <2>6
    <3> QED BY <3>1, <3>2 DEF Pending
  <2>8. refused'[k] = refused[k] \union {m} /\ \A j \in Services \ {k} : refused'[j] = refused[j]
    BY <1>7, <2>0 DEF TurnDown, TypeOK
  <2>9. RefusedInv'
    <3> SUFFICES ASSUME NEW j \in Services, NEW l \in spurned \union {m},
                        NEW c \in Coming(j), Holds(c, l)
                 PROVE  l \in refused'[j]
      BY <1>1, <2>1 DEF RefusedInv
    <3>1. CASE l \in spurned
      BY <2>8, <3>1 DEF CallInv, RefusedInv
    <3>2. CASE l = m
      <4>1. Has(j, m) /\ Has(k, m)
        BY <2>5, <3>2 DEF Has
      <4>2. j = k
        BY <2>2, <4>1 DEF CallInv, OwnInv
      <4> QED BY <2>8, <3>2, <4>2
    <3> QED BY <3>1, <3>2
  <2>10. SlotInv'
    BY <1>0, <1>1, <2>1, <2>3, SlotKept
  <2>91. \A j \in Services : Fewer(j)
    BY <1>0, <1>1, <2>1, <2>2, <2>5, <2>6, <2>7, <2>9, <2>10 DEF Fewer
  <2>92. \A j \in Services, l \in Links : Calmer(j, l)
    BY <1>0, <1>1, <2>1, <2>2, <2>5, <2>6, <2>7, <2>9, <2>10 DEF Calmer
  <2>93. \A l \in Links : Settled(l)
    BY <1>0, <1>1, <2>1, <2>2, <2>5, <2>6, <2>7, <2>9, <2>10 DEF Settled, Decided
  <2> QED BY <1>0, <1>1, <2>1, <2>2, <2>5, <2>6, <2>7, <2>9, <2>10, <2>91, <2>92, <2>93, LoopKeeps
<1>8. CASE Admit(k)
  <2>1. /\ loop[k].at = "policy"
        /\ UNCHANGED <<reports, latest, audio, slot, shown, rung, least, refused, spurned>>
    BY <1>8 DEF Admit
  <2>2. /\ loop'[k].at = "handoff" /\ loop'[k].link = loop[k].link
        /\ \A j \in Services \ {k} : loop'[j] = loop[j]
    BY <1>8, AtLoop DEF Admit
  <2>3. \A j \in Services, l \in Links : AtLink(j, l)' <=> AtLink(j, l)
    BY <2>1, <2>2 DEF AtLink
  <2>4. \A j \in Services, l \in Links : /\ Pending(j, l)' => Pending(j, l)
                                         /\ ~ (Announced(j, l)' /\ AtLink(j, l)')
    BY <1>1, <1>3, <2>1, <2>3 DEF Pending
  <2>5. RefusedInv' /\ SlotInv'
    BY <1>0, <1>1, <2>1, <2>2, SlotKept, RefusedKept
  <2>91. \A j \in Services : Fewer(j)
    BY <1>0, <1>1, <2>1, <2>4, <2>5 DEF Fewer
  <2>92. \A j \in Services, l \in Links : Calmer(j, l)
    BY <1>0, <1>1, <2>1, <2>4, <2>5 DEF Calmer
  <2>93. \A l \in Links : Settled(l)
    BY <1>0, <1>1, <2>1, <2>4, <2>5 DEF Settled, Decided
  <2> QED BY <1>0, <1>1, <2>1, <2>4, <2>5, <2>91, <2>92, <2>93, LoopKeeps
<1>9. CASE Announce(k)
  <2>0. PICK m \in Links : m = loop[k].link
    BY <1>9 DEF Announce, TypeOK, Loops
  <2>1. /\ loop[k].at = "handoff" /\ rung' = rung \union {m}
        /\ UNCHANGED <<reports, latest, audio, slot, shown, least, refused, spurned>>
    BY <1>9, <2>0 DEF Announce
  <2>2. m \in Links /\ AtLink(k, m)
    BY <2>0, <2>1 DEF AtLink
  <2>3. loop'[k].at = "free" /\ \A j \in Services \ {k} : loop'[j] = loop[j]
    BY <1>9, AtLoop DEF Announce
  <2>4. \A j \in Services, l \in Links : AtLink(j, l)' => AtLink(j, l) /\ j # k
    BY <2>3 DEF AtLink
  <2>5. /\ Pending(k, m) /\ ~Announced(k, m) /\ m \notin spurned
        /\ \A j \in Services \ {k} : ~Pending(j, m)
    BY <1>3, <2>2 DEF Pending, CallInv, OwnInv, PendingInv, Has
  <2>6. \A j \in Services, l \in Links : /\ Pending(j, l)' => Pending(j, l)
                                         /\ ~ (Announced(j, l)' /\ AtLink(j, l)')
    BY <1>1, <1>3, <2>1, <2>4 DEF Pending
  <2>7. \A j \in Services : ~Pending(j, m)'
    <3>1. ~Announced(k, m)' /\ ~AtLink(k, m)'
      BY <1>1, <2>1, <2>2, <2>4, <2>5
    <3>2. \A j \in Services \ {k} : ~Pending(j, m)'
      BY <2>2, <2>5, <2>6
    <3> QED BY <3>1, <3>2 DEF Pending
  <2>8. RefusedInv' /\ SlotInv'
    BY <1>0, <1>1, <2>1, <2>3, SlotKept, RefusedKept
  <2>91. \A j \in Services : Fewer(j)
    BY <1>0, <1>1, <2>1, <2>2, <2>5, <2>6, <2>7, <2>8 DEF Fewer
  <2>92. \A j \in Services, l \in Links : Calmer(j, l)
    BY <1>0, <1>1, <2>1, <2>2, <2>5, <2>6, <2>7, <2>8 DEF Calmer
  <2>93. \A l \in Links : Settled(l)
    BY <1>0, <1>1, <2>1, <2>2, <2>5, <2>6, <2>7, <2>8 DEF Settled, Decided
  <2> QED BY <1>0, <1>1, <2>1, <2>2, <2>5, <2>6, <2>7, <2>8, <2>91, <2>92, <2>93, LoopKeeps
<1>10. CASE ReadFailed(k)
  <2>1. Read(k, "failed") /\ UNCHANGED <<loop, latest, audio, slot, shown, rung, least,
      refused, spurned>>
    BY <1>10 DEF ReadFailed
  <2>2. \A j \in Services, l \in Links :
          (Pending(j, l)' => Pending(j, l)) /\ ~ (Announced(j, l)' /\ AtLink(j, l)')
    BY <1>2, <1>3, <2>1 DEF Pending, AtLink
  <2>3. OrderInv' /\ RefusedInv' /\ SlotInv'
    BY <1>0, <1>2, <1>4, <1>5, <2>1, ReadOrder, RefusedKept, SlotKept
  <2>91. \A j \in Services : Fewer(j)
    BY <1>0, <1>2, <1>4, <2>1, <2>2, <2>3 DEF Fewer
  <2>92. \A j \in Services, l \in Links : Calmer(j, l)
    BY <1>0, <1>2, <1>4, <2>1, <2>2, <2>3 DEF Calmer
  <2>93. \A l \in Links : Settled(l)
    BY <1>0, <1>2, <1>4, <2>1, <2>2, <2>3 DEF Settled, Decided
  <2> QED BY <1>0, <1>2, <1>4, <2>1, <2>2, <2>3, <2>91, <2>92, <2>93, LoopKeeps
<1>11. CASE ReadEnded(k)
  <2>1. Read(k, "ended") /\ UNCHANGED <<loop, slot, rung, least, spurned>>
        /\ shown' \in {shown, None}
    BY <1>11 DEF ReadEnded
  <2>2a. PICK m \in Links : m = Head(reports[k]).call.link
    BY <2>1, ReadType
  <2>2. Head(reports[k]).call \in Calls /\ Holds(Head(reports[k]).call, m)
    BY <2>1, <2>2a, ReadType, NoneAssumption DEF Holds
  <2>3. \A c \in Coming(k)' : ~Holds(c, m)
    BY <2>1, <2>2, ReadShrinks
  <2>4. \A j \in Services, l \in Links :
          (Pending(j, l)' => Pending(j, l)) /\ ~ (Announced(j, l)' /\ AtLink(j, l)')
    BY <1>2, <1>3, <2>1 DEF Pending, AtLink
  <2>5. \A j \in Services : audio'[j] \in {audio[j], None}
    BY <1>11 DEF ReadEnded, StopAudio, TypeOK
  <2>6. /\ \A j \in Services \ {k} : Last(j)' = Last(j)
        /\ Last(k)' \in {Last(k), None}
    BY <1>11 DEF ReadEnded, Last, TypeOK
  <2>7b. refused' = refused \/ refused' = [refused EXCEPT ![k] = refused[k] \ {m}]
    BY <1>11, <2>2a DEF ReadEnded
  <2>7. \A j \in Services, l \in Links \ {m} : l \in refused[j] => l \in refused'[j]
    <3>1. refused \in [Services -> SUBSET Links]
      BY DEF TypeOK
    <3> QED BY <2>7b, <3>1
  <2>7a. \A j \in Services \ {k} : refused'[j] = refused[j]
    BY <2>7b DEF TypeOK
  <2>8. RefusedInv'
    <3> SUFFICES ASSUME NEW j \in Services, NEW l \in spurned, NEW c \in Coming(j)', Holds(c, l)
                 PROVE  l \in refused'[j]
      BY <2>1 DEF RefusedInv
    <3>1. l \in refused[j] /\ l \in Links
      BY <1>2, <2>1 DEF CallInv, RefusedInv, TypeOK
    <3>2. j # k \/ l # m
      BY <2>3
    <3> QED BY <2>7, <2>7a, <3>1, <3>2
  <2>9. OrderInv'
    BY <1>5, <2>1, <2>6, ReadOrder
  <2>10. SlotInv'
    <3> SUFFICES ASSUME NEW l \in Links, made = 1, k = 1, loop[k].at # "ended", least[l] # None,
                        NEW c \in Coming(k)' \union {Last(k)'}, Holds(c, l)
                 PROVE  Holds(Last(k)', l) /\ Holds(slot, l) /\ slot.profile =< least[l]
      BY <1>0, <1>2, <2>1 DEF SlotInv, Services
    <3>1. c \in Coming(k) \union {Last(k)}
      BY <1>2, <2>1, <2>6 DEF Holds
    <3>2. Holds(Last(k), l) /\ Holds(slot, l) /\ slot.profile =< least[l]
      BY <3>1 DEF CallInv, SlotInv
    <3>3. CASE Last(k)' = Last(k)
      BY <3>2, <3>3
    <3>4. CASE Last(k)' = None
      <4>1. c \in Coming(k)'
        BY <3>4 DEF Holds
      <4>2. l = m
        <5>1. Holds(Head(reports[k]).call, l)
          BY <2>1, <3>2, <4>1, ReadShrinks
        <5> QED BY <2>2a, <5>1 DEF Holds
      <4> QED BY <2>3, <4>1, <4>2
    <3> QED BY <2>6, <3>3, <3>4
  <2>11. \A l \in Links : shown' = l => shown = l
    BY <2>1, VoiceAssumption
  <2>12. \A j \in Services : /\ audio'[j] # None => audio[j] # None
                             /\ \A l \in Links : Holds(audio'[j], l) => Holds(audio[j], l)
    BY <2>5 DEF Holds
  <2>91. \A j \in Services : Fewer(j)
    BY <1>0, <1>2, <2>1, <2>4, <2>6, <2>8, <2>9, <2>10, <2>11, <2>12 DEF Fewer
  <2>92. \A j \in Services, l \in Links : Calmer(j, l)
    BY <1>0, <1>2, <2>1, <2>4, <2>6, <2>8, <2>9, <2>10, <2>11, <2>12 DEF Calmer
  <2>93. \A l \in Links : Settled(l)
    BY <1>0, <1>2, <2>1, <2>4, <2>6, <2>8, <2>9, <2>10, <2>11, <2>12 DEF Settled, Decided
  <2> QED BY <1>0, <1>2, <2>1, <2>4, <2>6, <2>8, <2>9, <2>10, <2>11, <2>12, <2>91, <2>92,
      <2>93, LoopKeeps
<1>12. CASE LoopEnds(k)
  <2>1. /\ loop[k].at = "free" /\ UNCHANGED <<latest, refused, rung, spurned, least>>
        /\ shown' \in {shown, None} /\ slot' = None /\ StopAudio(k)
        /\ Read(k, "stopped") \/ UNCHANGED reports
    BY <1>12 DEF LoopEnds, Read, Free
  <2>2. loop'[k].at = "ended" /\ \A j \in Services \ {k} : loop'[j] = loop[j]
    BY <1>12, AtLoop DEF LoopEnds
  <2>3. \A j \in Services : /\ Coming(j)' \subseteq Coming(j) /\ Last(j)' = Last(j)
                            /\ \A l \in Links : Announced(j, l)' => Announced(j, l)
    BY <1>1, <1>2, <1>4, <2>1
  <2>4. \A j \in Services, l \in Links :
          (Pending(j, l)' => Pending(j, l)) /\ ~ (Announced(j, l)' /\ AtLink(j, l)')
    <3>1. \A j \in Services, l \in Links : AtLink(j, l)' => AtLink(j, l)
      BY <2>2 DEF AtLink
    <3> QED BY <1>3, <2>3, <3>1 DEF Pending
  <2>5. \A j \in Services : /\ audio'[j] # None => audio[j] # None
                            /\ \A l \in Links : Holds(audio'[j], l) => Holds(audio[j], l)
    BY <2>1 DEF Holds, StopAudio, TypeOK
  <2>6. \A l \in Links : shown' = l => shown = l
    BY <2>1, VoiceAssumption
  <2>7. OrderInv'
    BY <1>1, <1>4, <1>5, <2>1, ReadOrder
  <2>8. RefusedInv'
    BY <2>1, <2>3, RefusedKept
  <2>9. SlotInv'
    BY <1>0, <2>1, <2>2 DEF SlotInv, Services
  <2>91. \A j \in Services : Fewer(j)
    BY <1>0, <2>1, <2>3, <2>4, <2>5, <2>6, <2>7, <2>8, <2>9 DEF Fewer
  <2>92. \A j \in Services, l \in Links : Calmer(j, l)
    BY <1>0, <2>1, <2>3, <2>4, <2>5, <2>6, <2>7, <2>8, <2>9 DEF Calmer
  <2>93. \A l \in Links : Settled(l)
    BY <1>0, <2>1, <2>3, <2>4, <2>5, <2>6, <2>7, <2>8, <2>9 DEF Settled, Decided
  <2> QED BY <1>0, <2>1, <2>3, <2>4, <2>5, <2>6, <2>7, <2>8, <2>9, <2>91, <2>92, <2>93, LoopKeeps
<1>13. ASSUME NEW c \in Calls \union {None}, Reconcile(k, c), made = 1 => k = 1,
              UNCHANGED <<loop, made>>, c = Last(k)',
              \A l \in Links : made = 1 /\ k = 1 /\ loop[k].at # "ended" /\ least[l] # None
                /\ (\E d \in Coming(k)' \union {c} : Holds(d, l)) => Bound(c, slot, least, l)
       PROVE  SlotInv'
  <2> SUFFICES ASSUME NEW l \in Links, made = 1, k = 1, loop[k].at # "ended", least'[l] # None,
                      NEW d \in Coming(k)' \union {c}, Holds(d, l)
               PROVE  Bound(c, slot', least', l)
    BY <1>13 DEF SlotInv, Bound, Services
  <2> QED BY <1>13, ReconcileSlot
<1>14. CASE ReadSnapshot(k)
  <2> DEFINE c == Head(reports[k]).call
  <2>1. Read(k, "snapshot") /\ UNCHANGED <<loop, refused, rung, spurned>>
    BY <1>14 DEF ReadSnapshot
  <2>2. c \in Calls \union {None} /\ c \in Coming(k) /\ k =< made
    BY <1>2, <2>1, ReadType, ReadShrinks
  <2>3. latest'[k] = <<c>> /\ \A j \in Services \ {k} : latest'[j] = latest[j]
    BY <1>14 DEF ReadSnapshot, TypeOK
  <2>4. Last(k)' = c /\ \A j \in Services \ {k} : Last(j)' = Last(j)
    BY <2>3 DEF Last
  <2>5. OrderInv'
    BY <2>1, <2>2, <2>4, ReadOrder
  <2>6. RefusedInv'
    BY <1>2, <2>1, RefusedKept
  <2>7. ASSUME NEW l \in Links, made = 1, k = 1, loop[k].at # "ended", least[l] # None,
               NEW d \in Coming(k)' \union {c}, Holds(d, l)
        PROVE  Bound(c, slot, least, l)
    <3>1. d \in Coming(k)
      BY <1>2, <2>1, <2>2, <2>7
    <3>2. Holds(Last(k), l) /\ Holds(slot, l) /\ slot.profile =< least[l]
      BY <2>7, <3>1 DEF CallInv, SlotInv
    <3>3. Holds(c, l)
      BY <2>1, <2>7, <3>2, ReadShrinks
    <3> QED BY <3>2, <3>3 DEF Bound
  <2>8. \A j \in Services, l \in Links :
          (Pending(j, l)' => Pending(j, l)) /\ ~ (Announced(j, l)' /\ AtLink(j, l)')
    BY <1>2, <1>3, <2>1 DEF Pending, AtLink
  <2>9. \A j \in Services : Coming(j)' \subseteq Coming(j)
    BY <1>2, <2>1
  <2>10. \A j \in Services : Last(j)' \in Coming(j) \union {Last(j), None}
    BY <2>2, <2>4
  <2> HIDE DEF c
  <2>11. /\ SlotInv'
         /\ \A j \in Services \ {k} : audio'[j] = audio[j]
         /\ \A l \in Links : /\ Holds(audio'[k], l) => Holds(audio[k], l) \/ Loud(k, l)
                             /\ least'[l] # None => least[l] # None \/ Loud(k, l)
    <3>0. \A l \in Links : Holds(c, l) /\ c.status = "established" => Loud(k, l)
      BY <2>2 DEF Loud
    <3>1. CASE UNCHANGED <<slot, least>> /\ (StopAudio(k) \/ UNCHANGED audio)
      <4>1. SlotInv'
        <5> SUFFICES ASSUME NEW l \in Links, made = 1, k = 1, loop[k].at # "ended",
                            least[l] # None, NEW d \in Coming(k)' \union {c}, Holds(d, l)
                     PROVE  Bound(c, slot, least, l)
          BY <1>0, <2>1, <2>2, <2>4, <3>1 DEF SlotInv, Bound, Services
        <5> QED BY <2>7
      <4>2. /\ \A j \in Services \ {k} : audio'[j] = audio[j]
            /\ audio'[k] \in {audio[k], None}
        BY <3>1 DEF StopAudio, TypeOK
      <4> QED BY <3>1, <4>1, <4>2 DEF Holds
    <3>2. CASE Reconcile(k, c)
      <4>1. SlotInv'
        BY <1>0, <1>13, <2>1, <2>2, <2>4, <2>7, <3>2 DEF Services
      <4> QED BY <2>2, <3>0, <3>2, <4>1, ReconcileCall
    <3> QED BY <1>14, <3>1, <3>2 DEF ReadSnapshot, c
  <2>12. \A l \in Links : shown' = l => shown = l \/ (Holds(c, l) /\ l \notin refused[k])
    BY <1>14, VoiceAssumption DEF ReadSnapshot, c, Holds
  <2>13. \A l \in Links : Holds(c, l) /\ l \notin refused[k] =>
           /\ \E j \in Services : \E d \in Coming(j) : Holds(d, l)
           /\ l \notin spurned /\ \A j \in Services : ~Pending(j, l)'
    <3> SUFFICES ASSUME NEW l \in Links, Holds(c, l), l \notin refused[k]
                 PROVE  l \notin spurned /\ \A j \in Services : ~Pending(j, l)'
      BY <2>2
    <3>1. l \notin spurned
      BY <2>2 DEF CallInv, RefusedInv
    <3>2. ASSUME NEW j \in Services, Pending(j, l)' PROVE FALSE
      <4>1. Pending(j, l)
        BY <2>8, <3>2
      <4>2. j = k
        BY <2>2, <4>1 DEF Has, CallInv, OwnInv
      <4>3. ~AtLink(k, l)'
        BY <2>1 DEF Read, Free, AtLink
      <4>4. Announced(k, l)'
        BY <3>2, <4>2, <4>3 DEF Pending
      <4>5. /\ reports[k] \in Seq(Reports) /\ reports[k] # <<>> /\ reports'[k] = Tail(reports[k])
        BY <2>1, ReadShrinks
      <4>6. PICK i \in 1..Len(reports'[k]) :
              reports'[k][i].kind = "incoming" /\ Holds(reports'[k][i].call, l)
        BY <4>4 DEF Announced
      <4>7. /\ i + 1 \in 1..Len(reports[k]) /\ reports'[k][i] = reports[k][i + 1] /\ 1 < i + 1
            /\ 1 \in 1..Len(reports[k]) /\ Head(reports[k]) = reports[k][1]
        BY <4>5
      <4> QED BY <4>6, <4>7 DEF CallInv, OrderInv, Runs, c
    <3> QED BY <3>1, <3>2
  <2>14. made # 0
    BY <1>0, <2>2 DEF Services
  <2>15. \A l \in Links :
           /\ l \in rung' => l \in rung
           /\ l \in spurned' => l \in spurned
           /\ shown' = l => \/ shown = l
                            \/ /\ \E j \in Services : \E d \in Coming(j) : Holds(d, l)
                               /\ l \notin spurned' /\ \A j \in Services : ~Pending(j, l)'
           /\ least'[l] # None => least[l] # None
                                  \/ (made # 0 /\ \E j \in Services : Loud(j, l))
    BY <2>1, <2>11, <2>12, <2>13, <2>14
  <2>16. \A j \in Services : /\ Coming(j)' \subseteq Coming(j) \union {None}
                             /\ Last(j)' \in Coming(j) \union {Last(j), None}
                             /\ audio'[j] # None => audio[j] # None \/ j =< made
    BY <2>2, <2>9, <2>10, <2>11
  <2>17. \A j \in Services, l \in Links : Holds(audio'[j], l) => Holds(audio[j], l) \/ Loud(j, l)
    BY <2>11
  <2>91. \A j \in Services : Fewer(j)
    BY <1>0, <2>5, <2>6, <2>8, <2>11, <2>15, <2>16, <2>17 DEF Fewer
  <2>92. \A j \in Services, l \in Links : Calmer(j, l)
    BY <1>0, <2>5, <2>6, <2>8, <2>11, <2>15, <2>16, <2>17 DEF Calmer
  <2>93. \A l \in Links : Settled(l)
    BY <1>0, <2>5, <2>6, <2>8, <2>11, <2>15, <2>16, <2>17 DEF Settled, Decided
  <2> QED BY <1>0, <2>5, <2>6, <2>8, <2>11, <2>15, <2>16, <2>17, <2>91, <2>92, <2>93, LoopKeeps
<1>15. CASE Tick(k)
  <2> DEFINE c == Head(latest[k])
  <2>1. /\ loop[k].at = "free" /\ latest[k] # <<>> /\ Reconcile(k, c)
        /\ UNCHANGED <<reports, latest, loop, refused, rung, shown, spurned>>
    BY <1>15 DEF Tick, Free
  <2>2. c = Last(k) /\ c \in Calls \union {None} /\ k =< made /\ made # 0
    BY <1>0, <1>5, <2>1 DEF Last, Services
  <2>3. \A j \in Services, l \in Links :
          (Pending(j, l)' => Pending(j, l)) /\ ~ (Announced(j, l)' /\ AtLink(j, l)')
    BY <1>1, <1>3, <2>1 DEF Pending, AtLink
  <2> HIDE DEF c
  <2>4. SlotInv'
    <3>1. ASSUME NEW l \in Links, made = 1, k = 1, loop[k].at # "ended", least[l] # None,
                 NEW d \in Coming(k)' \union {c}, Holds(d, l)
          PROVE  Bound(c, slot, least, l)
      BY <1>1, <2>1, <2>2, <3>1 DEF CallInv, SlotInv, Bound
    <3> QED BY <1>0, <1>1, <1>13, <2>1, <2>2, <3>1 DEF Services
  <2>5. RefusedInv'
    BY <1>1, <2>1, RefusedKept
  <2>6. \A l \in Links : Holds(c, l) /\ c.status = "established" => Loud(k, l)
    BY <2>2 DEF Loud
  <2>7. /\ \A j \in Services \ {k} : audio'[j] = audio[j]
        /\ \A l \in Links : /\ Holds(audio'[k], l) => Holds(audio[k], l) \/ Loud(k, l)
                            /\ least'[l] # None => least[l] # None \/ Loud(k, l)
    BY <2>1, <2>2, <2>6, ReconcileCall
  <2>8. \A l \in Links : least'[l] # None => least[l] # None
                                  \/ (made # 0 /\ \E j \in Services : Loud(j, l))
    BY <2>2, <2>7
  <2>9. \A j \in Services : /\ Coming(j)' \subseteq Coming(j) \union {None}
                             /\ Last(j)' \in Coming(j) \union {Last(j), None}
                             /\ audio'[j] # None => audio[j] # None \/ j =< made
    BY <1>1, <2>1, <2>2, <2>7
  <2>10. \A j \in Services, l \in Links : Holds(audio'[j], l) => Holds(audio[j], l) \/ Loud(j, l)
    BY <2>7
  <2>91. \A j \in Services : Fewer(j)
    BY <1>0, <1>1, <2>1, <2>3, <2>4, <2>5, <2>8, <2>9, <2>10 DEF Fewer
  <2>92. \A j \in Services, l \in Links : Calmer(j, l)
    BY <1>0, <1>1, <2>1, <2>3, <2>4, <2>5, <2>8, <2>9, <2>10 DEF Calmer
  <2>93. \A l \in Links : Settled(l)
    BY <1>0, <1>1, <2>1, <2>3, <2>4, <2>5, <2>8, <2>9, <2>10 DEF Settled, Decided
  <2> QED BY <1>0, <1>1, <2>1, <2>3, <2>4, <2>5, <2>8, <2>9, <2>10, <2>91, <2>92, <2>93, LoopKeeps
<1>16. CASE Media(k)
  <2>1. UNCHANGED <<reports, latest, loop, refused, rung, shown, spurned, audio, slot, least>>
    BY <1>16 DEF Media
  <2>2. \A j \in Services, l \in Links :
          (Pending(j, l)' => Pending(j, l)) /\ ~ (Announced(j, l)' /\ AtLink(j, l)')
    BY <1>1, <1>3, <2>1 DEF Pending, AtLink
  <2>3. RefusedInv' /\ SlotInv'
    BY <1>0, <1>1, <2>1, SlotKept, RefusedKept
  <2>91. \A j \in Services : Fewer(j)
    BY <1>0, <1>1, <2>1, <2>2, <2>3 DEF Fewer
  <2>92. \A j \in Services, l \in Links : Calmer(j, l)
    BY <1>0, <1>1, <2>1, <2>2, <2>3 DEF Calmer
  <2>93. \A l \in Links : Settled(l)
    BY <1>0, <1>1, <2>1, <2>2, <2>3 DEF Settled, Decided
  <2> QED BY <1>0, <1>1, <2>1, <2>2, <2>3, <2>91, <2>92, <2>93, LoopKeeps
<1> QED BY <1>6, <1>7, <1>8, <1>9, <1>10, <1>11, <1>12, <1>14, <1>15, <1>16 DEF Loop

LEMMA OtherCalls ==
  ASSUME TypeOK, TypeOK', CallInv, UNCHANGED <<reports, used, latest, audio, refused, slot,
      rung, spurned, least>>,
         made' = made \/ (made' = made + 1 /\ Unmade),
         \A j \in Services : call'[j] \in {call[j], None},
         shown' \in {shown, None},
         \A j \in Services : loop'[j] = loop[j] \/ loop'[j].at = "free",
         made' = made => UNCHANGED loop
  PROVE  CallInv'
<1>1. made \in Nat
  BY DEF TypeOK
<1>2. \A j \in Services : /\ Coming(j)' \subseteq Coming(j) \union {None} /\ Last(j)' = Last(j)
                          /\ \A l \in Links : /\ Announced(j, l)' <=> Announced(j, l)
                                              /\ AtLink(j, l)' => AtLink(j, l)
  BY DEF Coming, Last, Announced, AtLink
<1>3. \A j \in Services : Fewer(j)
  BY <1>2 DEF Fewer
<1>4. \A j \in Services, l \in Links : Calmer(j, l)
  BY <1>2 DEF Calmer, Pending, CallInv, PendingInv
<1>5. \A l \in Links : Settled(l)
  BY VoiceAssumption DEF Settled
<1>6. OrderInv'
  BY <1>2, RunsWeaker DEF CallInv, OrderInv
<1>7. RefusedInv'
  BY <1>2, RefusedKept
<1>8. SlotInv'
  <2>1. CASE made' = made
    BY <1>2, <2>1, SlotKept
  <2>2. CASE made' = made + 1
    <3>1. made' = 1 => \A l \in Links : least'[l] = None
      BY <1>1, <2>2 DEF CallInv, UsedInv
    <3> QED BY <3>1 DEF SlotInv
  <2> QED BY <2>1, <2>2
<1>9. made =< made'
  BY <1>1
<1> QED BY <1>3, <1>4, <1>5, <1>6, <1>7, <1>8, <1>9, LoopKeeps

LEMMA NextCalls ==
  ASSUME TypeOK, TypeOK', CallInv, AskedInv, Unmade, Next
  PROVE  CallInv'
<1> USE DEF extv, loopv, userv, lifev, histv
<1>1. CASE External
  BY <1>1, ExternalFeeds, FedKeeps DEF External
<1>2. ASSUME NEW k \in Services, Loop(k) \/ Tick(k) \/ Media(k) PROVE CallInv'
  BY <1>2, LoopCalls
<1>3. ASSUME UNCHANGED <<reports, used, latest, audio, refused, slot, rung, spurned, least,
                         made, loop>>,
             shown' \in {shown, None}, call' = call \/ \E k : Abort(k)
      PROVE  CallInv'
  <2>1. \A j \in Services : call'[j] \in {call[j], None}
    BY <1>3 DEF Abort, TypeOK
  <2> QED BY <1>3, <2>1, OtherCalls
<1>4. CASE User
  BY <1>3, <1>4 DEF User, VoiceCall, VoiceStart, VoiceHangup, VoiceStop, SwitchIdentity,
     VoiceAnswer,
     StartMemo, EndMemo
<1>5. ASSUME NEW p \in Callers, Command(p) PROVE CallInv'
  <2>1. CASE Register(p)
    <3>1. made' = made + 1 /\ UNCHANGED <<call, reports, used, latest, audio, refused, slot,
        rung, spurned, least, shown>>
      BY <2>1 DEF Register
    <3>2. \A j \in Services : loop'[j] = loop[j] \/ loop'[j].at = "free"
      BY <2>1 DEF Register, TypeOK
    <3>3. made' # made
      BY <3>1 DEF TypeOK
    <3> QED BY <3>1, <3>2, <3>3, OtherCalls
  <2>2. CASE HandOff(p) \/ Found(p) \/ NotRegistered(p) \/ SendCall \/ SendAnswer \/ Unreachable(p) \/ Fails(p)
    BY <1>3, <2>2 DEF HandOff, Found, NotRegistered, SendCall, SendAnswer, Unreachable, Fails
  <2>3. CASE Publish(p)
    BY <1>3, <2>3 DEF Publish
  <2> QED BY <1>5, <2>1, <2>2, <2>3 DEF Command
<1>6. CASE EnterMemo \/ OpenMemo \/ LoopTimeout \/ \E a \in alerts : LockAlert(a) \/ RaiseAlert(a)
  BY <1>3, <1>6 DEF EnterMemo, OpenMemo, LoopTimeout, LockAlert, RaiseAlert
<1>7. CASE Shutdown
  BY <1>3, <1>7 DEF Shutdown, StopMemo, TakeHandle, LoopJoined, TaskEnds, Release, Trigger,
     Renew, SwitchEnds
<1> QED BY <1>1, <1>2, <1>4, <1>5, <1>6, <1>7 DEF Next

LEMMA CeilingStep ==
  ASSUME TypeOK, TypeOK', CallInv, Unmade, CeilingKept, Next
  PROVE  CeilingKept'
<1> USE DEF extv, loopv, userv, lifev, histv
<1>1. CeilingKept <=> (made =< 1 => \A k \in Services : Low(k))
  BY DEF CeilingKept, Low
<1>2. CeilingKept' <=> (made' =< 1 => \A k \in Services : Low(k)')
  BY DEF CeilingKept, Low
<1>3. ASSUME UNCHANGED least, made =< made', \A k \in Services : audio'[k] \in {audio[k], None}
      PROVE  CeilingKept'
  <2>1. made' =< 1 => made =< 1
    BY <1>3 DEF TypeOK
  <2>2. \A k \in Services : Low(k) => Low(k)'
    BY <1>3 DEF Low
  <2> QED BY <1>1, <1>2, <2>1, <2>2
<1>4. ASSUME NEW k \in Services, NEW c \in Calls \union {None}, Reconcile(k, c), k =< made,
             UNCHANGED made,
             \A l \in Links : made = 1 /\ k = 1 /\ Holds(c, l) /\ least[l] # None => Bound(c, slot, least, l)
      PROVE  CeilingKept'
  <2> SUFFICES ASSUME made =< 1, NEW j \in Services PROVE Low(j)'
    BY <1>2, <1>4
  <2>1. made = 1 /\ k = 1
    BY <1>4 DEF TypeOK, Services
  <2>2. CASE j = k
    BY <1>1, <1>4, <2>1, <2>2, ReconcileLow
  <2>3. CASE j # k
    <3>1. audio'[j] = None
      BY <1>4, <2>1, <2>3, ReconcileCall DEF CallInv, UsedInv, Services
    <3> QED BY <3>1 DEF Low
  <2> QED BY <2>2, <2>3
<1>5. ASSUME NEW k \in Services, ReadSnapshot(k) PROVE CeilingKept'
  <2> DEFINE c == Head(reports[k]).call
  <2>1. Read(k, "snapshot") /\ UNCHANGED made /\ loop[k].at = "free"
    BY <1>5 DEF ReadSnapshot, Read, Free
  <2>2a. k =< made
    BY <2>1 DEF Unmade, TypeOK, Services
  <2>2. c \in Calls \union {None} /\ c \in Coming(k) /\ k =< made
    BY <2>1, <2>2a, ReadType, ReadShrinks
  <2>3. \A l \in Links : made = 1 /\ k = 1 /\ Holds(c, l) /\ least[l] # None => Bound(c, slot, least, l)
    BY <2>1, <2>2 DEF CallInv, SlotInv, Bound
  <2>4. CASE UNCHANGED least /\ (StopAudio(k) \/ UNCHANGED audio)
    <3>1. \A j \in Services : audio'[j] \in {audio[j], None}
      BY <2>4 DEF StopAudio, TypeOK
    <3> QED BY <1>3, <2>1, <2>4, <3>1 DEF TypeOK
  <2>5. CASE Reconcile(k, c)
    <3> HIDE DEF c
    <3> QED BY <1>4, <2>1, <2>2, <2>3, <2>5
  <2> QED BY <1>5, <2>4, <2>5 DEF ReadSnapshot
<1>6. ASSUME NEW k \in Services, Tick(k) PROVE CeilingKept'
  <2> DEFINE c == Head(latest[k])
  <2>1. UNCHANGED made /\ loop[k].at = "free" /\ Reconcile(k, c) /\ latest[k] # <<>>
    BY <1>6 DEF Tick, Free
  <2>2. c \in Calls \union {None} /\ c = Last(k) /\ k =< made
    BY <2>1, TailType DEF Unmade, TypeOK, Services, Last
  <2>3. \A l \in Links : made = 1 /\ k = 1 /\ Holds(c, l) /\ least[l] # None => Bound(c, slot, least, l)
    BY <2>1, <2>2 DEF CallInv, SlotInv, Bound
  <2> HIDE DEF c
  <2> QED BY <1>4, <2>1, <2>2, <2>3
<1>7. ASSUME NEW k \in Services, Loop(k) \/ Media(k), ~ReadSnapshot(k) PROVE CeilingKept'
  <2>1. UNCHANGED <<least, made>> /\ (StopAudio(k) \/ UNCHANGED audio)
    BY <1>7 DEF Loop, Media, ReadIncoming, TurnDown, Admit, Announce, ReadFailed, ReadEnded,
       LoopEnds
  <2>2. \A j \in Services : audio'[j] \in {audio[j], None}
    BY <2>1 DEF StopAudio, TypeOK
  <2> QED BY <1>3, <2>1, <2>2 DEF TypeOK
<1>8. ASSUME UNCHANGED <<least, audio>>, made' \in {made, made + 1} PROVE CeilingKept'
  BY <1>3, <1>8 DEF TypeOK
<1>9. CASE External
  BY <1>8, <1>9 DEF External, Service, CallArrives, PlaceCall, TakeAnswer, TakeHangup, TakeSwitch,
     TakeShutdown, Establish, RemoteSwitch, RemoteHangup, Take
<1>10. CASE User
  BY <1>8, <1>10 DEF User, VoiceCall, VoiceStart, VoiceHangup, VoiceStop, SwitchIdentity,
     VoiceAnswer,
     StartMemo, EndMemo
<1>11. ASSUME NEW p \in Callers, Command(p) PROVE CeilingKept'
  BY <1>8, <1>11 DEF Command, HandOff, Found, Register, NotRegistered, Publish, SendCall,
     SendAnswer,
     Unreachable, Fails
<1>12. CASE EnterMemo \/ OpenMemo \/ LoopTimeout \/ \E a \in alerts : LockAlert(a) \/ RaiseAlert(a)
  BY <1>8, <1>12 DEF EnterMemo, OpenMemo, LoopTimeout, LockAlert, RaiseAlert
<1>13. CASE Shutdown
  BY <1>8, <1>13 DEF Shutdown, StopMemo, TakeHandle, LoopJoined, TaskEnds, Release, Trigger,
     Renew, SwitchEnds
<1> QED BY <1>5, <1>6, <1>7, <1>9, <1>10, <1>11, <1>12, <1>13 DEF Next


(* The controls a step adds or takes away.                                 *)
Added(k, c) == controls'[k] = Append(controls[k], c)

Serves(k) ==
  \/ controls'[k] \in {controls[k], <<>>}
  \/ controls[k] # <<>> /\ controls'[k] = Tail(controls[k])
  \/ \E c \in Controls : /\ Added(k, c)
                         /\ c.kind = "answer" => /\ command["answer"].at # "idle"
                                                 /\ c.link = command["answer"].link

LEMMA SendServes ==
  ASSUME TypeOK, NEW k \in Services, NEW c \in Controls, c.kind # "answer",
      Send(k, c) \/ Queue(k, c)
  PROVE  \A j \in Services : Serves(j)
<1>1. controls'[k] = controls[k] \/ Added(k, c)
  BY DEF Send, Queue, Added, TypeOK
<1>2. \A j \in Services \ {k} : controls'[j] = controls[j]
  BY DEF Send, Queue, TypeOK
<1> QED BY <1>1, <1>2 DEF Serves

LEMMA SwitchServes ==
  ASSUME TypeOK, NEW k \in Services, NEW p \in Profiles, Send(k, Switch(p))
  PROVE  \A j \in Services : Serves(j)
<1>1. Switch(p) \in Controls /\ Switch(p).kind # "answer"
  BY DEF Switch, Controls
<1> QED BY <1>1, SendServes

LEMMA HangupServes ==
  ASSUME TypeOK, NEW k \in Services, Send(k, Hangup)
  PROVE  \A j \in Services : Serves(j)
<1>1. Hangup \in Controls /\ Hangup.kind # "answer"
  BY DEF Hangup, Controls
<1> QED BY <1>1, SendServes

LEMMA ReconcileServes ==
  ASSUME TypeOK, NEW k \in Services, NEW c \in Calls \union {None}, Reconcile(k, c)
  PROVE  \A j \in Services : Serves(j)
<1>1. CASE UNCHANGED controls
  BY <1>1 DEF Serves
<1>2. CASE /\ c # None /\ Ceiling(c.link, c.profile) # None
           /\ Send(k, Switch(Ceiling(c.link, c.profile)))
  <2>1. Ceiling(c.link, c.profile) \in Profiles
    BY <1>2 DEF Ceiling, TypeOK, Slots
  <2> QED BY <1>2, <2>1, SwitchServes
<1> QED BY <1>1, <1>2 DEF Reconcile

LEMMA RequestServes ==
  ASSUME TypeOK, NEW k \in Services, NEW c \in Calls \union {None}, NEW w \in Adapted(k, c),
      Request(k, w)
  PROVE  \A j \in Services : Serves(j)
<1>1. w \in Wishes \union {None}
  BY AdaptedType
<1>2. w # None => w.to \in Profiles
  BY <1>1, VoiceAssumption DEF Wishes
<1>3. CASE UNCHANGED controls
  BY <1>3 DEF Serves
<1> QED BY <1>2, <1>3, SwitchServes DEF Request

LEMMA AllServe ==
  ASSUME TypeOK, Answering, Next
  PROVE  \A j \in Services : Serves(j)
<1> USE DEF extv, loopv, userv, lifev, histv
<1>1. ASSUME UNCHANGED controls PROVE \A j \in Services : Serves(j)
  BY <1>1 DEF Serves
<1>2. ASSUME NEW k \in Services, NEW kind, Take(k, kind) PROVE \A j \in Services : Serves(j)
  <2>1. /\ controls[k] # <<>> /\ controls'[k] = Tail(controls[k])
        /\ \A j \in Services \ {k} : controls'[j] = controls[j]
    BY <1>2 DEF Take, TypeOK
  <2> QED BY <2>1 DEF Serves
<1>3. ASSUME NEW k, Abort(k) PROVE \A j \in Services : Serves(j)
  BY <1>3 DEF Abort, TypeOK, Serves
<1>4. CASE External
  BY <1>1, <1>2, <1>4 DEF External, Service, PlaceCall, TakeAnswer, TakeHangup, TakeSwitch,
     TakeShutdown, CallArrives, Establish, RemoteSwitch, RemoteHangup
<1>5. ASSUME NEW k \in Services, ReadSnapshot(k) PROVE \A j \in Services : Serves(j)
  <2>1. Head(reports[k]).call \in Calls \union {None}
    BY <1>5, ReadType DEF ReadSnapshot
  <2> QED BY <1>1, <1>5, <2>1, ReconcileServes, RequestServes DEF ReadSnapshot
<1>6. ASSUME NEW k \in Services, Tick(k) \/ Media(k) PROVE \A j \in Services : Serves(j)
  <2>1. Head(latest[k]) \in Calls \union {None}
    BY <1>6, TailType DEF Tick, Media, TypeOK
  <2> QED BY <1>6, <2>1, ReconcileServes, RequestServes DEF Tick, Media
<1>7. ASSUME NEW k \in Services, Loop(k), ~ReadSnapshot(k) PROVE \A j \in Services : Serves(j)
  BY <1>1, <1>7, HangupServes DEF Loop, ReadIncoming, TurnDown, Admit, Announce, ReadFailed,
     ReadEnded, LoopEnds
<1>8. CASE User
  <2>1. CASE VoiceHangup
    <3>1. handle # 0 => handle \in Services
      BY DEF TypeOK, Services
    <3> QED BY <1>1, <2>1, <3>1, HangupServes DEF VoiceHangup
  <2> QED BY <1>1, <1>8, <2>1 DEF User, VoiceCall, VoiceStart, VoiceStop, SwitchIdentity,
      VoiceAnswer,
     StartMemo, EndMemo
<1>9. ASSUME NEW p \in Callers, Command(p) PROVE \A j \in Services : Serves(j)
  <2>0. Reach => handle \in Services
    BY DEF Reach, TypeOK, Services
  <2>1. CASE SendCall
    <3>1. [kind |-> "call"] \in Controls /\ [kind |-> "call"].kind # "answer"
      BY DEF Controls
    <3> QED BY <2>0, <2>1, <3>1, SendServes DEF SendCall
  <2>2. CASE p = "answer" /\ SendAnswer
    <3> DEFINE c == [kind |-> "answer", link |-> command["answer"].link]
    <3>1. /\ command["answer"] \in Commands /\ command["answer"].at = "signal"
      BY <2>2 DEF SendAnswer, Is, TypeOK, Callers
    <3>2. controls'[handle] = Append(controls[handle], c)
          /\ \A j \in Services \ {handle} : controls'[j] = controls[j]
      BY <2>0, <2>2 DEF SendAnswer, Queue, TypeOK
    <3>3. c \in Controls /\ c.link = command["answer"].link
      BY <3>1 DEF Answering, Controls, TypeOK
    <3> HIDE DEF c
    <3>4. Serves(handle)
      BY <3>1, <3>2, <3>3 DEF Serves, Added
    <3> QED BY <3>2, <3>4 DEF Serves
  <2>3. CASE Publish(p)
    BY <1>1, <1>3, <2>3 DEF Publish
  <2> QED BY <1>1, <1>9, <2>1, <2>2, <2>3 DEF Command, HandOff, Found, Register, NotRegistered,
     Unreachable, Fails
<1>10. CASE EnterMemo \/ OpenMemo \/ LoopTimeout \/ \E a \in alerts : LockAlert(a) \/ RaiseAlert(a)
  BY <1>1, <1>10 DEF EnterMemo, OpenMemo, LoopTimeout, LockAlert, RaiseAlert
<1>11. CASE Shutdown
  <2>1. CASE TakeHandle
    <3>1. Reach => handle \in Services
      BY DEF Reach, TypeOK, Services
    <3>2. [kind |-> "shutdown"] \in Controls /\ [kind |-> "shutdown"].kind # "answer"
      BY DEF Controls
    <3> QED BY <1>1, <2>1, <3>1, <3>2, SendServes DEF TakeHandle
  <2> QED BY <1>1, <1>3, <1>11, <2>1 DEF Shutdown, StopMemo, LoopJoined, TaskEnds, Release,
      Trigger, Renew, SwitchEnds
<1> QED BY <1>4, <1>5, <1>6, <1>7, <1>8, <1>9, <1>10, <1>11 DEF Next

LEMMA AskedKept ==
  ASSUME TypeOK, Answering, AskedInv, Next
  PROVE  AskedInv'
<1> SUFFICES ASSUME NEW k \in Services, NEW i \in 1..Len(controls'[k]),
                    controls'[k][i].kind = "answer"
             PROVE  controls'[k][i].link \in rung
  BY RungGrows DEF AskedInv
<1>1. controls[k] \in Seq(Controls) /\ Serves(k)
  BY AllServe DEF TypeOK
<1>2. CASE controls'[k] \in {controls[k], <<>>}
  BY <1>2 DEF AskedInv
<1>3. CASE controls[k] # <<>> /\ controls'[k] = Tail(controls[k])
  <2>1. i + 1 \in 1..Len(controls[k]) /\ controls'[k][i] = controls[k][i + 1]
    BY <1>1, <1>3
  <2> QED BY <2>1 DEF AskedInv
<1>4. ASSUME NEW c \in Controls, Added(k, c), c.kind = "answer" => c.link \in rung
      PROVE  controls'[k][i].link \in rung
  <2>1. controls'[k][i] = c \/ (i \in 1..Len(controls[k]) /\ controls'[k][i] = controls[k][i])
    BY <1>1, <1>4 DEF Added
  <2> QED BY <1>4, <2>1 DEF AskedInv
<1> QED BY <1>1, <1>2, <1>3, <1>4 DEF Serves, Answering

-----------------------------------------------------------------------------
IInv == TypeOK /\ Answering /\ AskedInv /\ ControlInv /\ CallInv /\ CeilingKept

LEMMA InitHolds == Init => IInv
<1> SUFFICES ASSUME Init PROVE IInv
  OBVIOUS
<1>1. \A k \in Services : controls[k] \in Seq(Controls) /\ reports[k] \in Seq(Reports)
                          /\ latest[k] \in Seq(Calls \union {None})
  BY DEF Init
<1>2. now \in Sessions
  BY VoiceAssumption DEF Init, Sessions
<1>3. [at |-> "none", link |-> None] \in Loops
  BY DEF Loops
<1>4. [at |-> "idle", link |-> None, own |-> 0] \in Commands
  BY VoiceAssumption DEF Commands
<1>5. [at |-> "idle", capture |-> FALSE] \in Memos
      /\ [at |-> "idle", switch |-> FALSE, of |-> 0] \in Downs
  BY VoiceAssumption DEF Memos, Downs
<1>6. TypeOK
  <2>1. /\ controls \in [Services -> Seq(Controls)] /\ reports \in [Services -> Seq(Reports)]
        /\ latest \in [Services -> Seq(Calls \union {None})]
    BY DEF Init
  <2>2. /\ call \in [Services -> Calls \union {None}]
        /\ service \in [Services -> {"none", "up", "gone"}]
        /\ used \subseteq Links /\ handle \in 0..MaxServices /\ made \in 0..MaxServices
    BY VoiceAssumption DEF Init
  <2>3. /\ loop \in [Services -> Loops] /\ session \in [Services -> Sessions]
        /\ now \in Sessions
    BY <1>2, <1>3 DEF Init
  <2>4. /\ audio \in [Services -> Audio \union {None}]
        /\ wanted \in [Services -> Wishes \union {None}]
        /\ refused \in [Services -> SUBSET Links] /\ slot \in Slots \union {None}
    BY DEF Init
  <2>5. /\ reserved \in BOOLEAN /\ shown \in Links \union {None} /\ rung \subseteq Links
        /\ command \in [Callers -> Commands] /\ memo \in Memos /\ down \in Downs
    BY <1>4, <1>5 DEF Init
  <2>6. /\ life \in {"free", "memo", "switch", "alert"}
        /\ alerts \subseteq Alerts /\ alerted \subseteq [of : Services, found : Sessions]
        /\ spurned \subseteq Links /\ asked \in 0..MaxAsked
        /\ least \in [Links -> (Profiles \ Opus) \union {None}]
    BY VoiceAssumption DEF Init
  <2> QED BY <2>1, <2>2, <2>3, <2>4, <2>5, <2>6 DEF TypeOK
<1>7. Answering
  BY DEF Init, Answering, Callers
<1>8. ControlInv
  BY DEF Init, ControlInv, Unmade, HandoffInv, LifeInv, SignalInv, AlertInv
<1>9. AskedInv
  BY DEF Init, AskedInv
<1>10. CallInv
  <2>1. \A k \in Services : /\ call[k] = None /\ Last(k) = None /\ Len(reports[k]) = 0
                            /\ audio[k] = None /\ loop[k].at = "none"
    BY DEF Init, Last
  <2>2. \A k \in Services, l \in Links : ~AtLink(k, l) /\ ~Announced(k, l) /\ ~Has(k, l)
    BY <2>1 DEF AtLink, Announced, Has, Pending, Coming, Holds
  <2>3. OrderInv
    BY <2>1 DEF OrderInv, Runs, Holds
  <2>4. OwnInv /\ PendingInv
    BY <2>2 DEF OwnInv, PendingInv, Pending
  <2>5. UsedInv /\ RefusedInv /\ SpurnedInv /\ SlotInv
    BY <2>1 DEF Init, UsedInv, RefusedInv, SpurnedInv, SlotInv
  <2>6. RingInv
    BY <2>2 DEF RingInv, Has
  <2> QED BY <2>3, <2>4, <2>5, <2>6 DEF CallInv
<1>11. CeilingKept
  BY DEF Init, CeilingKept
<1> QED BY <1>6, <1>7, <1>8, <1>9, <1>10, <1>11 DEF IInv

LEMMA StepHolds == IInv /\ [Next]_vars => IInv'
<1> SUFFICES ASSUME IInv, [Next]_vars PROVE IInv'
  OBVIOUS
<1>1. TypeOK /\ Answering /\ ControlInv /\ AskedInv /\ CallInv /\ CeilingKept /\ Unmade
  BY DEF IInv, ControlInv
<1>2. CASE UNCHANGED vars
  <2>1. TypeOK' /\ Answering' /\ ControlInv' /\ AskedInv' /\ CeilingKept'
    BY <1>1, <1>2 DEF vars, TypeOK, Answering, ControlInv, Unmade, HandoffInv, Waiting, Is,
       LifeInv, SignalInv, AlertInv, AskedInv, CeilingKept
  <2>2. CallInv'
    BY <1>1, <1>2, <2>1, OtherCalls DEF vars
  <2> QED BY <2>1, <2>2 DEF IInv
<1>3. ASSUME External PROVE TypeOK' /\ ControlInv'
  <2>1. TypeOK'
    BY <1>1, <1>3, ExternalTypes, TakeAnswerTypes DEF External, Service
  <2>2. ControlInv'
    BY <1>1, <1>3, ExternalControl DEF External, Service
  <2> QED BY <2>1, <2>2
<1>4. ASSUME User PROVE TypeOK' /\ ControlInv'
  <2>1. TypeOK'
    BY <1>1, <1>4, UserTypes
  <2>2. ControlInv'
    BY <1>1, <1>4, UserControl DEF User
  <2> QED BY <2>1, <2>2
<1>5. ASSUME NEW k \in Services, Loop(k) \/ Tick(k) \/ Media(k) PROVE TypeOK' /\ ControlInv'
  <2>1. TypeOK'
    BY <1>1, <1>5, LoopTypes
  <2>2. ControlInv'
    BY <1>1, <1>5, LoopControl DEF Loop
  <2> QED BY <2>1, <2>2
<1>6. ASSUME NEW p \in Callers, Command(p) PROVE TypeOK' /\ ControlInv'
  <2>1. TypeOK'
    BY <1>1, <1>6, CommandTypes DEF Command
  <2>2. ControlInv'
    BY <1>1, <1>6, CommandControl DEF Command
  <2> QED BY <2>1, <2>2
<1>7. ASSUME EnterMemo \/ OpenMemo \/ Shutdown \/ LoopTimeout
             \/ \E a \in alerts : LockAlert(a) \/ RaiseAlert(a)
      PROVE  TypeOK' /\ ControlInv'
  <2>1. now.signal < now.gen \/ down.at # "renew"
    BY <1>1 DEF ControlInv, SignalInv, LifeInv, TypeOK, Sessions
  <2>2. TypeOK'
    BY <1>1, <1>7, <2>1, RestTypes
  <2>3. ControlInv'
    BY <1>1, <1>7, RestControl DEF Shutdown
  <2> QED BY <2>2, <2>3
<1>8. CASE Next
  <2>1. TypeOK' /\ ControlInv'
    BY <1>3, <1>4, <1>5, <1>6, <1>7, <1>8 DEF Next
  <2>2. Answering' /\ AskedInv'
    BY <1>1, <1>8, AnsweringKept, AskedKept
  <2>3. CallInv'
    BY <1>1, <1>8, <2>1, NextCalls
  <2>4. CeilingKept'
    BY <1>1, <1>8, <2>1, CeilingStep
  <2> QED BY <2>1, <2>2, <2>3, <2>4 DEF IInv
<1> QED BY <1>2, <1>8

LEMMA AlwaysIInv == Spec => []IInv
BY InitHolds, StepHolds, PTL DEF Spec

(* Every variable keeps the values the code can give it.                   *)
THEOREM VoiceTypes == Spec => []TypeOK
<1>1. IInv => TypeOK
  BY DEF IInv
<1> QED BY <1>1, AlwaysIInv, PTL

(* voice_memo_control_lock and the two reads of voice_call_audio_reserved: *)
(* a memo captures beside a reservation only while its owner has yet to    *)
(* cancel the memo.                                                        *)
THEOREM NoMemoSlipsIn == Spec => []HandoffComplete
<1>1. IInv => HandoffComplete
  BY DEF IInv, ControlInv, HandoffInv, HandoffComplete
<1> QED BY <1>1, AlwaysIInv, PTL

(* VoiceSession::is_current under the lifecycle lock: an alert is raised   *)
(* only in the session whose service got the call.                         *)
THEOREM AlertsOfTheirSession == Spec => []AlertsInSession
<1>1. IInv => AlertsInSession
  <2> SUFFICES ASSUME IInv, NEW a \in alerted
               PROVE  a.found = session[a.of] /\ ~a.found.triggered
    BY DEF AlertsInSession
  <2>1. a.of \in Services
    BY DEF IInv, TypeOK
  <2> QED BY <2>1 DEF IInv, ControlInv, AlertInv
<1> QED BY <1>1, AlwaysIInv, PTL

(* suppressed_call_links and the early returns of handle_voice_event: the  *)
(* hangup of a call the policy turned down names no link, and until it has *)
(* ended the loop knows it by its link; what is read of it is not shown.   *)
THEOREM TurnedDownUnseen == Spec => []RejectedUnseen
<1>1. IInv => RejectedUnseen
  <2> SUFFICES ASSUME IInv, NEW l \in spurned
               PROVE  l \notin rung /\ shown # l
                      /\ \A k \in Services : audio[k] # None => audio[k].link # l
    BY DEF RejectedUnseen
  <2>1. Unseen(l)
    BY DEF IInv, CallInv, SpurnedInv
  <2> QED BY <2>1 DEF Unseen, Holds
<1> QED BY <1>1, AlwaysIInv, PTL

(* ptt::sync: as long as reports of a constrained call can come, the slot  *)
(* holds its lowest profile and every other one is asked down to it.       *)
THEOREM CeilingHolds == Spec => []CeilingKept
<1>1. IInv => CeilingKept
  BY DEF IInv
<1> QED BY <1>1, AlwaysIInv, PTL

=============================================================================
