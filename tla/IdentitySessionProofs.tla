------------------------ MODULE IdentitySessionProofs ------------------------
(***************************************************************************)
(* What IdentitySession promises for every set of identities, whatever     *)
(* their profiles hold: a request lands in the session it was prepared in, *)
(* a protected identity runs only after its secret was given, and what     *)
(* runs between transitions is the active identity.                        *)
(***************************************************************************)
EXTENDS IdentitySession, TLAPS

-----------------------------------------------------------------------------
(* Types.                                                                  *)

Rows ==
  /\ active \in Opt /\ runtime \in Opt /\ kind \in [Ids -> Kinds]
  /\ stage \in {"checking", "lxmf", "ready", "error", "stopped", "hw_locked"}

Keys ==
  /\ locked \in Opt /\ retained \in Opt /\ armed \in Nat
  /\ pin \in [id : Ids, right : BOOLEAN] \union {None}
  /\ auto \in [id : Ids, num : Nat, due : BOOLEAN] \union {None}

Locks ==
  /\ fence \in Fences /\ hold \in Holds \union {Free, Served} /\ waiting \subseteq Holds

Screens ==
  /\ progress \in Opt
  /\ request \in [at : Preparing \union {"idle", "done"}, fence : Fences]

Counts == asked \in Nat /\ refused \in Nat

Past ==
  /\ opened \subseteq Ids /\ expired \subseteq Ids
  /\ before \in [session : Opt \X Opt \X Opt, failed : BOOLEAN]

Types == Rows /\ Keys /\ Locks /\ Screens /\ Counts /\ Past

(* Only a start and a restart name no identity.                            *)
Names(c) == c.op \in {"startup", "restart"} \/ c.id \in Ids
Blank(c) == ~c.again /\ c.prev = None
Named ==
  /\ hold \in Holds => Names(hold)
  /\ \A c \in waiting : Names(c) /\ c.at = "begin" /\ Blank(c)

(* A secret is staged for the start that follows at once.                  *)
PinInv ==
  /\ pin # None => /\ hold.at = "start" /\ hold.op \in {"unlock", "activate"}
                   /\ pin.id = hold.id
  /\ hold.at = "load" /\ hold.right => hold.id \in Ids /\ active = hold.id

(* A request that was accepted holds the lock until it lands.              *)
Serving == request.at \in {"mutation", "routine"} <=> hold = Served

Typed == Types /\ Named /\ PinInv /\ Serving

LEMMA Distinct ==
  /\ Free \notin Holds /\ Served \notin Holds /\ Free # Served
  /\ Free.at = "free" /\ Served.at = "request" /\ Free.op = "free" /\ Served.op = "request"
BY DEF Free, Served, Holds, Ops, Steps

LEMMA CommandType ==
  \A op \in Ops, i \in Opt :
    /\ Command(op, i) \in Holds /\ Command(op, i).op = op /\ Command(op, i).id = i
    /\ Command(op, i).at = "begin" /\ Command(op, i).right = FALSE /\ Blank(Command(op, i))
<1> TAKE op \in Ops, i \in Opt
<1> QED BY DEF Command, Holds, Steps, Opt, NoFence, Fences, Kinds, Blank

LEMMA FencedType ==
  ASSUME fence \in Fences, NEW op \in Ops, NEW i \in Opt
  PROVE  /\ Fenced(op, i) \in Holds /\ Fenced(op, i).op = op /\ Fenced(op, i).id = i
         /\ Fenced(op, i).at = "begin" /\ Blank(Fenced(op, i))
         /\ OfGen(op, i) \in Holds /\ OfGen(op, i).op = op /\ OfGen(op, i).id = i
         /\ OfGen(op, i).at = "begin" /\ Blank(OfGen(op, i))
<1> DEFINE c == Command(op, i)
<1>1. c \in Holds /\ c.op = op /\ c.id = i /\ c.at = "begin" /\ Blank(c)
  BY DEF Command, Holds, Steps, Opt, NoFence, Fences, Kinds, Blank
<1>2. [NoFence EXCEPT !.gen = fence.gen] \in Fences
  BY DEF NoFence, Fences
<1> HIDE DEF c
<1>3. /\ [c EXCEPT !.fence = fence] \in Holds
      /\ [c EXCEPT !.fence = [NoFence EXCEPT !.gen = fence.gen]] \in Holds
  BY <1>1, <1>2 DEF Holds
<1> QED BY <1>1, <1>3 DEF Fenced, OfGen, c, Holds, Blank

LEMMA HoldType ==
  ASSUME Locks, hold.at \in Steps
  PROVE  hold \in Holds
BY Distinct DEF Locks, Steps

LEMMA GoesType ==
  ASSUME hold \in Holds, NEW to \in Steps, Goes(to)
  PROVE  /\ hold' \in Holds /\ hold'.at = to /\ hold'.op = hold.op /\ hold'.id = hold.id
         /\ hold'.right = hold.right /\ hold'.was = hold.was /\ hold'.again = hold.again
         /\ hold'.prev = hold.prev
BY DEF Goes, Holds

LEMMA FenceTypes ==
  ASSUME NEW f \in Fences
  PROVE  /\ Advance(f) \in Fences /\ Bump(f) \in Fences
         /\ Advance(f).epoch = f.epoch + 1 /\ Advance(f).gen = f.gen
         /\ Bump(f).epoch = f.epoch /\ Bump(f).gen = f.gen + 1
BY DEF Advance, Bump, Fences

(* What a transition may do to the lock.                                   *)
Moves ==
  /\ hold \in Holds
  /\ \/ hold' \in Holds /\ fence'.epoch = fence.epoch
     \/ hold' = Free /\ fence' = Advance(fence)
  /\ fence' \in Fences /\ UNCHANGED <<waiting, request, progress, asked>>

LEMMA DoneMoves ==
  ASSUME Locks, hold.at \in Steps, Done
  PROVE  hold \in Holds /\ hold' = Free /\ fence' = Advance(fence) /\ fence' \in Fences
BY HoldType, FenceTypes DEF Done, Locks

-----------------------------------------------------------------------------
LEMMA UserTyped ==
  ASSUME Typed, User
  PROVE  Typed' /\ UNCHANGED <<rowv, runv, keyv, fence, hold, idlev, refused, histv>>
         /\ \A c \in waiting' \ waiting :
              /\ c.op # "autolock"
              /\ c.op = "unlock" /\ c.was = "passcode" => c.id \in Ids /\ kind[c.id] = "passcode"
<1>1. ASSUME NEW c \in Holds, Names(c), c.at = "begin", Blank(c), Waits(c)
      PROVE  Typed' /\ UNCHANGED <<rowv, runv, keyv, fence, hold, idlev, refused, histv>>
             /\ waiting' \ waiting \subseteq {c}
  BY <1>1 DEF Waits, rowv, runv, keyv, idlev, histv, Typed, Types, Rows, Keys, Locks, Screens,
              Counts, Past, Named, Names, PinInv, Serving
<1>2. /\ fence \in Fences /\ None \in Opt /\ Ids \subseteq Opt /\ locked \in Opt
      /\ kind \in [Ids -> Kinds]
  BY DEF Typed, Types, Locks, Keys, Rows, Opt
<1>3. CASE Restart
  <2>1. Command("restart", None) \in Holds /\ Command("restart", None).op = "restart"
        /\ Command("restart", None).at = "begin" /\ Blank(Command("restart", None))
    <3>1. "restart" \in Ops /\ None \in Opt
      BY DEF Ops, Opt
    <3> QED BY <3>1 DEF Command, Holds, Steps, Opt, NoFence, Fences, Kinds, Blank
  <2> QED BY <1>1, <1>3, <2>1 DEF Restart, Names
<1>4. CASE Unlock
  <2>1. PICK right \in BOOLEAN :
          Waits([OfGen("unlock", locked) EXCEPT !.right = right, !.was = kind[locked]])
    BY <1>4 DEF Unlock
  <2>2. locked \in Ids /\ kind[locked] \in Kinds
    BY <1>2, <1>4 DEF Unlock, Opt
  <2> DEFINE c == OfGen("unlock", locked)
             d == [c EXCEPT !.right = right, !.was = kind[locked]]
  <2>3. c \in Holds /\ c.op = "unlock" /\ c.id = locked /\ c.at = "begin" /\ Blank(c)
    BY <1>2, FencedType DEF Ops
  <2> HIDE DEF c
  <2>4. d \in Holds /\ d.op = "unlock" /\ d.id = locked /\ d.was = kind[locked]
        /\ d.at = "begin" /\ Blank(d)
    BY <2>2, <2>3 DEF Holds, Blank
  <2>5. Waits(d)
    BY <2>1 DEF c
  <2> HIDE DEF d
  <2> QED BY <1>1, <2>2, <2>4, <2>5 DEF Names
<1>5. ASSUME NEW i \in Ids,
             SwitchIdentity(i) \/ Delete(i) \/ Remove(i) \/ Import(i)
      PROVE  Typed' /\ UNCHANGED <<rowv, runv, keyv, fence, hold, idlev, refused, histv>>
             /\ \A c \in waiting' \ waiting : c.op \notin {"unlock", "autolock"}
  <2>1. ASSUME NEW op \in {"switch", "delete"}, Waits(Command(op, i))
        PROVE  Typed' /\ UNCHANGED <<rowv, runv, keyv, fence, hold, idlev, refused, histv>>
               /\ \A c \in waiting' \ waiting : c.op \notin {"unlock", "autolock"}
    <3>1. Command(op, i) \in Holds /\ Command(op, i).op = op /\ Command(op, i).id = i
          /\ Command(op, i).at = "begin" /\ Blank(Command(op, i))
      <4>1. op \in Ops /\ i \in Opt
        BY <1>2 DEF Ops
      <4> QED BY <4>1 DEF Command, Holds, Steps, Opt, NoFence, Fences, Kinds, Blank
    <3> QED BY <1>1, <2>1, <3>1 DEF Names
  <2>2. ASSUME NEW op \in {"remove", "import"}, Waits(Fenced(op, i))
        PROVE  Typed' /\ UNCHANGED <<rowv, runv, keyv, fence, hold, idlev, refused, histv>>
               /\ \A c \in waiting' \ waiting : c.op \notin {"unlock", "autolock"}
    <3>1. Fenced(op, i) \in Holds /\ Fenced(op, i).op = op /\ Fenced(op, i).id = i
          /\ Fenced(op, i).at = "begin" /\ Blank(Fenced(op, i))
      BY <1>2, FencedType DEF Ops
    <3> QED BY <1>1, <2>2, <3>1 DEF Names
  <2> QED BY <1>5, <2>1, <2>2 DEF SwitchIdentity, Delete, Remove, Import
<1>6. ASSUME NEW i \in Ids, ActivateHardware(i) \/ SetPasscode(i) \/ RemovePasscode(i)
      PROVE  Typed' /\ UNCHANGED <<rowv, runv, keyv, fence, hold, idlev, refused, histv>>
             /\ \A c \in waiting' \ waiting : c.op \notin {"unlock", "autolock"}
  <2>1. ASSUME NEW right \in BOOLEAN, NEW b \in Holds, b.op = "activate", b.id = i,
               b.at = "begin", Blank(b)
        PROVE  [b EXCEPT !.right = right] \in Holds /\ [b EXCEPT !.right = right].id = i
               /\ [b EXCEPT !.right = right].at = "begin"
               /\ [b EXCEPT !.right = right].op = "activate"
               /\ Blank([b EXCEPT !.right = right])
    BY <2>1 DEF Holds, Blank
  <2>2. ASSUME NEW was \in Kinds, NEW b \in Holds, b.op \in {"protect", "unprotect"}, b.id = i,
               b.at = "begin", Blank(b)
        PROVE  [b EXCEPT !.was = was] \in Holds /\ [b EXCEPT !.was = was].id = i
               /\ [b EXCEPT !.was = was].at = "begin"
               /\ [b EXCEPT !.was = was].op = b.op /\ Blank([b EXCEPT !.was = was])
    BY <2>2 DEF Holds, Blank
  <2>3. CASE ActivateHardware(i)
    <3>1. PICK right \in BOOLEAN : Waits([Fenced("activate", i) EXCEPT !.right = right])
      BY <2>3 DEF ActivateHardware
    <3>2. Fenced("activate", i) \in Holds /\ Fenced("activate", i).op = "activate"
          /\ Fenced("activate", i).id = i /\ Fenced("activate", i).at = "begin"
          /\ Blank(Fenced("activate", i))
      BY <1>2, FencedType DEF Ops
    <3> QED BY <1>1, <2>1, <3>1, <3>2 DEF Names
  <2>4. ASSUME NEW op \in {"protect", "unprotect"}, NEW was \in Kinds,
               Waits([OfGen(op, i) EXCEPT !.was = was])
        PROVE  Typed' /\ UNCHANGED <<rowv, runv, keyv, fence, hold, idlev, refused, histv>>
               /\ \A c \in waiting' \ waiting : c.op \notin {"unlock", "autolock"}
    <3>1. OfGen(op, i) \in Holds /\ OfGen(op, i).op = op /\ OfGen(op, i).id = i
          /\ OfGen(op, i).at = "begin" /\ Blank(OfGen(op, i))
      BY <1>2, FencedType DEF Ops
    <3> QED BY <1>1, <2>2, <2>4, <3>1 DEF Names
  <2>5. CASE SetPasscode(i)
    BY <1>2, <2>4, <2>5 DEF SetPasscode
  <2>6. CASE RemovePasscode(i)
    BY <2>4, <2>6 DEF RemovePasscode, Kinds
  <2> QED BY <1>6, <2>3, <2>5, <2>6
<1> QED BY <1>3, <1>4, <1>5, <1>6 DEF User

-----------------------------------------------------------------------------
(* The transitions keep the types and move the lock.                       *)

LEMMA MovesTyped ==
  ASSUME Typed, Moves, Rows', Keys', Past', refused' \in Nat, hold' = Free \/ Names(hold'), PinInv'
  PROVE  Typed'
BY Distinct DEF Typed, Types, Moves, Locks, Screens, Counts, Named, Names, Serving

LEMMA BeginTyped ==
  ASSUME Typed, Begin
  PROVE  Typed' /\ Moves
<1> USE DEF rowv, runv, keyv, askv, idlev, histv
<1>1. /\ Rows /\ Keys /\ Past /\ Locks /\ Counts /\ hold.at = "begin" /\ pin = None
      /\ hold \in Holds /\ Names(hold) /\ fence \in Fences
  <2>1. hold.at = "begin"
    BY DEF Begin, Refuse, BeginSwitch, BeginReset, BeginAutoLock, BeginImport, DeleteIdentity,
           BeginRemove, CommitPasscode, CommitPlain, Is
  <2> QED BY <2>1, HoldType DEF Typed, Types, Named, PinInv, Locks, Steps
<1>2. ASSUME Done PROVE hold' = Free /\ fence' = Advance(fence) /\ fence' \in Fences
  BY <1>1, <1>2, FenceTypes DEF Done
<1>3. ASSUME Goes("reset")
      PROVE  hold' \in Holds /\ hold'.at = "reset" /\ Names(hold')
  BY <1>1, <1>3, GoesType DEF Steps, Names
<1>4. Free.at = "free"
  BY Distinct
<1>5. ASSUME Done, Rows', Keys', Past', UNCHANGED <<pin, waiting, request, progress, asked,
    refused>>
      PROVE  Typed' /\ Moves
  <2>1. Moves
    BY <1>1, <1>2, <1>5 DEF Moves
  <2>2. PinInv' /\ refused' \in Nat
    BY <1>1, <1>2, <1>4, <1>5 DEF PinInv, Counts
  <2> QED BY <1>2, <1>5, <2>1, <2>2, MovesTyped
<1>6. ASSUME hold' \in Holds, hold'.at = "reset", Names(hold'), Rows', Keys', Past',
             UNCHANGED <<pin, waiting, request, progress, asked, refused, fence>>
      PROVE  Typed' /\ Moves
  <2>1. Moves
    BY <1>1, <1>6 DEF Moves
  <2>2. PinInv' /\ refused' \in Nat
    BY <1>1, <1>6 DEF PinInv, Counts
  <2> QED BY <1>6, <2>1, <2>2, MovesTyped
<1>7. CASE Refuse
  <2>1. Rows' /\ Keys' /\ Past'
    BY <1>1, <1>7 DEF Refuse, Rows, Keys, Past
  <2> QED BY <1>5, <1>7, <2>1 DEF Refuse
<1>8. CASE BeginSwitch
  <2>1. Rows' /\ Keys' /\ Past'
    BY <1>1, <1>8 DEF BeginSwitch, Rows, Keys, Past
  <2>2. hold' \in Holds /\ hold'.at = "reset" /\ hold'.op = hold.op /\ hold'.id = hold.id
    BY <1>1, <1>8 DEF BeginSwitch, Holds, Steps, Rows
  <2> QED BY <1>1, <1>6, <1>8, <2>1, <2>2 DEF BeginSwitch, Names
<1>9. CASE BeginReset
  <2>1. Rows' /\ Keys' /\ Past'
    BY <1>1, <1>9 DEF BeginReset, Rows, Keys, Past
  <2> QED BY <1>3, <1>6, <1>9, <2>1 DEF BeginReset
<1>10. CASE BeginAutoLock
  <2>1. Rows' /\ Keys' /\ Past'
    BY <1>1, <1>10 DEF BeginAutoLock, Rows, Keys, Past
  <2> QED BY <1>3, <1>5, <1>6, <1>10, <2>1 DEF BeginAutoLock
<1>11. CASE BeginImport
  <2>1. hold.id \in Ids /\ "plain" \in Kinds
    BY <1>1, <1>11 DEF BeginImport, Is, Names, Kinds
  <2>2. Rows' /\ Keys' /\ Past'
    BY <1>1, <1>11, <2>1 DEF BeginImport, Rows, Keys, Past
  <2> QED BY <1>3, <1>5, <1>6, <1>11, <2>2 DEF BeginImport
<1>12. CASE DeleteIdentity
  <2>1. "absent" \in Kinds /\ None \in Opt
    BY DEF Kinds, Opt
  <2>2. Rows' /\ Keys' /\ Past'
    BY <1>1, <1>12, <2>1 DEF DeleteIdentity, Drops, Rows, Keys, Past
  <2> QED BY <1>5, <1>12, <2>2 DEF DeleteIdentity
<1>13. CASE BeginRemove
  <2>1. "absent" \in Kinds /\ None \in Opt
    BY DEF Kinds, Opt
  <2>2. Rows' /\ Keys' /\ Past'
    BY <1>1, <1>13, <2>1 DEF BeginRemove, Drops, Rows, Keys, Past
  <2> QED BY <1>3, <1>5, <1>6, <1>13, <2>2 DEF BeginRemove
<1>14. CASE CommitPasscode
  <2>1. hold.id \in Ids /\ "passcode" \in Kinds
    BY <1>1, <1>14 DEF CommitPasscode, Is, Names, Kinds
  <2>2. armed' \in Nat /\ auto' \in [id : Ids, num : Nat, due : BOOLEAN] \union {None}
    <3>1. CASE UNCHANGED <<auto, armed>>
      BY <1>1, <3>1 DEF Keys
    <3>2. CASE Arm(hold.id, FALSE)
      BY <1>1, <2>1, <3>2 DEF Arm, Keys
    <3> QED BY <1>14, <3>1, <3>2 DEF CommitPasscode
  <2>3. Rows' /\ Keys' /\ Past'
    BY <1>1, <1>14, <2>1, <2>2 DEF CommitPasscode, Rows, Keys, Past
  <2> QED BY <1>5, <1>14, <2>3 DEF CommitPasscode
<1>15. CASE CommitPlain
  <2>1. "plain" \in Kinds
    BY DEF Kinds
  <2>2. Rows' /\ Keys' /\ Past'
    BY <1>1, <1>15, <2>1 DEF CommitPlain, Rows, Keys, Past
  <2> QED BY <1>5, <1>15, <2>2 DEF CommitPlain
<1> QED BY <1>7, <1>8, <1>9, <1>10, <1>11, <1>12, <1>13, <1>14, <1>15 DEF Begin

LEMMA ProceedTyped ==
  ASSUME Typed, Proceed
  PROVE  Typed' /\ Moves
<1> USE DEF rowv, runv, keyv, askv, idlev, histv
<1>1. /\ Rows /\ Keys /\ Past /\ Locks /\ Counts /\ hold.at \in Steps \ {"begin"}
      /\ hold \in Holds /\ Names(hold) /\ fence \in Fences
      /\ hold.op \in Ops /\ hold.id \in Opt /\ hold.prev \in Opt /\ hold.right \in BOOLEAN
  <2>1. hold.at \in Steps \ {"begin"}
    BY DEF Proceed, Reset, ResetRefused, Stop, Activate, ActivateToken, Present, RestartInit,
           AutoLocked, Imported, Removed, StartFails, NothingToStart, Start, Loads, LoadFails,
           Settle, RollBack, Resume, Resumed, SwitchFailed, Unlocked, Ends, Is, Steps
  <2>2. hold \in Holds /\ Locks
    BY <2>1, HoldType DEF Typed, Types
  <2>3. hold.op \in Ops /\ hold.id \in Opt /\ hold.prev \in Opt /\ hold.right \in BOOLEAN
    BY <2>2 DEF Holds
  <2> QED BY <2>1, <2>2, <2>3 DEF Typed, Types, Named, Locks
<1>2. ASSUME Done PROVE hold' = Free /\ fence' = Advance(fence) /\ fence' \in Fences
  BY <1>1, <1>2, FenceTypes DEF Done
<1>3. ASSUME NEW to \in Steps, Goes(to)
      PROVE  /\ hold' \in Holds /\ hold'.at = to /\ hold'.op = hold.op /\ hold'.id = hold.id
             /\ hold'.right = hold.right /\ Names(hold')
  BY <1>1, <1>3, GoesType DEF Names
<1>4. Free.at = "free"
  BY Distinct
<1>5. ASSUME Done, Rows', Keys', Past', pin' = None, refused' \in Nat,
             UNCHANGED <<waiting, request, progress, asked>>
      PROVE  Typed' /\ Moves
  <2>1. Moves
    BY <1>1, <1>2, <1>5 DEF Moves
  <2>2. PinInv'
    BY <1>2, <1>4, <1>5 DEF PinInv
  <2> QED BY <1>2, <1>5, <2>1, <2>2, MovesTyped
<1>6. ASSUME hold' \in Holds, hold'.op = hold.op, hold'.id = hold.id, Rows', Keys', Past', PinInv',
             fence' \in {fence, Bump(fence)},
             UNCHANGED <<waiting, request, progress, asked, refused>>
      PROVE  Typed' /\ Moves
  <2>1. Moves
    BY <1>1, <1>6, FenceTypes DEF Moves
  <2>2. refused' \in Nat /\ Names(hold')
    BY <1>1, <1>6 DEF Counts, Names
  <2> QED BY <1>6, <2>1, <2>2, MovesTyped
<1>7. ASSUME NEW to \in Steps \ {"load"}, Goes(to), Rows', Keys', Past',
             pin' = None \/ (/\ to = "start" /\ hold.op \in {"unlock", "activate"}
                             /\ pin'.id = hold.id),
             fence' \in {fence, Bump(fence)},
             UNCHANGED <<waiting, request, progress, asked, refused>>
      PROVE  Typed' /\ Moves
  BY <1>3, <1>6, <1>7 DEF PinInv
<1>8. hold.at # "start" => pin = None
  BY DEF Typed, PinInv
<1>n. None \in Opt /\ "absent" \in Kinds /\ Ids \subseteq Opt
  BY DEF Opt, Kinds
<1>9. CASE Reset
  <2>1. Rows' /\ Keys'
    BY <1>1, <1>9 DEF Reset, Rows, Keys
  <2>2. Past'
    BY <1>1, <1>9 DEF Reset, Past, Rows, Keys
  <2> QED BY <1>7, <1>8, <1>9, <2>1, <2>2 DEF Reset, Steps
<1>10. CASE ResetRefused
  <2>1. Rows' /\ Keys' /\ Past' /\ refused' \in Nat /\ Done /\ pin' = None
    BY <1>1, <1>8, <1>10 DEF ResetRefused, Rows, Keys, Past, Counts, Done
  <2> QED BY <1>5, <1>10, <2>1 DEF ResetRefused
<1>11. CASE Stop
  <2>1. Rows' /\ Keys' /\ Past' /\ pin' = None
    BY <1>1, <1>8, <1>11, <1>n DEF Stop, Rows, Keys, Past
  <2> QED BY <1>7, <1>11, <2>1 DEF Stop, Steps
<1>12. CASE Activate
  <2>1. Rows' /\ Keys' /\ Past' /\ pin' = None
    BY <1>1, <1>8, <1>12 DEF Activate, Is, Rows, Keys, Past
  <2> QED BY <1>7, <1>12, <2>1 DEF Activate, Steps
<1>13. CASE ActivateToken
  <2>1. hold.id \in Ids /\ hold.op = "activate"
    BY <1>1, <1>13 DEF ActivateToken, Is, Names
  <2>2. [id |-> hold.id, right |-> hold.right] \in [id : Ids, right : BOOLEAN]
    BY <1>1, <2>1
  <2>3. Rows' /\ Past'
    BY <1>1, <1>13, <2>1 DEF ActivateToken, Rows, Past
  <2>4. Keys'
    BY <1>1, <1>13, <1>n, <2>1, <2>2 DEF ActivateToken, Drops, Keys
  <2>5. CASE Goes("start") /\ fence' = fence /\ pin'.id = hold.id
    BY <1>7, <1>13, <2>1, <2>3, <2>4, <2>5 DEF ActivateToken, Steps
  <2>6. CASE Goes("resume") /\ fence' = Bump(fence) /\ pin' = pin
    <3>1. pin' = None
      BY <1>8, <1>13, <2>6 DEF ActivateToken, Is
    <3> QED BY <1>7, <1>13, <2>3, <2>4, <2>6, <3>1 DEF ActivateToken, Steps
  <2> QED BY <1>13, <2>5, <2>6 DEF ActivateToken
<1>14. CASE Present
  <2>1. hold.id \in Ids /\ hold.op = "unlock"
    BY <1>1, <1>14 DEF Present, Is, Names
  <2>2. [id |-> hold.id, right |-> hold.right] \in [id : Ids, right : BOOLEAN]
    BY <1>1, <2>1
  <2>3. Rows' /\ Past'
    BY <1>1, <1>14, <2>1 DEF Present, Rows, Past
  <2>4. Keys'
    BY <1>1, <1>14, <1>n, <2>1, <2>2 DEF Present, Keys
  <2>5. pin' = None \/ pin'.id = hold.id
    BY <1>14 DEF Present
  <2> QED BY <1>7, <1>14, <2>1, <2>3, <2>4, <2>5 DEF Present, Steps
<1>15. CASE RestartInit
  <2>1. Rows' /\ Keys' /\ Past' /\ pin' = None
    BY <1>1, <1>8, <1>15 DEF RestartInit, Is, Rows, Keys, Past
  <2> QED BY <1>7, <1>15, <2>1 DEF RestartInit, Steps
<1>16. CASE AutoLocked
  <2>1. Rows' /\ Keys' /\ Past' /\ pin' = None /\ refused' \in Nat
    BY <1>1, <1>16, <1>n DEF AutoLocked, Drops, Rows, Keys, Past, Counts
  <2> QED BY <1>5, <1>16, <2>1 DEF AutoLocked
<1>17. CASE Imported
  <2>1. Rows' /\ Keys' /\ Past' /\ pin' = None /\ refused' \in Nat
    BY <1>1, <1>8, <1>17 DEF Imported, Is, Rows, Keys, Past, Counts
  <2> QED BY <1>5, <1>17, <2>1 DEF Imported
<1>18. CASE Removed
  <2>1. Past' /\ refused' \in Nat /\ Is({"remove"}, "stopped") /\ retained' \in Opt
        /\ UNCHANGED <<runtime, auto, armed, waiting, asked, progress, request>>
    BY <1>1, <1>18, <1>n DEF Removed, Past, Counts, Drops, Keys
  <2>2. CASE Done /\ UNCHANGED <<rowv, locked, pin, stage>>
    <3>1. Rows' /\ Keys' /\ pin' = None
      BY <1>1, <1>8, <2>1, <2>2 DEF Rows, Keys, Is
    <3> QED BY <1>5, <2>1, <2>2, <3>1
  <2>3. ASSUME kind' = [kind EXCEPT ![hold.id] = "absent"],
               active' = IF active = hold.id THEN None ELSE active,
               locked' = None, pin' = None, stage' \in {"ready", "error", stage}
        PROVE  Rows' /\ Keys'
    BY <1>1, <1>n, <2>1, <2>3 DEF Rows, Keys
  <2>4. ASSUME Done, Rows', Keys', pin' = None PROVE Typed' /\ Moves
    BY <1>5, <2>1, <2>4
  <2>5. ASSUME NEW i \in Ids, hold' = Command("switch", i), fence' = fence, Rows', Keys',
      pin' = None
        PROVE  Typed' /\ Moves
    <3>1. hold' \in Holds /\ Names(hold') /\ hold'.at = "begin"
      <4>1. "switch" \in Ops /\ i \in Opt
        BY <1>n DEF Ops
      <4> QED BY <2>5, <4>1 DEF Names, Command, Holds, Steps, Opt, NoFence, Fences, Kinds
    <3>2. Moves
      BY <1>1, <2>1, <2>5, <3>1 DEF Moves
    <3>3. PinInv'
      BY <2>5, <3>1 DEF PinInv
    <3> QED BY <2>1, <2>5, <3>1, <3>2, <3>3, MovesTyped
  <2> QED BY <1>18, <2>2, <2>3, <2>4, <2>5 DEF Removed
<1>19. CASE StartFails
  <2>1. Rows' /\ Keys'
    BY <1>1, <1>19 DEF StartFails, Rows, Keys
  <2>2. Past'
    BY <1>1, <1>19 DEF StartFails, Failed, Past
  <2> QED BY <1>7, <1>19, <2>1, <2>2 DEF StartFails, Steps
<1>20. CASE NothingToStart
  <2>1. Rows' /\ Keys' /\ Past'
    BY <1>1, <1>20 DEF NothingToStart, Rows, Keys, Past
  <2> QED BY <1>7, <1>20, <2>1 DEF NothingToStart, Steps
<1>21. ASSUME NEW i \in Ids, Start(i) PROVE Typed' /\ Moves
  <2>1. Rows' /\ Past'
    BY <1>1, <1>21, <1>n DEF Start, Others, Rows, Past
  <2>2. Keys'
    BY <1>1, <1>21, <1>n DEF Start, Others, Keys
  <2>3. CASE Goes("after")
    BY <1>7, <1>21, <2>1, <2>2, <2>3 DEF Start, Others, Steps
  <2>4. CASE hold' = [hold EXCEPT !.at = "load", !.right = Staged(i) /\ pin.right]
    <3>1. (Staged(i) /\ pin.right) \in BOOLEAN
      OBVIOUS
    <3>2. /\ hold' \in Holds /\ hold'.op = hold.op /\ hold'.id = hold.id /\ hold'.at = "load"
          /\ hold'.right = (Staged(i) /\ pin.right)
      BY <1>1, <2>4, <3>1 DEF Holds, Steps
    <3>3. pin' = None /\ active' = i
      BY <1>21 DEF Start
    <3>4. hold'.right => hold.id = i
      BY <3>2 DEF Staged, Typed, PinInv
    <3>5. PinInv'
      BY <3>2, <3>3, <3>4 DEF PinInv
    <3> QED BY <1>6, <1>21, <2>1, <2>2, <3>2, <3>5 DEF Start
  <2> QED BY <1>21, <2>3, <2>4 DEF Start
<1>22. CASE Loads
  <2>1. pin' = None /\ Goes("after") /\ fence' = fence
    BY <1>8, <1>22 DEF Loads
  <2>2. Rows'
    BY <1>1, <1>22 DEF Loads, Rows
  <2>3. Keys'
    <3>1. CASE Protected(active) /\ Arm(active, Deadline(active))
      <4>1. active \in Ids
        BY <1>1, <3>1 DEF Protected, Rows, Opt
      <4>2. Deadline(active) \in BOOLEAN
        BY <1>1 DEF Deadline, Keys
      <4>3. armed' \in Nat /\ auto' \in [id : Ids, num : Nat, due : BOOLEAN]
        BY <1>1, <3>1, <4>1, <4>2 DEF Arm, Keys
      <4> QED BY <1>1, <1>22, <1>n, <2>1, <4>3 DEF Loads, Keys
    <3>2. CASE auto' = None /\ UNCHANGED armed
      BY <1>1, <1>22, <1>n, <2>1, <3>2 DEF Loads, Keys
    <3> QED BY <1>22, <3>1, <3>2 DEF Loads
  <2>4. Past'
    <3>1. hold.right => hold.id \in Ids /\ active = hold.id
      BY <1>22 DEF Loads, Typed, PinInv
    <3> QED BY <1>1, <1>22, <3>1 DEF Loads, Others, Opens, Past
  <2> QED BY <1>7, <1>22, <2>1, <2>2, <2>3, <2>4 DEF Loads, Steps
<1>23. CASE LoadFails
  <2>1. Rows' /\ Keys' /\ pin' = None
    BY <1>1, <1>8, <1>23, <1>n DEF LoadFails, Rows, Keys
  <2>2. Past'
    BY <1>1, <1>23 DEF LoadFails, Others, Opens, Failed, Past
  <2> QED BY <1>7, <1>23, <2>1, <2>2 DEF LoadFails, Steps
<1>24. CASE Settle
  <2>1. Rows' /\ Keys' /\ pin' = None /\ refused' \in Nat
    BY <1>1, <1>8, <1>24, <1>n DEF Settle, Is, Drops, Rows, Keys, Counts
  <2>2. Past'
    BY <1>1, <1>24, <1>n DEF Settle, SwitchEnds, NoSwitch, Past
  <2> QED BY <1>5, <1>24, <2>1, <2>2 DEF Settle, SwitchEnds
<1>25. CASE RollBack
  <2>1. Rows' /\ Keys' /\ pin' = None
    BY <1>1, <1>8, <1>25 DEF RollBack, Is, Rows, Keys
  <2>2. Past'
    BY <1>1, <1>25 DEF RollBack, Past
  <2> QED BY <1>7, <1>25, <2>1, <2>2 DEF RollBack, Steps
<1>26. CASE Resume
  <2>1. Keys' /\ pin' = None
    BY <1>1, <1>8, <1>26 DEF Resume, Keys
  <2>2. Rows'
    BY <1>1, <1>26, <1>n DEF Resume, Rows
  <2>3. Past'
    BY <1>1, <1>26 DEF Resume, Past
  <2>4. CASE hold' = [hold EXCEPT !.at = "start", !.again = TRUE]
    <3>1. hold' \in Holds /\ hold'.op = hold.op /\ hold'.id = hold.id /\ hold'.at = "start"
      BY <1>1, <2>4 DEF Holds, Steps
    <3> QED BY <1>6, <1>26, <2>1, <2>2, <2>3, <3>1 DEF Resume, PinInv
  <2>5. CASE Goes("failed")
    BY <1>7, <1>26, <2>1, <2>2, <2>3, <2>5 DEF Resume, Steps
  <2> QED BY <1>26, <2>4, <2>5 DEF Resume
<1>27. CASE Resumed
  <2>1. Rows' /\ Keys' /\ Past' /\ pin' = None
    BY <1>1, <1>8, <1>27 DEF Resumed, Rows, Keys, Past
  <2> QED BY <1>7, <1>27, <2>1 DEF Resumed, Steps
<1>28. CASE SwitchFailed
  <2>1. Rows' /\ Keys' /\ pin' = None /\ refused' \in Nat
    BY <1>1, <1>8, <1>28 DEF SwitchFailed, Rows, Keys, Counts
  <2>2. Past'
    BY <1>1, <1>28, <1>n DEF SwitchFailed, SwitchEnds, NoSwitch, Past
  <2> QED BY <1>5, <1>28, <2>1, <2>2 DEF SwitchFailed, SwitchEnds
<1>29. CASE Unlocked
  <2>1. Rows' /\ Keys' /\ pin' = None /\ refused' \in Nat
    BY <1>1, <1>8, <1>29, <1>n DEF Unlocked, Is, Rows, Keys, Counts
  <2>2. Past'
    BY <1>1, <1>29, <1>n DEF Unlocked, SwitchEnds, NoSwitch, Past
  <2> QED BY <1>5, <1>29, <2>1, <2>2 DEF Unlocked, SwitchEnds
<1>30. ASSUME NEW op, Ends(op) PROVE Typed' /\ Moves
  <2>1. Rows' /\ Keys' /\ Past' /\ pin' = None /\ refused' \in Nat
    BY <1>1, <1>8, <1>30 DEF Ends, Is, Rows, Keys, Past, Counts
  <2> QED BY <1>5, <1>30, <2>1 DEF Ends
<1> QED BY <1>9, <1>10, <1>11, <1>12, <1>13, <1>14, <1>15, <1>16, <1>17, <1>18, <1>19, <1>20,
           <1>21, <1>22, <1>23, <1>24, <1>25, <1>26, <1>27, <1>28, <1>29, <1>30 DEF Proceed

(* What the other steps do: a screen or the queue takes or leaves the lock.*)
Quiet ==
  \/ AutoLockFires \/ TimePasses \/ ProgressFinds \/ ProgressClears
  \/ \E c \in waiting : Acquire(c)
  \/ TakeFence \/ AcquireMutation \/ AcquireRoutine \/ Land

LEMMA QuietTyped ==
  ASSUME Typed, Quiet
  PROVE  Typed'
<1> USE DEF rowv, runv, keyv, askv, idlev, histv
<1>1. /\ Rows /\ Keys /\ Past /\ Locks /\ Counts /\ Screens /\ Named /\ PinInv /\ Serving
      /\ fence \in Fences /\ request.fence \in Fences /\ None \in Opt
  BY DEF Typed, Types, Locks, Screens, Opt
<1>2. NoFence \in Fences /\ Advance(fence) \in Fences /\ Advance(Advance(fence)) \in Fences
  BY <1>1, FenceTypes DEF NoFence, Fences
<1>3. CASE AutoLockFires
  <2> DEFINE b == Command("autolock", auto.id)
             c == [b EXCEPT !.num = auto.num]
  <2>1. auto.id \in Ids /\ auto.num \in Nat
    BY <1>1, <1>3 DEF AutoLockFires, Keys
  <2>2. b \in Holds /\ b.id = auto.id /\ b.at = "begin" /\ Blank(b)
    <3>1. "autolock" \in Ops
      BY DEF Ops
    <3>2. auto.id \in Opt
      BY <2>1 DEF Opt
    <3>3. \A op \in Ops, i \in Opt :
            /\ Command(op, i) \in Holds /\ Command(op, i).id = i
            /\ Command(op, i).at = "begin" /\ Blank(Command(op, i))
      BY CommandType
    <3> QED BY <3>1, <3>2, <3>3
  <2> HIDE DEF b
  <2>3. c \in Holds /\ c.id \in Ids /\ c.at = "begin" /\ Blank(c)
    BY <2>1, <2>2 DEF Holds, Blank
  <2>4. waiting' = waiting \union {c}
    BY <1>3 DEF AutoLockFires, b
  <2> HIDE DEF c
  <2>5. Locks' /\ Named'
    BY <1>1, <1>3, <2>3, <2>4 DEF AutoLockFires, Locks, Named, Names
  <2> QED BY <1>1, <1>3, <2>5 DEF AutoLockFires, Typed, Types, Rows, Keys, Past, Counts,
                                  Screens, PinInv, Serving
<1>4. CASE TimePasses
  <2>1. auto' \in [id : Ids, num : Nat, due : BOOLEAN] /\ auto.id \in Ids
    BY <1>1, <1>4 DEF TimePasses, Keys
  <2>2. Past' /\ Keys'
    BY <1>1, <1>4, <2>1 DEF TimePasses, Past, Keys
  <2> QED BY <1>1, <1>4, <2>2 DEF TimePasses, Typed, Types, Rows, Counts, Screens, Locks,
                                  Named, Names, PinInv, Serving
<1>5. CASE ProgressFinds
  BY <1>1, <1>5 DEF ProgressFinds, Typed, Types, Rows, Keys, Past, Counts, Screens, Locks,
                    Named, Names, PinInv, Serving
<1>6. CASE ProgressClears
  BY <1>1, <1>6 DEF ProgressClears, Typed, Types, Rows, Keys, Past, Counts, Screens, Locks,
                    Named, Names, PinInv, Serving
<1>7. ASSUME NEW c \in waiting, Acquire(c) PROVE Typed'
  <2>1. Locks' /\ Named' /\ PinInv' /\ Serving'
    BY <1>1, <1>2, <1>7, Distinct DEF Acquire, Locks, Named, PinInv, Serving
  <2> QED BY <1>1, <1>7, <2>1 DEF Acquire, Typed, Types, Rows, Keys, Past, Counts, Screens
<1>8. ASSUME hold' \in {hold, Free, Served}, hold' # hold => hold.at \in {"free", "request"},
             fence' \in Fences, Screens', Serving',
             UNCHANGED <<rowv, runv, keyv, askv, progress, refused, histv>>
      PROVE  Typed'
  <2>1. Locks'
    BY <1>1, <1>8 DEF Locks
  <2>2. Named'
    BY <1>1, <1>8, Distinct DEF Named, Names
  <2>3. PinInv'
    BY <1>1, <1>8, Distinct DEF PinInv
  <2> QED BY <1>1, <1>8, <2>1, <2>2, <2>3 DEF Typed, Types, Rows, Keys, Past, Counts
<1>9. CASE TakeFence
  <2>1. Capture(request.at, request.fence) \in Fences
    BY <1>1, <1>9 DEF Capture, Fences
  <2>2. Screens'
    BY <1>1, <1>9, <2>1 DEF TakeFence, Screens, Preparing
  <2>3. Serving'
    BY <1>1, <1>9 DEF TakeFence, Serving, Screens
  <2> QED BY <1>1, <1>8, <1>9, <2>2, <2>3 DEF TakeFence
<1>10. Accepts("mutation") \/ Accepts("routine") \/ Rejects => request' \in
         [at : Preparing \union {"idle", "done"}, fence : Fences]
  BY <1>1, <1>2 DEF Accepts, Rejects, Screens, Preparing
<1>11. CASE AcquireMutation
  <2>1. CASE Accepts("mutation") /\ fence' = Advance(fence)
    <3>1. Serving'
      BY <1>1, <2>1, <1>11 DEF Serving, Accepts, Screens
    <3> QED BY <1>1, <1>2, <1>8, <1>10, <1>11, <2>1, <3>1, Distinct
            DEF AcquireMutation, Accepts, Screens
  <2>2. CASE Rejects /\ fence' = Advance(Advance(fence))
    <3>1. Serving'
      BY <1>1, <2>2, <1>11, Distinct DEF Serving, Rejects, AcquireMutation
    <3> QED BY <1>1, <1>2, <1>8, <1>10, <1>11, <2>2, <3>1, Distinct
            DEF AcquireMutation, Rejects, Screens
  <2> QED BY <1>11, <2>1, <2>2 DEF AcquireMutation
<1>12. CASE AcquireRoutine
  <2>1. CASE Accepts("routine")
    <3>1. Serving'
      BY <1>1, <2>1, <1>12 DEF Serving, Accepts, Screens
    <3> QED BY <1>1, <1>2, <1>8, <1>10, <1>12, <2>1, <3>1, Distinct
            DEF AcquireRoutine, Accepts, Screens
  <2>2. CASE Rejects
    <3>1. Serving'
      BY <1>1, <2>2, <1>12, Distinct DEF Serving, Rejects, AcquireRoutine
    <3> QED BY <1>1, <1>2, <1>8, <1>10, <1>12, <2>2, <3>1, Distinct
            DEF AcquireRoutine, Rejects, Screens
  <2> QED BY <1>12, <2>1, <2>2 DEF AcquireRoutine
<1>13. CASE Land
  <2>1. hold = Served /\ hold' = Free /\ fence' \in Fences /\ Screens' /\ Serving'
    BY <1>1, <1>2, <1>13, Distinct DEF Land, Screens, Serving
  <2> QED BY <1>1, <1>8, <1>13, <2>1, Distinct DEF Land
<1> QED BY <1>3, <1>4, <1>5, <1>6, <1>7, <1>9, <1>11, <1>12, <1>13 DEF Quiet

-----------------------------------------------------------------------------
(* A request lands in its session.                                         *)

(* While nobody but a transition moves the session, the epoch a request    *)
(* has read stays the epoch of the session only until a transition starts, *)
(* and the epoch of a running transition is odd.                           *)
Parity ==
  fence.epoch % 2 = IF hold = Free \/ request.at = "routine" THEN 0 ELSE 1

FenceInv ==
  /\ Parity
  /\ hold = Served => born = Session
  /\ request.at \in {"epoch", "fenced"} =>
       /\ request.fence.epoch =< fence.epoch
       /\ request.fence.epoch = fence.epoch /\ fence.epoch % 2 = 0 => born = Session

LEMMA OddEven ==
  ASSUME NEW n \in Nat
  PROVE  /\ n % 2 \in {0, 1}
         /\ n % 2 = 0 => (n + 1) % 2 = 1 /\ (n + 1 + 1) % 2 = 0
         /\ n % 2 = 1 => (n + 1) % 2 = 0
OBVIOUS

LEMMA BornType ==
  ASSUME Typed', Remember
  PROVE  born' \in (Opt \X Opt \X Nat) \union {Left}
<1>1. Session' \in Opt \X Opt \X Nat /\ NoBirth \in Opt \X Opt \X Nat
  BY DEF Typed, Types, Rows, Locks, Fences, Session, NoBirth, Opt
<1> QED BY <1>1 DEF Remember

LEMMA NextTyped ==
  ASSUME Typed, [Next]_vars
  PROVE  Typed'
<1>1. CASE UNCHANGED vars
  BY <1>1 DEF vars, rowv, runv, keyv, askv, idlev, histv, Typed, Types, Rows, Keys, Locks,
              Screens, Counts, Past, Named, Names, PinInv, Serving
<1>2. CASE Next
  BY <1>2, UserTyped, BeginTyped, ProceedTyped, QuietTyped DEF Next, Transition, Quiet
<1> QED BY <1>1, <1>2

LEMMA FenceStep ==
  ASSUME Typed, FenceInv, [Next]_vars
  PROVE  FenceInv'
<1>1. /\ fence \in Fences /\ fence.epoch \in Nat /\ Serving /\ Screens
      /\ request.fence \in Fences /\ request.fence.epoch \in Nat
  BY DEF Typed, Types, Locks, Screens, Fences
<1>2. /\ Advance(fence).epoch = fence.epoch + 1
      /\ Advance(Advance(fence)).epoch = fence.epoch + 1 + 1
      /\ Advance(fence).gen = fence.gen /\ Advance(Advance(fence)).gen = fence.gen
  BY <1>1, FenceTypes
<1>3. /\ fence.epoch % 2 \in {0, 1}
      /\ fence.epoch % 2 = 0 => (fence.epoch + 1) % 2 = 1 /\ (fence.epoch + 1 + 1) % 2 = 0
      /\ fence.epoch % 2 = 1 => (fence.epoch + 1) % 2 = 0
  BY <1>1, OddEven
<1>4. ASSUME Remember, born = Session, UNCHANGED Session, request.at # "idle",
             request'.at \in Preparing
      PROVE  born' = Session'
  BY <1>4 DEF Remember
<1>5. CASE Moves /\ Remember
  <2>1. request.at \notin {"mutation", "routine"} /\ hold # Free /\ UNCHANGED request
    BY <1>1, <1>5, Distinct DEF Moves, Serving
  <2>2. CASE hold' \in Holds /\ fence'.epoch = fence.epoch
    BY <1>1, <1>3, <2>1, <2>2, Distinct DEF FenceInv, Parity
  <2>3. CASE hold' = Free /\ fence' = Advance(fence)
    BY <1>1, <1>2, <1>3, <2>1, <2>3, Distinct DEF FenceInv, Parity
  <2> QED BY <1>5, <2>2, <2>3 DEF Moves
<1>6. ASSUME UNCHANGED <<active, runtime, fence, hold, request>>, Remember \/ born' = born
      PROVE  FenceInv'
  <2>1. UNCHANGED Session
    BY <1>6 DEF Session
  <2>2. hold = Served => request'.at \in Preparing /\ request.at # "idle"
    BY <1>1, <1>6 DEF Serving, Preparing
  <2>3. request.at \in {"epoch", "fenced"} => request'.at \in Preparing /\ request.at # "idle"
    BY <1>6 DEF Preparing
  <2> QED BY <1>4, <1>6, <2>1, <2>2, <2>3 DEF FenceInv, Parity
<1>7. CASE UNCHANGED vars
  BY <1>6, <1>7 DEF vars, rowv, runv, idlev
<1>8. CASE Remember /\ (User \/ AutoLockFires \/ TimePasses \/ ProgressFinds \/ ProgressClears)
  <2>1. CASE User
    BY <1>6, <1>8, <2>1, UserTyped DEF rowv, runv, idlev
  <2> QED BY <1>6, <1>8, <2>1 DEF AutoLockFires, TimePasses, ProgressFinds, ProgressClears,
                                  rowv, runv, idlev
<1>9. ASSUME Remember, NEW c \in waiting, Acquire(c) PROVE FenceInv'
  <2>1. /\ hold = Free /\ hold' \notin {Free, Served} /\ fence' = Advance(fence)
        /\ UNCHANGED request
    BY <1>9, Distinct DEF Acquire, Typed, Types, Locks, idlev
  <2> QED BY <1>1, <1>2, <1>3, <2>1, Distinct DEF FenceInv, Parity, Serving
<1>10. CASE Remember /\ TakeFence
  <2>1. UNCHANGED <<fence, hold, Session>>
    BY <1>10 DEF TakeFence, rowv, runv, Session
  <2>2. CASE request.at = "idle"
    <3>1. request'.at = "epoch" /\ request'.fence.epoch = fence.epoch
      BY <1>1, <1>10, <2>2 DEF TakeFence, Capture, Fences
    <3>2. born' = Session'
      BY <1>10, <2>2, <3>1 DEF Remember, Preparing
    <3> QED BY <1>1, <2>1, <2>2, <3>1, <3>2 DEF FenceInv, Parity, Serving
  <2>3. CASE request.at = "epoch"
    <3>1. request'.at = "fenced" /\ request'.fence.epoch = request.fence.epoch
      BY <1>1, <1>10, <2>3 DEF TakeFence, Capture, Fences
    <3>2. request'.at \in Preparing /\ request.at # "idle"
      BY <2>3, <3>1 DEF Preparing
    <3> QED BY <1>1, <1>4, <1>10, <2>1, <2>3, <3>1, <3>2 DEF FenceInv, Parity, Serving
  <2> QED BY <1>10, <2>2, <2>3 DEF TakeFence
<1>11. CASE Remember /\ AcquireMutation
  <2>1. UNCHANGED Session /\ hold = Free /\ request.at = "fenced"
    BY <1>2, <1>11 DEF AcquireMutation, Rejects, Accepts, rowv, runv, Session
  <2>2. CASE Advance(fence) = Advance(request.fence) /\ Accepts("mutation") /\ fence' = Advance(fence)
    <3>1. request.fence.epoch = fence.epoch
      <4>1. Advance(request.fence).epoch = request.fence.epoch + 1
        BY <1>1, FenceTypes
      <4> QED BY <1>1, <1>2, <2>2, <4>1
    <3>2. request'.at = "mutation" /\ hold' = Served
      BY <1>1, <2>2 DEF Accepts, Screens
    <3>3. born = Session
      BY <1>1, <2>1, <3>1 DEF FenceInv, Parity
    <3>4. born' = Session'
      BY <1>4, <1>11, <2>1, <3>2, <3>3 DEF Preparing
    <3> QED BY <1>1, <1>2, <1>3, <2>1, <2>2, <3>2, <3>4, Distinct DEF FenceInv, Parity
  <2>3. CASE Rejects /\ fence' = Advance(Advance(fence))
    BY <1>1, <1>2, <1>3, <2>1, <2>3, Distinct DEF FenceInv, Parity, Rejects
  <2> QED BY <1>11, <2>2, <2>3 DEF AcquireMutation
<1>12. CASE Remember /\ AcquireRoutine
  <2>1. UNCHANGED <<Session, fence>> /\ hold = Free /\ request.at = "fenced"
    BY <1>12 DEF AcquireRoutine, rowv, runv, Session
  <2>2. CASE CurrentRoutine(request.fence) /\ Accepts("routine")
    <3>1. request'.at = "routine" /\ hold' = Served
      BY <1>1, <2>2 DEF Accepts, Screens
    <3>2. born = Session /\ fence.epoch % 2 = 0
      BY <1>1, <2>1, <2>2 DEF FenceInv, Parity, CurrentRoutine
    <3>3. born' = Session'
      BY <1>4, <1>12, <2>1, <3>1, <3>2 DEF Preparing
    <3> QED BY <1>1, <2>1, <3>1, <3>2, <3>3, Distinct DEF FenceInv, Parity
  <2>3. CASE Rejects
    BY <1>1, <2>1, <2>3, Distinct DEF FenceInv, Parity, Rejects
  <2> QED BY <1>12, <2>2, <2>3 DEF AcquireRoutine
<1>13. CASE Remember /\ Land
  <2>1. hold = Served /\ hold' = Free /\ request'.at = "done"
    BY <1>1, <1>13 DEF Land, Serving
  <2> QED BY <1>1, <1>2, <1>3, <1>13, <2>1, Distinct DEF Land, FenceInv, Parity
<1>14. CASE Transition /\ Remember
  BY <1>5, <1>14, BeginTyped, ProceedTyped DEF Transition
<1> QED BY <1>7, <1>8, <1>9, <1>10, <1>11, <1>12, <1>13, <1>14 DEF Next

-----------------------------------------------------------------------------
(* What runs is active, and was opened.                                    *)

(* An unlock is retained only for identities with a passcode.              *)
RetainedInv ==
  retained # None => /\ kind[retained] # "hardware"
                     /\ Protected(retained) => retained \in opened

(* Nobody's vault was prepared who is a token by now.                      *)
Prepared(c) == c.op = "unlock" /\ c.was = "passcode" => kind[c.id] # "hardware"
PreparedInv ==
  /\ \A c \in waiting : Prepared(c)
  /\ hold \in Holds => Prepared(hold)

RunInv ==
  /\ hold.at \in {"stopped", "resume", "start", "load"} => runtime = None
  /\ hold.at \notin {"stop", "undo"} /\ runtime # None =>
       runtime = active /\ locked # runtime

SwitchInv ==
  hold.op = "switch" /\ ~hold.again /\ hold.at \in {"start", "load", "after"} =>
    active = hold.id

Safe == RetainedInv /\ PreparedInv /\ RunInv /\ SwitchInv /\ OpenedBySecret

(* No step makes an identity a token.                                      *)
LEMMA KindStep ==
  ASSUME Typed, [Next]_vars, NEW i \in Ids, kind[i] # "hardware"
  PROVE  kind'[i] # "hardware"
BY UserTyped DEF Typed, Types, Rows, Next, vars, rowv, Transition, Begin, Proceed, Refuse,
   BeginSwitch,
   BeginReset, BeginAutoLock, BeginImport, DeleteIdentity, BeginRemove, CommitPasscode, CommitPlain,
   Reset, ResetRefused, Stop, Activate, ActivateToken, Present, RestartInit, AutoLocked, Imported,
   Removed, StartFails, NothingToStart, Start, Loads, LoadFails, Settle, RollBack, Resume, Resumed,
   SwitchFailed, Unlocked, Ends, AutoLockFires, TimePasses, Acquire, ProgressFinds, ProgressClears,
   TakeFence, AcquireMutation, AcquireRoutine, Land

(* A transition that goes on keeps its command, or is the switch that      *)
(* follows a removal.                                                      *)
Keeps ==
  hold' \in Holds => \/ hold'.op = "switch" /\ hold'.at = "begin"
                     \/ hold'.op = hold.op /\ hold'.id = hold.id /\ hold'.was = hold.was

LEMMA BeginSafe ==
  ASSUME Typed, Safe, Begin
  PROVE  Keeps /\ RetainedInv' /\ RunInv' /\ SwitchInv' /\ OpenedBySecret'
<1> USE DEF rowv, runv, keyv, askv, idlev, histv
<1>1. /\ hold.at = "begin" /\ hold \in Holds /\ Names(hold) /\ active \in Opt
      /\ kind \in [Ids -> Kinds] /\ retained \in Opt /\ runtime \in Opt /\ opened \subseteq Ids
  <2>1. hold.at = "begin" /\ Moves
    BY BeginTyped DEF Begin, Refuse, BeginSwitch, BeginReset, BeginAutoLock, BeginImport,
       DeleteIdentity,
           BeginRemove, CommitPasscode, CommitPlain, Is
  <2> QED BY <2>1 DEF Typed, Types, Named, Moves, Rows, Keys, Past
<1>2. ASSUME Done PROVE hold' = Free
  BY <1>2 DEF Done
<1> DEFINE Gone(to) == /\ hold' \in Holds /\ hold'.at = to /\ hold'.op = hold.op
                       /\ hold'.id = hold.id /\ hold'.was = hold.was
<1>3. /\ Goes("reset") => Gone("reset") /\ hold'.again = hold.again
      /\ Goes("stop") => Gone("stop") /\ hold'.again = hold.again
      /\ Goes("stopped") => Gone("stopped") /\ hold'.again = hold.again
      /\ Goes("undo") => Gone("undo") /\ hold'.again = hold.again
      /\ Goes("resume") => Gone("resume") /\ hold'.again = hold.again
      /\ Goes("start") => Gone("start") /\ hold'.again = hold.again
      /\ Goes("after") => Gone("after") /\ hold'.again = hold.again
      /\ Goes("failed") => Gone("failed") /\ hold'.again = hold.again
  <2>1. ASSUME NEW to \in Steps, Goes(to) PROVE Gone(to) /\ hold'.again = hold.again
    BY <1>1, <2>1, GoesType
  <2> QED BY <2>1 DEF Steps
<1>4. Free.at = "free" /\ Free.op = "free" /\ Free \notin Holds
  BY Distinct
<1>5. /\ hold' = [hold EXCEPT !.at = "start", !.again = TRUE] => Gone("start") /\ hold'.again
      /\ \A b \in BOOLEAN : hold' = [hold EXCEPT !.at = "load", !.right = b] =>
           Gone("load") /\ hold'.again = hold.again
      /\ hold' = [hold EXCEPT !.at = "reset", !.prev = active] => Gone("reset")
  BY <1>1 DEF Holds, Steps
<1>6. \A i \in Ids : Command("switch", i) \in Holds /\ Command("switch", i).op = "switch"
                     /\ Command("switch", i).at = "begin"
  <2>1. "switch" \in Ops /\ Ids \subseteq Opt
    BY DEF Ops, Opt
  <2> QED BY <2>1 DEF Command, Holds, Steps, Opt, NoFence, Fences, Kinds
<1>11. CASE Refuse
  <2>1. Keeps
    BY <1>1, <1>2, <1>3, <1>4, <1>5, <1>6, <1>11 DEF Refuse, Keeps, Is
  <2>2. RetainedInv'
    BY <1>1, <1>11 DEF Refuse, Safe, RetainedInv, Protected, RunInv, PreparedInv, Prepared, Is
  <2>3. RunInv' /\ SwitchInv'
    BY <1>1, <1>2, <1>3, <1>4, <1>5, <1>6, <1>11 DEF Refuse, Safe, RunInv, SwitchInv, Is, Names
  <2>4. OpenedBySecret'
    BY <1>1, <1>11 DEF Refuse, Safe, RetainedInv, RunInv, SwitchInv, OpenedBySecret, Protected, Is
  <2> QED BY <2>1, <2>2, <2>3, <2>4
<1>12. CASE BeginSwitch
  <2>1. Keeps
    BY <1>1, <1>2, <1>3, <1>4, <1>5, <1>6, <1>12 DEF BeginSwitch, Keeps, Is
  <2>2. RetainedInv'
    BY <1>1, <1>12 DEF BeginSwitch, Safe, RetainedInv, Protected, RunInv, PreparedInv, Prepared, Is
  <2>3. RunInv' /\ SwitchInv'
    BY <1>1, <1>2, <1>3, <1>4, <1>5, <1>6, <1>12 DEF BeginSwitch, Safe, RunInv, SwitchInv, Is, Names
  <2>4. OpenedBySecret'
    BY <1>1, <1>12 DEF BeginSwitch, Safe, RetainedInv, RunInv, SwitchInv, OpenedBySecret,
       Protected, Is
  <2> QED BY <2>1, <2>2, <2>3, <2>4
<1>13. CASE BeginReset
  <2>1. Keeps
    BY <1>1, <1>2, <1>3, <1>4, <1>5, <1>6, <1>13 DEF BeginReset, Keeps, Is
  <2>2. RetainedInv'
    BY <1>1, <1>13 DEF BeginReset, Safe, RetainedInv, Protected, RunInv, PreparedInv, Prepared, Is
  <2>3. RunInv' /\ SwitchInv'
    BY <1>1, <1>2, <1>3, <1>4, <1>5, <1>6, <1>13 DEF BeginReset, Safe, RunInv, SwitchInv, Is, Names
  <2>4. OpenedBySecret'
    BY <1>1, <1>13 DEF BeginReset, Safe, RetainedInv, RunInv, SwitchInv, OpenedBySecret,
       Protected, Is
  <2> QED BY <2>1, <2>2, <2>3, <2>4
<1>14. CASE BeginAutoLock
  <2>1. Keeps
    BY <1>1, <1>2, <1>3, <1>4, <1>5, <1>6, <1>14 DEF BeginAutoLock, Keeps, Is
  <2>2. RetainedInv'
    BY <1>1, <1>14 DEF BeginAutoLock, Safe, RetainedInv, Protected, RunInv, PreparedInv,
       Prepared, Is
  <2>3. RunInv' /\ SwitchInv'
    BY <1>1, <1>2, <1>3, <1>4, <1>5, <1>6, <1>14 DEF BeginAutoLock, Safe, RunInv, SwitchInv,
       Is, Names
  <2>4. OpenedBySecret'
    BY <1>1, <1>14 DEF BeginAutoLock, Safe, RetainedInv, RunInv, SwitchInv, OpenedBySecret,
       Protected, Is
  <2> QED BY <2>1, <2>2, <2>3, <2>4
<1>15. CASE BeginImport
  <2>1. Keeps
    BY <1>1, <1>2, <1>3, <1>4, <1>5, <1>6, <1>15 DEF BeginImport, Allowed, Exists, Keeps, Is
  <2>2. RetainedInv'
    BY <1>1, <1>15 DEF BeginImport, Allowed, Exists, Safe, RetainedInv, Protected, RunInv,
       PreparedInv, Prepared, Is
  <2>3. RunInv' /\ SwitchInv'
    BY <1>1, <1>2, <1>3, <1>4, <1>5, <1>6, <1>15 DEF BeginImport, Allowed, Exists, Safe,
       RunInv, SwitchInv, Is, Names
  <2>4. OpenedBySecret'
    BY <1>1, <1>15 DEF BeginImport, Allowed, Exists, Safe, RetainedInv, RunInv, SwitchInv,
       OpenedBySecret, Protected, Is
  <2> QED BY <2>1, <2>2, <2>3, <2>4
<1>16. CASE DeleteIdentity
  <2>1. Keeps
    BY <1>1, <1>2, <1>3, <1>4, <1>5, <1>6, <1>16 DEF DeleteIdentity, Drops, Keeps, Is
  <2>2. RetainedInv'
    BY <1>1, <1>16 DEF DeleteIdentity, Drops, Safe, RetainedInv, Protected, RunInv,
       PreparedInv, Prepared, Is
  <2>3. RunInv' /\ SwitchInv'
    BY <1>1, <1>2, <1>3, <1>4, <1>5, <1>6, <1>16 DEF DeleteIdentity, Drops, Safe, RunInv,
       SwitchInv, Is, Names
  <2>4. OpenedBySecret'
    BY <1>1, <1>16 DEF DeleteIdentity, Drops, Safe, RetainedInv, RunInv, SwitchInv,
       OpenedBySecret, Protected, Is
  <2> QED BY <2>1, <2>2, <2>3, <2>4
<1>17. CASE BeginRemove
  <2>1. Keeps
    BY <1>1, <1>2, <1>3, <1>4, <1>5, <1>6, <1>17 DEF BeginRemove, Drops, Live, Keeps, Is
  <2>a. UNCHANGED <<kind, retained, runtime, opened>>
        \/ /\ UNCHANGED <<runtime, opened>>
           /\ retained' \in {active, None} /\ (retained' # None => retained' = retained)
           /\ kind' = [kind EXCEPT ![hold.id] = "absent"] /\ ~Live(hold.id)
    BY <1>17 DEF BeginRemove, Drops
  <2>b. ASSUME NEW i \in Ids, i # hold.id, kind' = [kind EXCEPT ![hold.id] = "absent"]
        PROVE  kind'[i] = kind[i]
    BY <1>1, <2>b
  <2>2. RetainedInv'
    <3>1. CASE UNCHANGED <<kind, retained, runtime, opened>>
      BY <3>1 DEF Safe, RetainedInv, Protected
    <3>2. CASE retained' # None /\ ~(UNCHANGED kind)
      BY <1>1, <2>a, <2>b, <3>2 DEF Live, Safe, RetainedInv, Protected, Opt
    <3>3. CASE retained' = None
      BY <3>3 DEF RetainedInv
    <3> QED BY <2>a, <3>1, <3>2, <3>3 DEF Safe, RetainedInv, Protected
  <2>3. RunInv' /\ SwitchInv'
    BY <1>1, <1>2, <1>3, <1>4, <1>5, <1>6, <1>17 DEF BeginRemove, Drops, Live, Safe, RunInv,
       SwitchInv, Is, Names
  <2>4. OpenedBySecret'
    <3>1. CASE UNCHANGED kind
      BY <2>a, <3>1 DEF Safe, OpenedBySecret, Protected
    <3>2. CASE runtime # None /\ ~(UNCHANGED kind)
      BY <1>1, <2>a, <2>b, <3>2 DEF Live, Safe, OpenedBySecret, Protected, Opt
    <3>3. CASE runtime = None
      BY <2>a, <3>3 DEF OpenedBySecret
    <3> QED BY <3>1, <3>2, <3>3
  <2> QED BY <2>1, <2>2, <2>3, <2>4
<1>18. CASE CommitPasscode
  <2>1. Keeps
    BY <1>1, <1>2, <1>3, <1>4, <1>5, <1>6, <1>18 DEF CommitPasscode, Keeps, Is
  <2>2. RetainedInv'
    BY <1>1, <1>18 DEF CommitPasscode, Safe, RetainedInv, Protected, RunInv,
       PreparedInv, Prepared, Is
  <2>3. RunInv' /\ SwitchInv'
    BY <1>1, <1>2, <1>3, <1>4, <1>5, <1>6, <1>18 DEF CommitPasscode, Safe, RunInv,
       SwitchInv, Is, Names
  <2>4. OpenedBySecret'
    BY <1>1, <1>18 DEF CommitPasscode, Safe, RetainedInv, RunInv, SwitchInv,
       OpenedBySecret, Protected, Is
  <2> QED BY <2>1, <2>2, <2>3, <2>4
<1>19. CASE CommitPlain
  <2>1. Keeps
    BY <1>1, <1>2, <1>3, <1>4, <1>5, <1>6, <1>19 DEF CommitPlain, Keeps, Is
  <2>2. RetainedInv'
    BY <1>1, <1>19 DEF CommitPlain, Safe, RetainedInv, Protected, RunInv, PreparedInv, Prepared, Is
  <2>3. RunInv' /\ SwitchInv'
    BY <1>1, <1>2, <1>3, <1>4, <1>5, <1>6, <1>19 DEF CommitPlain, Safe, RunInv, SwitchInv, Is, Names
  <2>4. OpenedBySecret'
    BY <1>1, <1>19 DEF CommitPlain, Safe, RetainedInv, RunInv, SwitchInv, OpenedBySecret,
       Protected, Is
  <2> QED BY <2>1, <2>2, <2>3, <2>4
<1> QED BY <1>11, <1>12, <1>13, <1>14, <1>15, <1>16, <1>17, <1>18, <1>19 DEF Begin

LEMMA ProceedSafe ==
  ASSUME Typed, Safe, Proceed
  PROVE  Keeps /\ RetainedInv' /\ RunInv' /\ SwitchInv' /\ OpenedBySecret'
<1> USE DEF rowv, runv, keyv, askv, idlev, histv
<1>1. /\ hold.at \in Steps \ {"begin"} /\ hold \in Holds /\ Names(hold) /\ active \in Opt
      /\ kind \in [Ids -> Kinds] /\ retained \in Opt /\ runtime \in Opt /\ opened \subseteq Ids
      /\ PinInv /\ None \notin Ids /\ locked \in Opt
  <2>1. hold.at \in Steps \ {"begin"}
    BY DEF Proceed, Reset, ResetRefused, Stop, Activate, ActivateToken, Present, RestartInit,
           AutoLocked, Imported, Removed, StartFails, NothingToStart, Start, Loads, LoadFails,
           Settle, RollBack, Resume, Resumed, SwitchFailed, Unlocked, Ends, Is, Steps
  <2>2. Moves
    BY ProceedTyped
  <2> QED BY <2>1, <2>2, SessionAssumption DEF Typed, Types, Named, Moves, Rows, Keys, Past
<1>2. ASSUME Done PROVE hold' = Free
  BY <1>2 DEF Done
<1> DEFINE Gone(to) == /\ hold' \in Holds /\ hold'.at = to /\ hold'.op = hold.op
                       /\ hold'.id = hold.id /\ hold'.was = hold.was
<1>3. /\ Goes("reset") => Gone("reset") /\ hold'.again = hold.again
      /\ Goes("stop") => Gone("stop") /\ hold'.again = hold.again
      /\ Goes("stopped") => Gone("stopped") /\ hold'.again = hold.again
      /\ Goes("undo") => Gone("undo") /\ hold'.again = hold.again
      /\ Goes("resume") => Gone("resume") /\ hold'.again = hold.again
      /\ Goes("start") => Gone("start") /\ hold'.again = hold.again
      /\ Goes("after") => Gone("after") /\ hold'.again = hold.again
      /\ Goes("failed") => Gone("failed") /\ hold'.again = hold.again
  <2>1. ASSUME NEW to \in Steps, Goes(to) PROVE Gone(to) /\ hold'.again = hold.again
    BY <1>1, <2>1, GoesType
  <2> QED BY <2>1 DEF Steps
<1>4. Free.at = "free" /\ Free.op = "free" /\ Free \notin Holds
  BY Distinct
<1>5. /\ hold' = [hold EXCEPT !.at = "start", !.again = TRUE] => Gone("start") /\ hold'.again
      /\ \A b \in BOOLEAN : hold' = [hold EXCEPT !.at = "load", !.right = b] =>
           Gone("load") /\ hold'.again = hold.again
      /\ hold' = [hold EXCEPT !.at = "reset", !.prev = active] => Gone("reset")
  BY <1>1 DEF Holds, Steps
<1>6. \A i \in Ids : Command("switch", i) \in Holds /\ Command("switch", i).op = "switch"
                     /\ Command("switch", i).at = "begin"
  <2>1. "switch" \in Ops /\ Ids \subseteq Opt
    BY DEF Ops, Opt
  <2> QED BY <2>1 DEF Command, Holds, Steps, Opt, NoFence, Fences, Kinds
<1>11. CASE Reset
  <2>1. Keeps
    BY <1>1, <1>2, <1>3, <1>4, <1>5, <1>6, <1>11 DEF Reset, Keeps, Is
  <2>2. RetainedInv'
    BY <1>1, <1>11 DEF Reset, Safe, RetainedInv, Protected, RunInv, PreparedInv, Prepared, Is
  <2>3. RunInv' /\ SwitchInv'
    BY <1>1, <1>2, <1>3, <1>4, <1>5, <1>6, <1>11 DEF Reset, Safe, RunInv, SwitchInv, Is, Names
  <2>4. OpenedBySecret'
    BY <1>1, <1>11 DEF Reset, Safe, RetainedInv, RunInv, SwitchInv, OpenedBySecret, Protected, Is
  <2> QED BY <2>1, <2>2, <2>3, <2>4
<1>12. CASE ResetRefused
  <2>1. Keeps
    BY <1>1, <1>2, <1>3, <1>4, <1>5, <1>6, <1>12 DEF ResetRefused, Done, Keeps, Is
  <2>2. RetainedInv'
    BY <1>1, <1>12 DEF ResetRefused, Done, Safe, RetainedInv, Protected, RunInv,
       PreparedInv, Prepared, Is
  <2>3. RunInv' /\ SwitchInv'
    BY <1>1, <1>2, <1>3, <1>4, <1>5, <1>6, <1>12 DEF ResetRefused, Done, Safe, RunInv,
       SwitchInv, Is, Names
  <2>4. OpenedBySecret'
    BY <1>1, <1>12 DEF ResetRefused, Done, Safe, RetainedInv, RunInv, SwitchInv,
       OpenedBySecret, Protected, Is
  <2> QED BY <2>1, <2>2, <2>3, <2>4
<1>13. CASE Stop
  <2>1. Keeps
    BY <1>1, <1>2, <1>3, <1>4, <1>5, <1>6, <1>13 DEF Stop, Keeps, Is
  <2>2. RetainedInv'
    BY <1>1, <1>13 DEF Stop, Safe, RetainedInv, Protected, RunInv, PreparedInv, Prepared, Is
  <2>3. RunInv' /\ SwitchInv'
    BY <1>1, <1>2, <1>3, <1>4, <1>5, <1>6, <1>13 DEF Stop, Safe, RunInv, SwitchInv, Is, Names
  <2>4. OpenedBySecret'
    BY <1>1, <1>13 DEF Stop, Safe, RetainedInv, RunInv, SwitchInv, OpenedBySecret, Protected, Is
  <2> QED BY <2>1, <2>2, <2>3, <2>4
<1>14. CASE Activate
  <2>1. Keeps
    BY <1>1, <1>2, <1>3, <1>4, <1>5, <1>6, <1>14 DEF Activate, Keeps, Is
  <2>2. RetainedInv'
    BY <1>1, <1>14 DEF Activate, Safe, RetainedInv, Protected, RunInv, PreparedInv, Prepared, Is
  <2>3. RunInv' /\ SwitchInv'
    BY <1>1, <1>2, <1>3, <1>4, <1>5, <1>6, <1>14 DEF Activate, Safe, RunInv, SwitchInv, Is, Names
  <2>4. OpenedBySecret'
    BY <1>1, <1>14 DEF Activate, Safe, RetainedInv, RunInv, SwitchInv, OpenedBySecret, Protected, Is
  <2> QED BY <2>1, <2>2, <2>3, <2>4
<1>15. CASE ActivateToken
  <2>1. Keeps
    BY <1>1, <1>2, <1>3, <1>4, <1>5, <1>6, <1>15 DEF ActivateToken, Drops, Keeps, Is
  <2>2. RetainedInv'
    BY <1>1, <1>15 DEF ActivateToken, Drops, Safe, RetainedInv, Protected, RunInv,
       PreparedInv, Prepared, Is
  <2>3. RunInv' /\ SwitchInv'
    BY <1>1, <1>2, <1>3, <1>4, <1>5, <1>6, <1>15 DEF ActivateToken, Drops, Safe, RunInv,
       SwitchInv, Is, Names
  <2>4. OpenedBySecret'
    BY <1>1, <1>15 DEF ActivateToken, Drops, Safe, RetainedInv, RunInv, SwitchInv,
       OpenedBySecret, Protected, Is
  <2> QED BY <2>1, <2>2, <2>3, <2>4
<1>16. CASE Present
  <2>1. Keeps
    BY <1>1, <1>2, <1>3, <1>4, <1>5, <1>6, <1>16 DEF Present, Keeps, Is
  <2>2. RetainedInv'
    BY <1>1, <1>16 DEF Present, Safe, RetainedInv, Protected, RunInv, PreparedInv,
       Prepared, Is
  <2>3. RunInv' /\ SwitchInv'
    BY <1>1, <1>2, <1>3, <1>4, <1>5, <1>6, <1>16 DEF Present, Safe, RunInv,
       SwitchInv, Is, Names
  <2>4. OpenedBySecret'
    BY <1>1, <1>16 DEF Present, Safe, RetainedInv, RunInv, SwitchInv, OpenedBySecret,
       Protected, Is
  <2> QED BY <2>1, <2>2, <2>3, <2>4
<1>17. CASE RestartInit
  <2>1. Keeps
    BY <1>1, <1>2, <1>3, <1>4, <1>5, <1>6, <1>17 DEF RestartInit, Keeps, Is
  <2>2. RetainedInv'
    BY <1>1, <1>17 DEF RestartInit, Safe, RetainedInv, Protected, RunInv, PreparedInv, Prepared, Is
  <2>3. RunInv' /\ SwitchInv'
    BY <1>1, <1>2, <1>3, <1>4, <1>5, <1>6, <1>17 DEF RestartInit, Safe, RunInv, SwitchInv, Is, Names
  <2>4. OpenedBySecret'
    BY <1>1, <1>17 DEF RestartInit, Safe, RetainedInv, RunInv, SwitchInv, OpenedBySecret,
       Protected, Is
  <2> QED BY <2>1, <2>2, <2>3, <2>4
<1>18. CASE AutoLocked
  <2>1. Keeps
    BY <1>1, <1>2, <1>3, <1>4, <1>5, <1>6, <1>18 DEF AutoLocked, Drops, Keeps, Is
  <2>2. RetainedInv'
    BY <1>1, <1>18 DEF AutoLocked, Drops, Safe, RetainedInv, Protected, RunInv, PreparedInv,
       Prepared, Is
  <2>3. RunInv' /\ SwitchInv'
    BY <1>1, <1>2, <1>3, <1>4, <1>5, <1>6, <1>18 DEF AutoLocked, Drops, Safe, RunInv,
       SwitchInv, Is, Names
  <2>4. OpenedBySecret'
    BY <1>1, <1>18 DEF AutoLocked, Drops, Safe, RetainedInv, RunInv, SwitchInv,
       OpenedBySecret, Protected, Is
  <2> QED BY <2>1, <2>2, <2>3, <2>4
<1>19. CASE Imported
  <2>1. Keeps
    BY <1>1, <1>2, <1>3, <1>4, <1>5, <1>6, <1>19 DEF Imported, Keeps, Is
  <2>2. RetainedInv'
    BY <1>1, <1>19 DEF Imported, Safe, RetainedInv, Protected, RunInv, PreparedInv, Prepared, Is
  <2>3. RunInv' /\ SwitchInv'
    BY <1>1, <1>2, <1>3, <1>4, <1>5, <1>6, <1>19 DEF Imported, Safe, RunInv, SwitchInv, Is, Names
  <2>4. OpenedBySecret'
    BY <1>1, <1>19 DEF Imported, Safe, RetainedInv, RunInv, SwitchInv, OpenedBySecret, Protected, Is
  <2> QED BY <2>1, <2>2, <2>3, <2>4
<1>20. CASE Removed
  <2>1. Keeps
    BY <1>1, <1>2, <1>3, <1>4, <1>5, <1>6, <1>20 DEF Removed, Drops, Keeps, Is
  <2>2. RetainedInv'
    BY <1>1, <1>20 DEF Removed, Drops, Safe, RetainedInv, Protected, RunInv, PreparedInv,
       Prepared, Is
  <2>3. RunInv' /\ SwitchInv'
    BY <1>1, <1>2, <1>3, <1>4, <1>5, <1>6, <1>20 DEF Removed, Drops, Safe, RunInv,
       SwitchInv, Is, Names
  <2>4. OpenedBySecret'
    BY <1>1, <1>20 DEF Removed, Drops, Safe, RetainedInv, RunInv, SwitchInv, OpenedBySecret,
       Protected, Is
  <2> QED BY <2>1, <2>2, <2>3, <2>4
<1>21. CASE StartFails
  <2>1. Keeps
    BY <1>1, <1>2, <1>3, <1>4, <1>5, <1>6, <1>21 DEF StartFails, Failed, Keeps, Is
  <2>2. RetainedInv'
    BY <1>1, <1>21 DEF StartFails, Failed, Safe, RetainedInv, Protected, RunInv,
       PreparedInv, Prepared, Is
  <2>3. RunInv' /\ SwitchInv'
    BY <1>1, <1>2, <1>3, <1>4, <1>5, <1>6, <1>21 DEF StartFails, Failed, Safe, RunInv,
       SwitchInv, Is, Names
  <2>4. OpenedBySecret'
    BY <1>1, <1>21 DEF StartFails, Failed, Safe, RetainedInv, RunInv, SwitchInv,
       OpenedBySecret, Protected, Is
  <2> QED BY <2>1, <2>2, <2>3, <2>4
<1>22. CASE NothingToStart
  <2>1. Keeps
    BY <1>1, <1>2, <1>3, <1>4, <1>5, <1>6, <1>22 DEF NothingToStart, Keeps, Is
  <2>2. RetainedInv'
    BY <1>1, <1>22 DEF NothingToStart, Safe, RetainedInv, Protected, RunInv, PreparedInv,
       Prepared, Is
  <2>3. RunInv' /\ SwitchInv'
    BY <1>1, <1>2, <1>3, <1>4, <1>5, <1>6, <1>22 DEF NothingToStart, Safe, RunInv,
       SwitchInv, Is, Names
  <2>4. OpenedBySecret'
    BY <1>1, <1>22 DEF NothingToStart, Safe, RetainedInv, RunInv, SwitchInv, OpenedBySecret,
       Protected, Is
  <2> QED BY <2>1, <2>2, <2>3, <2>4
<1>23. ASSUME NEW i \in Ids, Start(i)
       PROVE  Keeps /\ RetainedInv' /\ RunInv' /\ SwitchInv' /\ OpenedBySecret'
  <2>1. Keeps
    BY <1>1, <1>2, <1>3, <1>4, <1>5, <1>6, <1>23 DEF Start, Others, Keeps, Is
  <2>2. RetainedInv'
    BY <1>1, <1>23 DEF Start, Others, Safe, RetainedInv, Protected, RunInv, PreparedInv,
       Prepared, Is
  <2>3. RunInv' /\ SwitchInv'
    BY <1>1, <1>2, <1>3, <1>4, <1>5, <1>6, <1>23 DEF Start, Others, Safe, RunInv, SwitchInv,
       Is, Names
  <2>4. OpenedBySecret'
    BY <1>1, <1>23 DEF Start, Others, Safe, RetainedInv, RunInv, SwitchInv, OpenedBySecret,
       Protected, Is
  <2> QED BY <2>1, <2>2, <2>3, <2>4
<1>24. CASE Loads
  <2>1. Keeps
    BY <1>1, <1>2, <1>3, <1>4, <1>5, <1>6, <1>24 DEF Loads, Others, Opens, PinInv, Keeps, Is
  <2>2. RetainedInv'
    BY <1>1, <1>24 DEF Loads, Others, Opens, PinInv, Safe, RetainedInv, Protected, RunInv,
       PreparedInv, Prepared, Is
  <2>3. RunInv' /\ SwitchInv'
    BY <1>1, <1>2, <1>3, <1>4, <1>5, <1>6, <1>24 DEF Loads, Others, Opens, PinInv, Safe, RunInv,
       SwitchInv, Is, Names
  <2>4. OpenedBySecret'
    BY <1>1, <1>24 DEF Loads, Others, Opens, PinInv, Safe, RetainedInv, RunInv, SwitchInv,
       OpenedBySecret, Protected, Is
  <2> QED BY <2>1, <2>2, <2>3, <2>4
<1>25. CASE LoadFails
  <2>1. Keeps
    BY <1>1, <1>2, <1>3, <1>4, <1>5, <1>6, <1>25 DEF LoadFails, Others, Opens, Failed, Keeps, Is
  <2>2. RetainedInv'
    BY <1>1, <1>25 DEF LoadFails, Others, Opens, Failed, Safe, RetainedInv, Protected,
       RunInv, PreparedInv,
       Prepared, Is
  <2>3. RunInv' /\ SwitchInv'
    BY <1>1, <1>2, <1>3, <1>4, <1>5, <1>6, <1>25 DEF LoadFails, Others, Opens, Failed, Safe, RunInv,
       SwitchInv, Is, Names
  <2>4. OpenedBySecret'
    BY <1>1, <1>25 DEF LoadFails, Others, Opens, Failed, Safe, RetainedInv, RunInv, SwitchInv,
       OpenedBySecret, Protected, Is
  <2> QED BY <2>1, <2>2, <2>3, <2>4
<1>26. CASE Settle
  <2>1. Keeps
    BY <1>1, <1>2, <1>3, <1>4, <1>5, <1>6, <1>26 DEF Settle, Drops, SwitchEnds, Keeps, Is
  <2>2. RetainedInv'
    BY <1>1, <1>26 DEF Settle, Drops, SwitchEnds, Safe, RetainedInv, Protected, RunInv,
       PreparedInv, Prepared, Is
  <2>3. RunInv' /\ SwitchInv'
    BY <1>1, <1>2, <1>3, <1>4, <1>5, <1>6, <1>26 DEF Settle, Drops, SwitchEnds, Safe,
       RunInv, SwitchInv, Is, Names
  <2>4. OpenedBySecret'
    BY <1>1, <1>26 DEF Settle, Drops, SwitchEnds, Safe, RetainedInv, RunInv, SwitchInv,
       OpenedBySecret, Protected, Is
  <2> QED BY <2>1, <2>2, <2>3, <2>4
<1>27. CASE RollBack
  <2>1. Keeps
    BY <1>1, <1>2, <1>3, <1>4, <1>5, <1>6, <1>27 DEF RollBack, Keeps, Is
  <2>2. RetainedInv'
    BY <1>1, <1>27 DEF RollBack, Safe, RetainedInv, Protected, RunInv, PreparedInv, Prepared, Is
  <2>3. RunInv' /\ SwitchInv'
    BY <1>1, <1>2, <1>3, <1>4, <1>5, <1>6, <1>27 DEF RollBack, Safe, RunInv, SwitchInv, Is, Names
  <2>4. OpenedBySecret'
    BY <1>1, <1>27 DEF RollBack, Safe, RetainedInv, RunInv, SwitchInv, OpenedBySecret, Protected, Is
  <2> QED BY <2>1, <2>2, <2>3, <2>4
<1>28. CASE Resume
  <2>1. Keeps
    BY <1>1, <1>2, <1>3, <1>4, <1>5, <1>6, <1>28 DEF Resume, Keeps, Is
  <2>2. RetainedInv'
    BY <1>1, <1>28 DEF Resume, Safe, RetainedInv, Protected, RunInv, PreparedInv, Prepared, Is
  <2>3. RunInv' /\ SwitchInv'
    BY <1>1, <1>2, <1>3, <1>4, <1>5, <1>6, <1>28 DEF Resume, Safe, RunInv, SwitchInv, Is, Names
  <2>4. OpenedBySecret'
    BY <1>1, <1>28 DEF Resume, Safe, RetainedInv, RunInv, SwitchInv, OpenedBySecret, Protected, Is
  <2> QED BY <2>1, <2>2, <2>3, <2>4
<1>29. CASE Resumed
  <2>1. Keeps
    BY <1>1, <1>2, <1>3, <1>4, <1>5, <1>6, <1>29 DEF Resumed, Keeps, Is
  <2>2. RetainedInv'
    BY <1>1, <1>29 DEF Resumed, Safe, RetainedInv, Protected, RunInv, PreparedInv, Prepared, Is
  <2>3. RunInv' /\ SwitchInv'
    BY <1>1, <1>2, <1>3, <1>4, <1>5, <1>6, <1>29 DEF Resumed, Safe, RunInv, SwitchInv, Is, Names
  <2>4. OpenedBySecret'
    BY <1>1, <1>29 DEF Resumed, Safe, RetainedInv, RunInv, SwitchInv, OpenedBySecret, Protected, Is
  <2> QED BY <2>1, <2>2, <2>3, <2>4
<1>30. CASE SwitchFailed
  <2>1. Keeps
    BY <1>1, <1>2, <1>3, <1>4, <1>5, <1>6, <1>30 DEF SwitchFailed, SwitchEnds, Keeps, Is
  <2>2. RetainedInv'
    BY <1>1, <1>30 DEF SwitchFailed, SwitchEnds, Safe, RetainedInv, Protected, RunInv,
       PreparedInv, Prepared, Is
  <2>3. RunInv' /\ SwitchInv'
    BY <1>1, <1>2, <1>3, <1>4, <1>5, <1>6, <1>30 DEF SwitchFailed, SwitchEnds, Safe, RunInv,
       SwitchInv, Is, Names
  <2>4. OpenedBySecret'
    BY <1>1, <1>30 DEF SwitchFailed, SwitchEnds, Safe, RetainedInv, RunInv, SwitchInv,
       OpenedBySecret, Protected, Is
  <2> QED BY <2>1, <2>2, <2>3, <2>4
<1>31. CASE Unlocked
  <2>1. Keeps
    BY <1>1, <1>2, <1>3, <1>4, <1>5, <1>6, <1>31 DEF Unlocked, SwitchEnds, Keeps, Is
  <2>2. RetainedInv'
    BY <1>1, <1>31 DEF Unlocked, SwitchEnds, Safe, RetainedInv, Protected, RunInv,
       PreparedInv, Prepared, Is
  <2>3. RunInv' /\ SwitchInv'
    BY <1>1, <1>2, <1>3, <1>4, <1>5, <1>6, <1>31 DEF Unlocked, SwitchEnds, Safe, RunInv,
       SwitchInv, Is, Names
  <2>4. OpenedBySecret'
    BY <1>1, <1>31 DEF Unlocked, SwitchEnds, Safe, RetainedInv, RunInv, SwitchInv,
       OpenedBySecret, Protected, Is
  <2> QED BY <2>1, <2>2, <2>3, <2>4
<1>32. ASSUME NEW op, Ends(op)
       PROVE  Keeps /\ RetainedInv' /\ RunInv' /\ SwitchInv' /\ OpenedBySecret'
  <2>1. Keeps
    BY <1>1, <1>2, <1>3, <1>4, <1>5, <1>6, <1>32 DEF Ends, Keeps, Is
  <2>2. RetainedInv'
    BY <1>1, <1>32 DEF Ends, Safe, RetainedInv, Protected, RunInv, PreparedInv, Prepared, Is
  <2>3. RunInv' /\ SwitchInv'
    BY <1>1, <1>2, <1>3, <1>4, <1>5, <1>6, <1>32 DEF Ends, Safe, RunInv, SwitchInv, Is, Names
  <2>4. OpenedBySecret'
    BY <1>1, <1>32 DEF Ends, Safe, RetainedInv, RunInv, SwitchInv, OpenedBySecret, Protected, Is
  <2> QED BY <2>1, <2>2, <2>3, <2>4
<1> QED BY <1>11, <1>12, <1>13, <1>14, <1>15, <1>16, <1>17, <1>18, <1>19, <1>20, <1>21,
    <1>22, <1>23, <1>24, <1>25, <1>26, <1>27, <1>28, <1>29, <1>30, <1>31, <1>32 DEF Proceed

LEMMA QuietSafe ==
  ASSUME Typed, Safe, Quiet
  PROVE  RetainedInv' /\ RunInv' /\ SwitchInv' /\ OpenedBySecret' /\ UNCHANGED kind
         /\ (hold' = hold \/ hold' \in waiting \union {Free, Served})
<1> USE DEF rowv, runv, keyv, askv, idlev, histv
<1>1. CASE AutoLockFires \/ TimePasses \/ ProgressFinds \/ ProgressClears
  BY <1>1 DEF AutoLockFires, TimePasses, ProgressFinds, ProgressClears, Safe, RetainedInv, RunInv,
              SwitchInv, OpenedBySecret, Protected
<1>2. CASE TakeFence \/ AcquireMutation \/ AcquireRoutine \/ Land \/ \E c \in waiting : Acquire(c)
  <2>1. UNCHANGED <<active, runtime, kind, locked, retained, opened>>
    BY <1>2 DEF TakeFence, AcquireMutation, AcquireRoutine, Land, Acquire
  <2>2. hold' = hold \/ hold' \in {Free, Served} \/ (hold' \in waiting /\ hold'.at = "begin")
    BY <1>2 DEF TakeFence, AcquireMutation, AcquireRoutine, Land, Acquire, Accepts, Rejects,
       Typed, Named
  <2>3. hold' # hold => hold.at \in {"free", "request"}
    BY <1>2, Distinct DEF TakeFence, AcquireMutation, AcquireRoutine, Land, Acquire,
       Accepts, Rejects,
                          Typed, Serving
  <2>4. RunInv' /\ SwitchInv'
    BY <2>1, <2>2, <2>3, Distinct DEF Safe, RunInv, SwitchInv
  <2> QED BY <2>1, <2>2, <2>4 DEF Safe, RetainedInv, OpenedBySecret, Protected
<1> QED BY <1>1, <1>2 DEF Quiet

LEMMA SafeStep ==
  ASSUME Typed, Safe, [Next]_vars
  PROVE  Safe'
<1>1. ASSUME NEW c \in Holds, Prepared(c), Names(c) PROVE Prepared(c)'
  BY <1>1, KindStep DEF Prepared, Names
<1>2. /\ waiting \subseteq Holds /\ \A c \in waiting : Names(c) /\ Prepared(c)
      /\ hold \in Holds => Names(hold) /\ Prepared(hold)
      /\ hold \in Holds \union {Free, Served}
  BY DEF Typed, Types, Locks, Named, Safe, PreparedInv
<1>3. /\ \A c \in waiting : Prepared(c)'
      /\ hold \in Holds => ((hold.op = "unlock" /\ hold.was = "passcode") => kind'[hold.id] # "hardware")
  BY <1>1, <1>2, KindStep DEF Prepared, Names
<1>4. CASE UNCHANGED vars
  BY <1>4 DEF vars, rowv, runv, keyv, askv, idlev, histv, Safe, RetainedInv, PreparedInv, Prepared,
              RunInv, SwitchInv, OpenedBySecret, Protected
<1>5. CASE User
  <2>1. UNCHANGED <<active, runtime, kind, locked, retained, opened, hold>>
        /\ \A c \in waiting' \ waiting : Prepared(c)'
    BY <1>5, UserTyped DEF rowv, runv, keyv, histv, Prepared
  <2>2. PreparedInv'
    BY <1>2, <1>3, <2>1 DEF PreparedInv, Prepared
  <2> QED BY <2>1, <2>2 DEF Safe, RetainedInv, RunInv, SwitchInv, OpenedBySecret, Protected
<1>6. CASE Transition
  <2>1. Keeps /\ RetainedInv' /\ RunInv' /\ SwitchInv' /\ OpenedBySecret'
    BY <1>6, BeginSafe, ProceedSafe DEF Transition
  <2>2. hold \in Holds /\ waiting' = waiting
    BY <1>6, BeginTyped, ProceedTyped DEF Transition, Moves
  <2>3. PreparedInv'
    BY <1>3, <2>1, <2>2 DEF PreparedInv, Prepared, Keeps
  <2> QED BY <2>1, <2>3 DEF Safe
<1>7. CASE Quiet
  <2>1. /\ RetainedInv' /\ RunInv' /\ SwitchInv' /\ OpenedBySecret' /\ UNCHANGED kind
        /\ hold' = hold \/ hold' \in waiting \union {Free, Served}
    BY <1>7, QuietSafe
  <2>2. \A c \in waiting' \ waiting : c.op = "autolock"
    BY <1>7 DEF Quiet, AutoLockFires, TimePasses, ProgressFinds, ProgressClears, Acquire, TakeFence,
                AcquireMutation, AcquireRoutine, Land, Command, askv
  <2>3. PreparedInv'
    BY <1>2, <1>3, <2>1, <2>2, Distinct DEF PreparedInv, Prepared
  <2> QED BY <2>1, <2>3 DEF Safe
<1> QED BY <1>4, <1>5, <1>6, <1>7 DEF Next, Quiet

-----------------------------------------------------------------------------
(* What a failed switch brings back.                                       *)

Switching == hold.op \in {"switch", "activate"}

(* A transition goes back only in a switch, to an identity there was.      *)
AgainInv ==
  hold \in Holds =>
    /\ hold.again => /\ Switching /\ hold.prev # None
                     /\ hold.at \in {"start", "load", "after", "failed"}
    /\ Switching \/ hold.prev = None
    /\ hold.at = "begin" => hold.prev = None
    /\ hold.at \in {"undo", "resume", "failed"} => Switching
    /\ hold.at = "undo" => hold.op = "switch" /\ active = hold.id

(* The session a switch leaves is the active identity, its retained unlock *)
(* and its manager, if there was one, and nobody touches the unlock.       *)
Leaves ==
  LET was == before.session IN
  was[1] = hold.prev /\ was[3] = retained /\ was[2] \in {None, hold.prev}

Back ==
  LET was == before.session IN
  was[2] # None /\ (Protected(was[2]) => was[3] = was[2]) =>
    runtime = was[2] /\ retained = was[3] /\ locked = None

RestoreInv ==
  Switching =>
    /\ hold.at = "reset" => hold.prev = active
    /\ hold.at \in {"stop", "stopped"} => Leaves /\ active = hold.prev
    /\ hold.op = "switch" /\ ~hold.again /\ hold.at \in {"start", "load", "after"} => Leaves
    /\ hold.at \in {"undo", "resume"} => Leaves /\ active \in {hold.prev, hold.id}
    /\ hold.again /\ hold.at \in {"start", "load"} =>
         Leaves /\ active = hold.prev /\ pin = None
    /\ (hold.again /\ hold.at = "after") \/ hold.at = "failed" =>
         before.failed \/ (active = before.session[1] /\ Back)

(* Where a step of a transition leaves the lock.                           *)
Onward(to) ==
  /\ hold' \in Holds /\ hold'.at = to /\ hold'.op = hold.op /\ hold'.id = hold.id
  /\ hold'.num = hold.num /\ hold'.was = hold.was

Stays == hold'.again = hold.again /\ hold'.prev = hold.prev

Moved ==
  /\ Goes("reset") => Onward("reset") /\ Stays
  /\ Goes("stop") => Onward("stop") /\ Stays
  /\ Goes("stopped") => Onward("stopped") /\ Stays
  /\ Goes("undo") => Onward("undo") /\ Stays
  /\ Goes("resume") => Onward("resume") /\ Stays
  /\ Goes("start") => Onward("start") /\ Stays
  /\ Goes("after") => Onward("after") /\ Stays
  /\ Goes("failed") => Onward("failed") /\ Stays
  /\ hold' = [hold EXCEPT !.at = "start", !.again = TRUE] =>
       Onward("start") /\ hold'.again /\ hold'.prev = hold.prev
  /\ \A b \in BOOLEAN : hold' = [hold EXCEPT !.at = "load", !.right = b] =>
       Onward("load") /\ Stays
  /\ hold' = [hold EXCEPT !.at = "reset", !.prev = active] =>
       Onward("reset") /\ hold'.again = hold.again /\ hold'.prev = active

LEMMA Onwards ==
  ASSUME hold \in Holds, active \in Opt
  PROVE  Moved
<1>1. ASSUME NEW to \in Steps, Goes(to)
      PROVE  Onward(to) /\ Stays
  BY <1>1 DEF Goes, Onward, Stays, Holds
<1> QED BY <1>1 DEF Moved, Onward, Stays, Holds, Steps

LEMMA BeginRestores ==
  ASSUME Typed, Safe, AgainInv, RestoreInv, Begin
  PROVE  AgainInv' /\ RestoreInv'
<1> USE DEF rowv, runv, keyv, askv, idlev, histv, Moved, Stays
<1>1. /\ hold.at \in Steps /\ hold \in Holds /\ active \in Opt /\ kind \in [Ids -> Kinds]
      /\ retained \in Opt /\ runtime \in Opt /\ Names(hold) /\ None \notin Ids
      /\ before \in [session : Opt \X Opt \X Opt, failed : BOOLEAN]
  <2>1. Moves
    BY BeginTyped, ProceedTyped
  <2> QED BY <2>1, SessionAssumption DEF Typed, Types, Named, Moves, Rows, Keys, Past, Holds
<1>2. ASSUME Done PROVE hold' = Free
  BY <1>2 DEF Done
<1>3. Moved
  BY <1>1, Onwards
<1>4. Free.at = "free" /\ Free.op = "free" /\ Free \notin Holds
  BY Distinct
<1>6. \A i \in Ids : Command("switch", i) \in Holds /\ Command("switch", i).op = "switch"
                     /\ Command("switch", i).at = "begin" /\ Blank(Command("switch", i))
  <2>1. "switch" \in Ops /\ Ids \subseteq Opt
    BY DEF Ops, Opt
  <2> QED BY <2>1 DEF Command, Holds, Steps, Opt, NoFence, Fences, Kinds, Blank
<1>11. CASE Refuse
  <2>1. AgainInv'
    BY <1>1, <1>2, <1>3, <1>4, <1>6, <1>11 DEF Refuse, AgainInv, Switching, Onward, Blank,
       Is, Safe, SwitchInv
  <2>2. RestoreInv'
    BY <1>1, <1>2, <1>3, <1>4, <1>6, <1>11 DEF Refuse, AgainInv, RestoreInv, Leaves, Back,
       Switching, Onward, Blank, Is, Safe, RunInv, SwitchInv, PinInv, Typed, Protected
  <2> QED BY <2>1, <2>2
<1>12. CASE BeginSwitch
  <2>1. AgainInv'
    BY <1>1, <1>2, <1>3, <1>4, <1>6, <1>12 DEF BeginSwitch, AgainInv, Switching, Onward,
       Blank, Is, Safe, SwitchInv
  <2>2. RestoreInv'
    BY <1>1, <1>2, <1>3, <1>4, <1>6, <1>12 DEF BeginSwitch, AgainInv, RestoreInv, Leaves,
       Back, Switching, Onward, Blank, Is, Safe, RunInv, SwitchInv, PinInv, Typed, Protected
  <2> QED BY <2>1, <2>2
<1>13. CASE BeginReset
  <2>1. AgainInv'
    BY <1>1, <1>2, <1>3, <1>4, <1>6, <1>13 DEF BeginReset, AgainInv, Switching, Onward,
       Blank, Is, Safe, SwitchInv
  <2>2. RestoreInv'
    BY <1>1, <1>2, <1>3, <1>4, <1>6, <1>13 DEF BeginReset, AgainInv, RestoreInv, Leaves,
       Back, Switching, Onward, Blank, Is, Safe, RunInv, SwitchInv, PinInv, Typed, Protected
  <2> QED BY <2>1, <2>2
<1>14. CASE BeginAutoLock
  <2>1. AgainInv'
    BY <1>1, <1>2, <1>3, <1>4, <1>6, <1>14 DEF BeginAutoLock, AgainInv, Switching, Onward,
       Blank, Is, Safe, SwitchInv
  <2>2. RestoreInv'
    BY <1>1, <1>2, <1>3, <1>4, <1>6, <1>14 DEF BeginAutoLock, AgainInv, RestoreInv, Leaves,
       Back, Switching, Onward, Blank, Is, Safe, RunInv, SwitchInv, PinInv, Typed, Protected
  <2> QED BY <2>1, <2>2
<1>15. CASE BeginImport
  <2>1. AgainInv'
    BY <1>1, <1>2, <1>3, <1>4, <1>6, <1>15 DEF BeginImport, Allowed, Exists, AgainInv,
       Switching, Onward, Blank, Is, Safe, SwitchInv
  <2>2. RestoreInv'
    BY <1>1, <1>2, <1>3, <1>4, <1>6, <1>15 DEF BeginImport, Allowed, Exists, AgainInv,
       RestoreInv, Leaves, Back, Switching, Onward, Blank, Is, Safe, RunInv, SwitchInv,
       PinInv, Typed, Protected
  <2> QED BY <2>1, <2>2
<1>16. CASE DeleteIdentity
  <2>1. AgainInv'
    BY <1>1, <1>2, <1>3, <1>4, <1>6, <1>16 DEF DeleteIdentity, Drops, AgainInv, Switching,
       Onward, Blank, Is, Safe, SwitchInv
  <2>2. RestoreInv'
    BY <1>1, <1>2, <1>3, <1>4, <1>6, <1>16 DEF DeleteIdentity, Drops, AgainInv, RestoreInv,
       Leaves, Back, Switching, Onward, Blank, Is, Safe, RunInv, SwitchInv, PinInv, Typed,
       Protected
  <2> QED BY <2>1, <2>2
<1>17. CASE BeginRemove
  <2>1. AgainInv'
    BY <1>1, <1>2, <1>3, <1>4, <1>6, <1>17 DEF BeginRemove, Drops, Live, AgainInv,
       Switching, Onward, Blank, Is, Safe, SwitchInv
  <2>2. RestoreInv'
    BY <1>1, <1>2, <1>3, <1>4, <1>6, <1>17 DEF BeginRemove, Drops, Live, AgainInv,
       RestoreInv, Leaves, Back, Switching, Onward, Blank, Is, Safe, RunInv, SwitchInv,
       PinInv, Typed, Protected
  <2> QED BY <2>1, <2>2
<1>18. CASE CommitPasscode
  <2>1. AgainInv'
    BY <1>1, <1>2, <1>3, <1>4, <1>6, <1>18 DEF CommitPasscode, Arm, AgainInv, Switching,
       Onward, Blank, Is, Safe, SwitchInv
  <2>2. RestoreInv'
    BY <1>1, <1>2, <1>3, <1>4, <1>6, <1>18 DEF CommitPasscode, Arm, AgainInv, RestoreInv,
       Leaves, Back, Switching, Onward, Blank, Is, Safe, RunInv, SwitchInv, PinInv, Typed,
       Protected
  <2> QED BY <2>1, <2>2
<1>19. CASE CommitPlain
  <2>1. AgainInv'
    BY <1>1, <1>2, <1>3, <1>4, <1>6, <1>19 DEF CommitPlain, AgainInv, Switching, Onward,
       Blank, Is, Safe, SwitchInv
  <2>2. RestoreInv'
    BY <1>1, <1>2, <1>3, <1>4, <1>6, <1>19 DEF CommitPlain, AgainInv, RestoreInv, Leaves,
       Back, Switching, Onward, Blank, Is, Safe, RunInv, SwitchInv, PinInv, Typed, Protected
  <2> QED BY <2>1, <2>2
<1> QED BY <1>11, <1>12, <1>13, <1>14, <1>15, <1>16, <1>17, <1>18, <1>19 DEF Begin

LEMMA ProceedRestores ==
  ASSUME Typed, Safe, AgainInv, RestoreInv, Proceed
  PROVE  AgainInv' /\ RestoreInv'
<1> USE DEF rowv, runv, keyv, askv, idlev, histv, Moved, Stays
<1>1. /\ hold.at \in Steps /\ hold \in Holds /\ active \in Opt /\ kind \in [Ids -> Kinds]
      /\ retained \in Opt /\ runtime \in Opt /\ Names(hold) /\ None \notin Ids
      /\ before \in [session : Opt \X Opt \X Opt, failed : BOOLEAN]
  <2>1. Moves
    BY BeginTyped, ProceedTyped
  <2> QED BY <2>1, SessionAssumption DEF Typed, Types, Named, Moves, Rows, Keys, Past, Holds
<1>2. ASSUME Done PROVE hold' = Free
  BY <1>2 DEF Done
<1>3. Moved
  BY <1>1, Onwards
<1>4. Free.at = "free" /\ Free.op = "free" /\ Free \notin Holds
  BY Distinct
<1>6. \A i \in Ids : Command("switch", i) \in Holds /\ Command("switch", i).op = "switch"
                     /\ Command("switch", i).at = "begin" /\ Blank(Command("switch", i))
  <2>1. "switch" \in Ops /\ Ids \subseteq Opt
    BY DEF Ops, Opt
  <2> QED BY <2>1 DEF Command, Holds, Steps, Opt, NoFence, Fences, Kinds, Blank
<1>11. CASE Reset
  <2>1. AgainInv'
    BY <1>1, <1>2, <1>3, <1>4, <1>6, <1>11 DEF Reset, AgainInv, Switching, Onward, Blank,
       Is, Safe, SwitchInv
  <2>2. RestoreInv'
    BY <1>1, <1>2, <1>3, <1>4, <1>6, <1>11 DEF Reset, AgainInv, RestoreInv, Leaves, Back,
       Switching, Onward, Blank, Is, Safe, RunInv, SwitchInv, PinInv, Typed, Protected
  <2> QED BY <2>1, <2>2
<1>12. CASE ResetRefused
  <2>1. AgainInv'
    BY <1>1, <1>2, <1>3, <1>4, <1>6, <1>12 DEF ResetRefused, AgainInv, Switching, Onward,
       Blank, Is, Safe, SwitchInv
  <2>2. RestoreInv'
    BY <1>1, <1>2, <1>3, <1>4, <1>6, <1>12 DEF ResetRefused, AgainInv, RestoreInv, Leaves,
       Back, Switching, Onward, Blank, Is, Safe, RunInv, SwitchInv, PinInv, Typed, Protected
  <2> QED BY <2>1, <2>2
<1>13. CASE Stop
  <2>1. AgainInv'
    BY <1>1, <1>2, <1>3, <1>4, <1>6, <1>13 DEF Stop, AgainInv, Switching, Onward, Blank, Is,
       Safe, SwitchInv
  <2>2. RestoreInv'
    BY <1>1, <1>2, <1>3, <1>4, <1>6, <1>13 DEF Stop, AgainInv, RestoreInv, Leaves, Back,
       Switching, Onward, Blank, Is, Safe, RunInv, SwitchInv, PinInv, Typed, Protected
  <2> QED BY <2>1, <2>2
<1>14. CASE Activate
  <2>1. AgainInv'
    BY <1>1, <1>2, <1>3, <1>4, <1>6, <1>14 DEF Activate, AgainInv, Switching, Onward, Blank,
       Is, Safe, SwitchInv
  <2>2. RestoreInv'
    BY <1>1, <1>2, <1>3, <1>4, <1>6, <1>14 DEF Activate, AgainInv, RestoreInv, Leaves, Back,
       Switching, Onward, Blank, Is, Safe, RunInv, SwitchInv, PinInv, Typed, Protected
  <2> QED BY <2>1, <2>2
<1>15. CASE ActivateToken
  <2>1. AgainInv'
    BY <1>1, <1>2, <1>3, <1>4, <1>6, <1>15 DEF ActivateToken, Drops, AgainInv, Switching,
       Onward, Blank, Is, Safe, SwitchInv
  <2>2. RestoreInv'
    BY <1>1, <1>2, <1>3, <1>4, <1>6, <1>15 DEF ActivateToken, Drops, AgainInv, RestoreInv,
       Leaves, Back, Switching, Onward, Blank, Is, Safe, RunInv, SwitchInv, PinInv, Typed,
       Protected
  <2> QED BY <2>1, <2>2
<1>16. CASE Present
  <2>1. AgainInv'
    BY <1>1, <1>2, <1>3, <1>4, <1>6, <1>16 DEF Present, AgainInv, Switching, Onward, Blank,
       Is, Safe, SwitchInv
  <2>2. RestoreInv'
    BY <1>1, <1>2, <1>3, <1>4, <1>6, <1>16 DEF Present, AgainInv, RestoreInv, Leaves, Back,
       Switching, Onward, Blank, Is, Safe, RunInv, SwitchInv, PinInv, Typed, Protected
  <2> QED BY <2>1, <2>2
<1>17. CASE RestartInit
  <2>1. AgainInv'
    BY <1>1, <1>2, <1>3, <1>4, <1>6, <1>17 DEF RestartInit, AgainInv, Switching, Onward,
       Blank, Is, Safe, SwitchInv
  <2>2. RestoreInv'
    BY <1>1, <1>2, <1>3, <1>4, <1>6, <1>17 DEF RestartInit, AgainInv, RestoreInv, Leaves,
       Back, Switching, Onward, Blank, Is, Safe, RunInv, SwitchInv, PinInv, Typed, Protected
  <2> QED BY <2>1, <2>2
<1>18. CASE AutoLocked
  <2>1. AgainInv'
    BY <1>1, <1>2, <1>3, <1>4, <1>6, <1>18 DEF AutoLocked, Drops, AgainInv, Switching,
       Onward, Blank, Is, Safe, SwitchInv
  <2>2. RestoreInv'
    BY <1>1, <1>2, <1>3, <1>4, <1>6, <1>18 DEF AutoLocked, Drops, AgainInv, RestoreInv,
       Leaves, Back, Switching, Onward, Blank, Is, Safe, RunInv, SwitchInv, PinInv, Typed,
       Protected
  <2> QED BY <2>1, <2>2
<1>19. CASE Imported
  <2>1. AgainInv'
    BY <1>1, <1>2, <1>3, <1>4, <1>6, <1>19 DEF Imported, AgainInv, Switching, Onward, Blank,
       Is, Safe, SwitchInv
  <2>2. RestoreInv'
    BY <1>1, <1>2, <1>3, <1>4, <1>6, <1>19 DEF Imported, AgainInv, RestoreInv, Leaves, Back,
       Switching, Onward, Blank, Is, Safe, RunInv, SwitchInv, PinInv, Typed, Protected
  <2> QED BY <2>1, <2>2
<1>20. CASE Removed
  <2>1. AgainInv'
    BY <1>1, <1>2, <1>3, <1>4, <1>6, <1>20 DEF Removed, Drops, AgainInv, Switching, Onward,
       Blank, Is, Safe, SwitchInv
  <2>2. RestoreInv'
    BY <1>1, <1>2, <1>3, <1>4, <1>6, <1>20 DEF Removed, Drops, AgainInv, RestoreInv, Leaves,
       Back, Switching, Onward, Blank, Is, Safe, RunInv, SwitchInv, PinInv, Typed, Protected
  <2> QED BY <2>1, <2>2
<1>21. CASE StartFails
  <2>1. AgainInv'
    BY <1>1, <1>2, <1>3, <1>4, <1>6, <1>21 DEF StartFails, Failed, AgainInv, Switching,
       Onward, Blank, Is, Safe, SwitchInv
  <2>2. RestoreInv'
    BY <1>1, <1>2, <1>3, <1>4, <1>6, <1>21 DEF StartFails, Failed, AgainInv, RestoreInv,
       Leaves, Back, Switching, Onward, Blank, Is, Safe, RunInv, SwitchInv, PinInv, Typed,
       Protected
  <2> QED BY <2>1, <2>2
<1>22. CASE NothingToStart
  <2>1. AgainInv'
    BY <1>1, <1>2, <1>3, <1>4, <1>6, <1>22 DEF NothingToStart, AgainInv, Switching, Onward,
       Blank, Is, Safe, SwitchInv
  <2>2. RestoreInv'
    BY <1>1, <1>2, <1>3, <1>4, <1>6, <1>22 DEF NothingToStart, AgainInv, RestoreInv, Leaves,
       Back, Switching, Onward, Blank, Is, Safe, RunInv, SwitchInv, PinInv, Typed, Protected
  <2> QED BY <2>1, <2>2
<1>23. ASSUME NEW i \in Ids, Start(i)
       PROVE  AgainInv' /\ RestoreInv'
  <2>1. AgainInv'
    BY <1>1, <1>2, <1>3, <1>4, <1>6, <1>23 DEF Start, Others, Staged, AgainInv, Switching,
       Onward, Blank, Is, Safe, SwitchInv
  <2>2. ASSUME hold' \in Holds, Onward("after"), hold'.again = hold.again, hold'.prev = hold.prev,
               Protected(i), ~Staged(i), retained # i
        PROVE  RestoreInv'
    <3>1. ASSUME Switching, hold.again
          PROVE  active' = before.session[1] /\ Back'
      <4>1. Leaves /\ i = hold.prev /\ pin = None /\ active' = i
        BY <1>1, <1>23, <2>2, <3>1 DEF Start, AgainInv, RestoreInv
      <4>2. UNCHANGED <<kind, before>>
        BY <1>23 DEF Start
      <4> QED BY <2>2, <4>1, <4>2 DEF Leaves, Back, Protected
    <3>2. Leaves => Leaves'
      BY <1>23, <2>2 DEF Start, Leaves
    <3>3. UNCHANGED <<before, retained>> /\ hold.at = "start"
      BY <1>23 DEF Start
    <3> QED BY <1>1, <2>2, <3>1, <3>2, <3>3 DEF RestoreInv, Switching, Onward
  <2>3. ASSUME Onward("load"), hold'.again = hold.again, hold'.prev = hold.prev
        PROVE  RestoreInv'
    <3>1. UNCHANGED <<before, retained>> /\ hold.at = "start" /\ pin' = None /\ active' = i
      BY <1>23 DEF Start
    <3>2. Leaves => Leaves'
      BY <2>3, <3>1 DEF Leaves
    <3>3. Switching /\ hold.again => active = hold.prev /\ active' = active
      BY <1>1, <1>23 DEF Start, AgainInv, RestoreInv
    <3> QED BY <2>3, <3>1, <3>2, <3>3 DEF RestoreInv, Switching, Onward
  <2>4. RestoreInv'
    <3>1. CASE Goes("after") /\ Protected(i) /\ ~Staged(i) /\ retained # i
      BY <1>3, <2>2, <3>1 DEF Onward
    <3>2. CASE hold' = [hold EXCEPT !.at = "load", !.right = Staged(i) /\ pin.right]
      <4>1. (Staged(i) /\ pin.right) \in BOOLEAN
        OBVIOUS
      <4> QED BY <1>3, <2>3, <3>2, <4>1
    <3> QED BY <1>23, <3>1, <3>2 DEF Start
  <2> QED BY <2>1, <2>4
<1>24. CASE Loads
  <2>1. AgainInv'
    BY <1>1, <1>2, <1>3, <1>4, <1>6, <1>24 DEF Loads, Others, Opens, AgainInv, Switching,
       Onward, Blank, Is, Safe, SwitchInv
  <2>2. RestoreInv'
    BY <1>1, <1>2, <1>3, <1>4, <1>6, <1>24 DEF Loads, Others, Opens, AgainInv, RestoreInv,
       Leaves, Back, Switching, Onward, Blank, Is, Safe, RunInv, SwitchInv, PinInv, Typed,
       Protected
  <2> QED BY <2>1, <2>2
<1>25. CASE LoadFails
  <2>1. AgainInv'
    BY <1>1, <1>2, <1>3, <1>4, <1>6, <1>25 DEF LoadFails, Others, Opens, Failed, AgainInv,
       Switching, Onward, Blank, Is, Safe, SwitchInv
  <2>2. RestoreInv'
    BY <1>1, <1>2, <1>3, <1>4, <1>6, <1>25 DEF LoadFails, Others, Opens, Failed, AgainInv,
       RestoreInv, Leaves, Back, Switching, Onward, Blank, Is, Safe, RunInv, SwitchInv,
       PinInv, Typed, Protected
  <2> QED BY <2>1, <2>2
<1>26. CASE Settle
  <2>1. AgainInv'
    BY <1>1, <1>2, <1>3, <1>4, <1>6, <1>26 DEF Settle, Drops, SwitchEnds, NoSwitch,
       AgainInv, Switching, Onward, Blank, Is, Safe, SwitchInv
  <2>2. RestoreInv'
    BY <1>1, <1>2, <1>3, <1>4, <1>6, <1>26 DEF Settle, Drops, SwitchEnds, NoSwitch,
       AgainInv, RestoreInv, Leaves, Back, Switching, Onward, Blank, Is, Safe, RunInv,
       SwitchInv, PinInv, Typed, Protected
  <2> QED BY <2>1, <2>2
<1>27. CASE RollBack
  <2>1. AgainInv'
    BY <1>1, <1>2, <1>3, <1>4, <1>6, <1>27 DEF RollBack, AgainInv, Switching, Onward, Blank,
       Is, Safe, SwitchInv
  <2>2. RestoreInv'
    BY <1>1, <1>2, <1>3, <1>4, <1>6, <1>27 DEF RollBack, AgainInv, RestoreInv, Leaves, Back,
       Switching, Onward, Blank, Is, Safe, RunInv, SwitchInv, PinInv, Typed, Protected
  <2> QED BY <2>1, <2>2
<1>28. CASE Resume
  <2>1. AgainInv'
    BY <1>1, <1>2, <1>3, <1>4, <1>6, <1>28 DEF Resume, AgainInv, Switching, Onward, Blank,
       Is, Safe, SwitchInv
  <2>2. RestoreInv'
    BY <1>1, <1>2, <1>3, <1>4, <1>6, <1>28 DEF Resume, AgainInv, RestoreInv, Leaves, Back,
       Switching, Onward, Blank, Is, Safe, RunInv, SwitchInv, PinInv, Typed, Protected
  <2> QED BY <2>1, <2>2
<1>29. CASE Resumed
  <2>1. AgainInv'
    BY <1>1, <1>2, <1>3, <1>4, <1>6, <1>29 DEF Resumed, AgainInv, Switching, Onward, Blank,
       Is, Safe, SwitchInv
  <2>2. RestoreInv'
    BY <1>1, <1>2, <1>3, <1>4, <1>6, <1>29 DEF Resumed, AgainInv, RestoreInv, Leaves, Back,
       Switching, Onward, Blank, Is, Safe, RunInv, SwitchInv, PinInv, Typed, Protected
  <2> QED BY <2>1, <2>2
<1>30. CASE SwitchFailed
  <2>1. AgainInv'
    BY <1>1, <1>2, <1>3, <1>4, <1>6, <1>30 DEF SwitchFailed, SwitchEnds, NoSwitch, AgainInv,
       Switching, Onward, Blank, Is, Safe, SwitchInv
  <2>2. RestoreInv'
    BY <1>1, <1>2, <1>3, <1>4, <1>6, <1>30 DEF SwitchFailed, SwitchEnds, NoSwitch, AgainInv,
       RestoreInv, Leaves, Back, Switching, Onward, Blank, Is, Safe, RunInv, SwitchInv,
       PinInv, Typed, Protected
  <2> QED BY <2>1, <2>2
<1>31. CASE Unlocked
  <2>1. AgainInv'
    BY <1>1, <1>2, <1>3, <1>4, <1>6, <1>31 DEF Unlocked, SwitchEnds, NoSwitch, AgainInv,
       Switching, Onward, Blank, Is, Safe, SwitchInv
  <2>2. RestoreInv'
    BY <1>1, <1>2, <1>3, <1>4, <1>6, <1>31 DEF Unlocked, SwitchEnds, NoSwitch, AgainInv,
       RestoreInv, Leaves, Back, Switching, Onward, Blank, Is, Safe, RunInv, SwitchInv,
       PinInv, Typed, Protected
  <2> QED BY <2>1, <2>2
<1>32. ASSUME NEW op, Ends(op)
       PROVE  AgainInv' /\ RestoreInv'
  <2>1. AgainInv'
    BY <1>1, <1>2, <1>3, <1>4, <1>6, <1>32 DEF Ends, AgainInv, Switching, Onward, Blank, Is,
       Safe, SwitchInv
  <2>2. RestoreInv'
    BY <1>1, <1>2, <1>3, <1>4, <1>6, <1>32 DEF Ends, AgainInv, RestoreInv, Leaves, Back,
       Switching, Onward, Blank, Is, Safe, RunInv, SwitchInv, PinInv, Typed, Protected
  <2> QED BY <2>1, <2>2
<1> QED BY <1>11, <1>12, <1>13, <1>14, <1>15, <1>16, <1>17, <1>18, <1>19, <1>20, <1>21,
    <1>22, <1>23, <1>24, <1>25, <1>26, <1>27, <1>28, <1>29, <1>30, <1>31, <1>32 DEF Proceed

LEMMA RestoreStep ==
  ASSUME Typed, Safe, AgainInv, RestoreInv, [Next]_vars
  PROVE  AgainInv' /\ RestoreInv'
<1> USE DEF rowv, runv, keyv, askv, idlev, histv
<1>1. ASSUME UNCHANGED <<active, runtime, kind, retained, pin, hold, before>>,
    locked' \in {locked, None}
      PROVE  AgainInv' /\ RestoreInv'
  BY <1>1 DEF AgainInv, RestoreInv, Leaves, Back, Switching, Protected
<1>2. ASSUME hold' \in waiting \union {Free, Served}
      PROVE  AgainInv' /\ RestoreInv'
  <2>1. hold' \in Holds => hold'.at = "begin" /\ Blank(hold')
    BY <1>2, Distinct DEF Typed, Named
  <2>2. Switching' => hold' \in Holds
    BY <1>2, Distinct DEF Switching, Typed, Types, Locks
  <2> QED BY <2>1, <2>2 DEF AgainInv, RestoreInv, Blank, Switching
<1>3. CASE UNCHANGED vars
  BY <1>1, <1>3 DEF vars
<1>4. CASE User
  BY <1>1, <1>4, UserTyped
<1>5. CASE Transition
  BY <1>5, BeginRestores, ProceedRestores DEF Transition
<1>6. CASE AutoLockFires \/ TimePasses \/ ProgressFinds \/ ProgressClears
  BY <1>1, <1>6 DEF AutoLockFires, TimePasses, ProgressFinds, ProgressClears
<1>7. CASE TakeFence \/ AcquireMutation \/ AcquireRoutine \/ Land \/ \E c \in waiting : Acquire(c)
  <2>1. UNCHANGED <<active, runtime, kind, retained, pin, locked, before>>
        /\ (hold' = hold \/ hold' \in waiting \union {Free, Served})
    BY <1>7 DEF TakeFence, AcquireMutation, AcquireRoutine, Land, Acquire, Accepts, Rejects
  <2> QED BY <1>1, <1>2, <2>1
<1> QED BY <1>3, <1>4, <1>5, <1>6, <1>7 DEF Next

-----------------------------------------------------------------------------
(* What fell due stays due.                                                *)

(* A token is activated for good.                                          *)
TokenInv ==
  hold.op = "activate" /\ ~hold.again /\ hold.at \in {"start", "load", "after"} =>
    active = hold.id /\ expired \subseteq {hold.id} /\ opened \subseteq {hold.id}

(* The number of an auto-lock is used for one identity only.               *)
Numbered(c) ==
  c.op = "autolock" => /\ c.num \in Nat /\ c.num =< armed
                       /\ auto # None /\ auto.num = c.num => auto.id = c.id

NumInv ==
  /\ auto # None => auto.num =< armed
  /\ \A c \in waiting : Numbered(c)
  /\ hold \in Holds => Numbered(hold)
  /\ hold.op = "autolock" /\ hold.at = "reset" => auto # None /\ auto.id = hold.id

Due(i) == auto # None /\ auto.id = i /\ auto.due

(* A switch that has its target, and a lock that is on its way.            *)
Leaving == Is({"switch"}, "after") /\ ~hold.again /\ (locked = hold.id \/ runtime = hold.id)
Locking == Is({"autolock"}, "stop") \/ Is({"autolock"}, "stopped")

DueInv ==
  \A i \in expired :
    /\ Protected(i)
    /\ Due(i) \/ (Leaving /\ i = hold.prev /\ i # hold.id) \/ (Locking /\ i = hold.id)

LEMMA ArmNumbers ==
  ASSUME armed \in Nat, auto \in [id : Ids, num : Nat, due : BOOLEAN] \union {None},
         None \notin Ids, NumInv, NEW i \in Ids, NEW due, Arm(i, due), UNCHANGED waiting,
         hold' \in Holds => hold'.op = hold.op /\ hold'.id = hold.id /\ hold'.num = hold.num,
         hold' \in Holds => hold \in Holds, hold'.at # "reset"
  PROVE  NumInv'
<1>1. armed' = armed + 1 /\ auto' = [id |-> i, num |-> armed + 1, due |-> due]
  BY DEF Arm
<1>2. ASSUME NEW c, Numbered(c) PROVE Numbered(c)'
  BY <1>1, <1>2 DEF Numbered
<1>3. \A c \in waiting' : Numbered(c)'
  BY <1>2 DEF NumInv
<1>4. hold' \in Holds => Numbered(hold)'
  BY <1>2 DEF NumInv, Numbered
<1> QED BY <1>1, <1>3, <1>4 DEF NumInv

LEMMA BeginTimed ==
  ASSUME Typed, Safe, AgainInv, RestoreInv, TokenInv, NumInv, DueInv, Begin
  PROVE  TokenInv' /\ NumInv' /\ DueInv'
<1> USE DEF rowv, runv, keyv, askv, idlev, histv, Moved, Stays
<1>1. /\ hold.at \in Steps /\ hold \in Holds /\ active \in Opt /\ kind \in [Ids -> Kinds]
      /\ retained \in Opt /\ runtime \in Opt /\ Names(hold) /\ None \notin Ids
      /\ armed \in Nat /\ auto \in [id : Ids, num : Nat, due : BOOLEAN] \union {None}
      /\ expired \subseteq Ids /\ hold.num \in Nat /\ locked \in Opt
  <2>1. Moves
    BY BeginTyped, ProceedTyped
  <2> QED BY <2>1, SessionAssumption DEF Typed, Types, Named, Moves, Rows, Keys, Past, Holds
<1>2. ASSUME Done PROVE hold' = Free
  BY <1>2 DEF Done
<1>3. Moved
  BY <1>1, Onwards
<1>4. Free.at = "free" /\ Free.op = "free" /\ Free \notin Holds
  BY Distinct
<1>6. \A i \in Ids : Command("switch", i) \in Holds /\ Command("switch", i).op = "switch"
                     /\ Command("switch", i).at = "begin" /\ Blank(Command("switch", i))
  <2>1. "switch" \in Ops /\ Ids \subseteq Opt
    BY DEF Ops, Opt
  <2> QED BY <2>1 DEF Command, Holds, Steps, Opt, NoFence, Fences, Kinds, Blank
<1>7. (\A i \in expired' : Protected(i)' /\ Due(i)') => DueInv'
  BY DEF DueInv
<1>8. \A i \in expired : Protected(i) /\ Due(i)
  BY DEF Begin, Refuse, BeginSwitch, BeginReset, BeginAutoLock, BeginImport, DeleteIdentity,
         BeginRemove, CommitPasscode, CommitPlain, Is, DueInv, Leaving, Locking
<1>11. CASE Refuse
  <2>1. TokenInv'
    BY <1>1, <1>2, <1>3, <1>4, <1>6, <1>11 DEF Refuse, TokenInv, AgainInv, Switching,
       Onward, Blank, Is
  <2>2. NumInv'
    BY <1>1, <1>2, <1>3, <1>4, <1>6, <1>11 DEF Refuse, NumInv, Numbered, Onward, Blank, Is, Arm
  <2>3. DueInv'
    BY <1>1, <1>7, <1>8, <1>11 DEF Refuse, Due, Protected
  <2> QED BY <2>1, <2>2, <2>3
<1>12. CASE BeginSwitch
  <2>1. TokenInv'
    BY <1>1, <1>2, <1>3, <1>4, <1>6, <1>12 DEF BeginSwitch, TokenInv, AgainInv, Switching,
       Onward, Blank, Is
  <2>2. NumInv'
    BY <1>1, <1>2, <1>3, <1>4, <1>6, <1>12 DEF BeginSwitch, NumInv, Numbered, Onward, Blank, Is, Arm
  <2>3. DueInv'
    BY <1>1, <1>7, <1>8, <1>12 DEF BeginSwitch, Due, Protected
  <2> QED BY <2>1, <2>2, <2>3
<1>13. CASE BeginReset
  <2>1. TokenInv'
    BY <1>1, <1>2, <1>3, <1>4, <1>6, <1>13 DEF BeginReset, TokenInv, AgainInv, Switching,
       Onward, Blank, Is
  <2>2. NumInv'
    BY <1>1, <1>2, <1>3, <1>4, <1>6, <1>13 DEF BeginReset, NumInv, Numbered, Onward, Blank, Is, Arm
  <2>3. DueInv'
    BY <1>1, <1>7, <1>8, <1>13 DEF BeginReset, Due, Protected
  <2> QED BY <2>1, <2>2, <2>3
<1>14. CASE BeginAutoLock
  <2>1. TokenInv'
    BY <1>1, <1>2, <1>3, <1>4, <1>6, <1>14 DEF BeginAutoLock, TokenInv, AgainInv, Switching,
       Onward, Blank, Is
  <2>2. NumInv'
    BY <1>1, <1>2, <1>3, <1>4, <1>6, <1>14 DEF BeginAutoLock, NumInv, Numbered, Onward,
       Blank, Is, Arm
  <2>3. DueInv'
    <3>1. UNCHANGED kind /\ expired' \subseteq expired
      BY <1>14 DEF BeginAutoLock
    <3>2. CASE UNCHANGED auto
      BY <1>7, <1>8, <3>1, <3>2 DEF Due, Protected
    <3>3. CASE auto # None /\ auto.num = hold.num /\ (~IsCurrent(hold.id) \/ ~Protected(hold.id))
               /\ expired' = IF active = hold.id THEN expired ELSE expired \ {hold.id}
      <4>1. auto.id = hold.id
        BY <1>1, <1>14, <3>3 DEF BeginAutoLock, Is, NumInv, Numbered
      <4>2. runtime # None => runtime = active
        BY <1>1, <1>14 DEF BeginAutoLock, Is, Safe, RunInv
      <4>3. hold.id \notin expired'
        BY <1>8, <3>3, <4>2 DEF IsCurrent
      <4> QED BY <1>7, <1>8, <3>1, <4>1, <4>3 DEF Due
    <3> QED BY <1>14, <3>2, <3>3 DEF BeginAutoLock
  <2> QED BY <2>1, <2>2, <2>3
<1>15. CASE BeginImport
  <2>1. TokenInv'
    BY <1>1, <1>2, <1>3, <1>4, <1>6, <1>15 DEF BeginImport, Allowed, Exists, TokenInv,
       AgainInv, Switching, Onward, Blank, Is
  <2>2. NumInv'
    BY <1>1, <1>2, <1>3, <1>4, <1>6, <1>15 DEF BeginImport, Allowed, Exists, NumInv,
       Numbered, Onward, Blank, Is, Arm
  <2>3. DueInv'
    <3>1. UNCHANGED <<expired, auto>> /\ hold.id \notin expired
      BY <1>8, <1>15 DEF BeginImport, Is, Allowed, Exists, Protected
    <3>2. \A i \in Ids \ {hold.id} : kind'[i] = kind[i]
      BY <1>1, <1>15 DEF BeginImport
    <3> QED BY <1>1, <1>7, <1>8, <3>1, <3>2 DEF Due, Protected
  <2> QED BY <2>1, <2>2, <2>3
<1>16. CASE DeleteIdentity
  <2>1. TokenInv'
    BY <1>1, <1>2, <1>3, <1>4, <1>6, <1>16 DEF DeleteIdentity, Drops, TokenInv, AgainInv,
       Switching, Onward, Blank, Is
  <2>2. NumInv'
    BY <1>1, <1>2, <1>3, <1>4, <1>6, <1>16 DEF DeleteIdentity, Drops, NumInv, Numbered,
       Onward, Blank, Is, Arm
  <2>3. DueInv'
    BY <1>1, <1>7, <1>8, <1>16 DEF DeleteIdentity, Due, Protected
  <2> QED BY <2>1, <2>2, <2>3
<1>17. CASE BeginRemove
  <2>1. TokenInv'
    BY <1>1, <1>2, <1>3, <1>4, <1>6, <1>17 DEF BeginRemove, Drops, Live, TokenInv, AgainInv,
       Switching, Onward, Blank, Is
  <2>2. NumInv'
    BY <1>1, <1>2, <1>3, <1>4, <1>6, <1>17 DEF BeginRemove, Drops, Live, NumInv, Numbered,
       Onward, Blank, Is, Arm
  <2>3. DueInv'
    <3>1. \A i \in Ids \ {hold.id} : kind'[i] = kind[i]
      BY <1>1, <1>17 DEF BeginRemove
    <3>2. expired' \subseteq expired \ {hold.id} \/ UNCHANGED <<kind, expired>>
      BY <1>17 DEF BeginRemove
    <3>3. UNCHANGED auto
      BY <1>17 DEF BeginRemove
    <3> QED BY <1>1, <1>7, <1>8, <3>1, <3>2, <3>3 DEF Due, Protected
  <2> QED BY <2>1, <2>2, <2>3
<1>18. CASE CommitPasscode
  <2>1. TokenInv'
    BY <1>1, <1>2, <1>3, <1>4, <1>6, <1>18 DEF CommitPasscode, TokenInv, AgainInv,
       Switching, Onward, Blank, Is
  <2>2. NumInv'
    <3>1. CASE Arm(hold.id, FALSE)
      <4>1. hold.id \in Ids /\ hold' = Free /\ UNCHANGED waiting
        BY <1>1, <1>2, <1>18 DEF CommitPasscode, Is, Names
      <4> QED BY <1>1, <1>4, <3>1, <4>1, ArmNumbers
    <3>2. CASE UNCHANGED <<auto, armed>>
      BY <1>1, <1>2, <1>4, <1>18, <3>2 DEF CommitPasscode, NumInv, Numbered
    <3> QED BY <1>18, <3>1, <3>2 DEF CommitPasscode
  <2>3. DueInv'
    <3>1. \A i \in Ids \ {hold.id} : kind'[i] = kind[i]
      BY <1>1, <1>18 DEF CommitPasscode
    <3>2. expired' \subseteq expired \ {hold.id} \/ UNCHANGED <<kind, expired>>
      BY <1>18 DEF CommitPasscode
    <3>3. expired' = {} \/ UNCHANGED auto
      BY <1>18 DEF CommitPasscode
    <3> QED BY <1>1, <1>7, <1>8, <3>1, <3>2, <3>3 DEF Due, Protected
  <2> QED BY <2>1, <2>2, <2>3
<1>19. CASE CommitPlain
  <2>1. TokenInv'
    BY <1>1, <1>2, <1>3, <1>4, <1>6, <1>19 DEF CommitPlain, TokenInv, AgainInv, Switching,
       Onward, Blank, Is
  <2>2. NumInv'
    BY <1>1, <1>2, <1>3, <1>4, <1>6, <1>19 DEF CommitPlain, NumInv, Numbered, Onward, Blank, Is, Arm
  <2>3. DueInv'
    <3>1. \A i \in Ids \ {hold.id} : kind'[i] = kind[i]
      BY <1>1, <1>19 DEF CommitPlain
    <3>2. expired' \subseteq expired \ {hold.id} \/ UNCHANGED <<kind, expired>>
      BY <1>19 DEF CommitPlain
    <3>3. expired' = {} \/ UNCHANGED auto
      BY <1>19 DEF CommitPlain
    <3> QED BY <1>1, <1>7, <1>8, <3>1, <3>2, <3>3 DEF Due, Protected
  <2> QED BY <2>1, <2>2, <2>3
<1> QED BY <1>11, <1>12, <1>13, <1>14, <1>15, <1>16, <1>17, <1>18, <1>19 DEF Begin

LEMMA ProceedTimed ==
  ASSUME Typed, Safe, AgainInv, RestoreInv, TokenInv, NumInv, DueInv, Proceed
  PROVE  TokenInv' /\ NumInv' /\ DueInv'
<1> USE DEF rowv, runv, keyv, askv, idlev, histv, Moved, Stays
<1>1. /\ hold.at \in Steps /\ hold \in Holds /\ active \in Opt /\ kind \in [Ids -> Kinds]
      /\ retained \in Opt /\ runtime \in Opt /\ Names(hold) /\ None \notin Ids
      /\ armed \in Nat /\ auto \in [id : Ids, num : Nat, due : BOOLEAN] \union {None}
      /\ expired \subseteq Ids /\ hold.num \in Nat /\ locked \in Opt
  <2>1. Moves
    BY BeginTyped, ProceedTyped
  <2> QED BY <2>1, SessionAssumption DEF Typed, Types, Named, Moves, Rows, Keys, Past, Holds
<1>2. ASSUME Done PROVE hold' = Free
  BY <1>2 DEF Done
<1>3. Moved
  BY <1>1, Onwards
<1>4. Free.at = "free" /\ Free.op = "free" /\ Free \notin Holds
  BY Distinct
<1>6. \A i \in Ids : Command("switch", i) \in Holds /\ Command("switch", i).op = "switch"
                     /\ Command("switch", i).at = "begin" /\ Blank(Command("switch", i))
  <2>1. "switch" \in Ops /\ Ids \subseteq Opt
    BY DEF Ops, Opt
  <2> QED BY <2>1 DEF Command, Holds, Steps, Opt, NoFence, Fences, Kinds, Blank
<1>7. (\A i \in expired' : Protected(i)' /\ Due(i)') => DueInv'
  BY DEF DueInv
<1>8. hold.at \notin {"stop", "stopped", "after"} => \A i \in expired : Protected(i) /\ Due(i)
  BY DEF DueInv, Leaving, Locking, Is
<1>11. CASE Reset
  <2>1. TokenInv'
    BY <1>1, <1>2, <1>3, <1>4, <1>6, <1>11 DEF Reset, TokenInv, AgainInv, Switching, Onward,
       Blank, Is
  <2>2. NumInv'
    BY <1>1, <1>2, <1>3, <1>4, <1>6, <1>11 DEF Reset, NumInv, Numbered, Onward, Blank, Is, Arm
  <2>3. DueInv'
    <3>1. hold.at = "reset" /\ UNCHANGED <<kind, expired>> /\ Onward("stop")
      BY <1>3, <1>11 DEF Reset
    <3>2. CASE hold.op = "autolock"
      BY <1>8, <3>1, <3>2 DEF NumInv, DueInv, Due, Locking, Is, Onward, Protected
    <3>3. CASE hold.op # "autolock"
      <4>1. UNCHANGED auto
        BY <1>11, <3>3 DEF Reset
      <4> QED BY <1>7, <1>8, <3>1, <4>1 DEF Due, Protected
    <3> QED BY <3>2, <3>3
  <2> QED BY <2>1, <2>2, <2>3
<1>12. CASE ResetRefused
  <2>1. TokenInv'
    BY <1>1, <1>2, <1>3, <1>4, <1>6, <1>12 DEF ResetRefused, TokenInv, AgainInv, Switching,
       Onward, Blank, Is
  <2>2. NumInv'
    BY <1>1, <1>2, <1>3, <1>4, <1>6, <1>12 DEF ResetRefused, NumInv, Numbered, Onward,
       Blank, Is, Arm
  <2>3. DueInv'
    BY <1>1, <1>2, <1>3, <1>4, <1>6, <1>12 DEF ResetRefused, DueInv, Due, Leaving, Locking,
       TokenInv, NumInv, Numbered, AgainInv, RestoreInv, Switching, Onward, Blank, Is, Safe,
       RunInv, SwitchInv, PinInv, Typed, Protected
  <2> QED BY <2>1, <2>2, <2>3
<1>13. CASE Stop
  <2>1. TokenInv'
    BY <1>1, <1>2, <1>3, <1>4, <1>6, <1>13 DEF Stop, TokenInv, AgainInv, Switching, Onward,
       Blank, Is
  <2>2. NumInv'
    BY <1>1, <1>2, <1>3, <1>4, <1>6, <1>13 DEF Stop, NumInv, Numbered, Onward, Blank, Is, Arm
  <2>3. DueInv'
    BY <1>1, <1>2, <1>3, <1>4, <1>6, <1>13 DEF Stop, DueInv, Due, Leaving, Locking,
       TokenInv, NumInv, Numbered, AgainInv, RestoreInv, Switching, Onward, Blank, Is, Safe,
       RunInv, SwitchInv, PinInv, Typed, Protected
  <2> QED BY <2>1, <2>2, <2>3
<1>14. CASE Activate
  <2>1. TokenInv'
    BY <1>1, <1>2, <1>3, <1>4, <1>6, <1>14 DEF Activate, TokenInv, AgainInv, Switching,
       Onward, Blank, Is
  <2>2. NumInv'
    BY <1>1, <1>2, <1>3, <1>4, <1>6, <1>14 DEF Activate, NumInv, Numbered, Onward, Blank, Is, Arm
  <2>3. DueInv'
    BY <1>1, <1>2, <1>3, <1>4, <1>6, <1>14 DEF Activate, DueInv, Due, Leaving, Locking,
       TokenInv, NumInv, Numbered, AgainInv, RestoreInv, Switching, Onward, Blank, Is, Safe,
       RunInv, SwitchInv, PinInv, Typed, Protected
  <2> QED BY <2>1, <2>2, <2>3
<1>15. CASE ActivateToken
  <2>1. TokenInv'
    BY <1>1, <1>2, <1>3, <1>4, <1>6, <1>15 DEF ActivateToken, Drops, TokenInv, AgainInv,
       Switching, Onward, Blank, Is
  <2>2. NumInv'
    BY <1>1, <1>2, <1>3, <1>4, <1>6, <1>15 DEF ActivateToken, Drops, NumInv, Numbered,
       Onward, Blank, Is, Arm
  <2>3. DueInv'
    BY <1>1, <1>2, <1>3, <1>4, <1>6, <1>15 DEF ActivateToken, Drops, DueInv, Due, Leaving,
       Locking, TokenInv, NumInv, Numbered, AgainInv, RestoreInv, Switching, Onward, Blank,
       Is, Safe, RunInv, SwitchInv, PinInv, Typed, Protected
  <2> QED BY <2>1, <2>2, <2>3
<1>16. CASE Present
  <2>1. TokenInv'
    BY <1>1, <1>2, <1>3, <1>4, <1>6, <1>16 DEF Present, TokenInv, AgainInv, Switching,
       Onward, Blank, Is
  <2>2. NumInv'
    BY <1>1, <1>2, <1>3, <1>4, <1>6, <1>16 DEF Present, NumInv, Numbered, Onward, Blank, Is, Arm
  <2>3. DueInv'
    <3>1. \A i \in expired : Protected(i) /\ Due(i)
      BY <1>16 DEF Present, Is, DueInv, Leaving, Locking
    <3>2. UNCHANGED kind /\ (expired' = {} \/ UNCHANGED <<auto, expired>>)
      BY <1>16 DEF Present
    <3> QED BY <1>7, <3>1, <3>2 DEF Due, Protected
  <2> QED BY <2>1, <2>2, <2>3
<1>17. CASE RestartInit
  <2>1. TokenInv'
    BY <1>1, <1>2, <1>3, <1>4, <1>6, <1>17 DEF RestartInit, TokenInv, AgainInv, Switching,
       Onward, Blank, Is
  <2>2. NumInv'
    BY <1>1, <1>2, <1>3, <1>4, <1>6, <1>17 DEF RestartInit, NumInv, Numbered, Onward, Blank, Is, Arm
  <2>3. DueInv'
    BY <1>1, <1>2, <1>3, <1>4, <1>6, <1>17 DEF RestartInit, DueInv, Due, Leaving, Locking,
       TokenInv, NumInv, Numbered, AgainInv, RestoreInv, Switching, Onward, Blank, Is, Safe,
       RunInv, SwitchInv, PinInv, Typed, Protected
  <2> QED BY <2>1, <2>2, <2>3
<1>18. CASE AutoLocked
  <2>1. TokenInv'
    BY <1>1, <1>2, <1>3, <1>4, <1>6, <1>18 DEF AutoLocked, Drops, TokenInv, AgainInv,
       Switching, Onward, Blank, Is
  <2>2. NumInv'
    BY <1>1, <1>2, <1>3, <1>4, <1>6, <1>18 DEF AutoLocked, Drops, NumInv, Numbered, Onward,
       Blank, Is, Arm
  <2>3. DueInv'
    BY <1>1, <1>2, <1>3, <1>4, <1>6, <1>18 DEF AutoLocked, Drops, DueInv, Due, Leaving,
       Locking, TokenInv, NumInv, Numbered, AgainInv, RestoreInv, Switching, Onward, Blank,
       Is, Safe, RunInv, SwitchInv, PinInv, Typed, Protected
  <2> QED BY <2>1, <2>2, <2>3
<1>19. CASE Imported
  <2>1. TokenInv'
    BY <1>1, <1>2, <1>3, <1>4, <1>6, <1>19 DEF Imported, TokenInv, AgainInv, Switching,
       Onward, Blank, Is
  <2>2. NumInv'
    BY <1>1, <1>2, <1>3, <1>4, <1>6, <1>19 DEF Imported, NumInv, Numbered, Onward, Blank, Is, Arm
  <2>3. DueInv'
    BY <1>1, <1>2, <1>3, <1>4, <1>6, <1>19 DEF Imported, DueInv, Due, Leaving, Locking,
       TokenInv, NumInv, Numbered, AgainInv, RestoreInv, Switching, Onward, Blank, Is, Safe,
       RunInv, SwitchInv, PinInv, Typed, Protected
  <2> QED BY <2>1, <2>2, <2>3
<1>20. CASE Removed
  <2>1. TokenInv'
    BY <1>1, <1>2, <1>3, <1>4, <1>6, <1>20 DEF Removed, Drops, TokenInv, AgainInv,
       Switching, Onward, Blank, Is
  <2>2. NumInv'
    BY <1>1, <1>2, <1>3, <1>4, <1>6, <1>20 DEF Removed, Drops, NumInv, Numbered, Onward,
       Blank, Is, Arm
  <2>3. DueInv'
    BY <1>1, <1>2, <1>3, <1>4, <1>6, <1>20 DEF Removed, Drops, DueInv, Due, Leaving,
       Locking, TokenInv, NumInv, Numbered, AgainInv, RestoreInv, Switching, Onward, Blank,
       Is, Safe, RunInv, SwitchInv, PinInv, Typed, Protected
  <2> QED BY <2>1, <2>2, <2>3
<1>21. CASE StartFails
  <2>1. TokenInv'
    BY <1>1, <1>2, <1>3, <1>4, <1>6, <1>21 DEF StartFails, Failed, TokenInv, AgainInv,
       Switching, Onward, Blank, Is
  <2>2. NumInv'
    BY <1>1, <1>2, <1>3, <1>4, <1>6, <1>21 DEF StartFails, Failed, NumInv, Numbered, Onward,
       Blank, Is, Arm
  <2>3. DueInv'
    BY <1>1, <1>2, <1>3, <1>4, <1>6, <1>21 DEF StartFails, Failed, DueInv, Due, Leaving,
       Locking, TokenInv, NumInv, Numbered, AgainInv, RestoreInv, Switching, Onward, Blank,
       Is, Safe, RunInv, SwitchInv, PinInv, Typed, Protected
  <2> QED BY <2>1, <2>2, <2>3
<1>22. CASE NothingToStart
  <2>1. TokenInv'
    BY <1>1, <1>2, <1>3, <1>4, <1>6, <1>22 DEF NothingToStart, TokenInv, AgainInv,
       Switching, Onward, Blank, Is
  <2>2. NumInv'
    BY <1>1, <1>2, <1>3, <1>4, <1>6, <1>22 DEF NothingToStart, NumInv, Numbered, Onward,
       Blank, Is, Arm
  <2>3. DueInv'
    BY <1>1, <1>2, <1>3, <1>4, <1>6, <1>22 DEF NothingToStart, DueInv, Due, Leaving,
       Locking, TokenInv, NumInv, Numbered, AgainInv, RestoreInv, Switching, Onward, Blank,
       Is, Safe, RunInv, SwitchInv, PinInv, Typed, Protected
  <2> QED BY <2>1, <2>2, <2>3
<1>23. ASSUME NEW i \in Ids, Start(i)
       PROVE  TokenInv' /\ NumInv' /\ DueInv'
  <2>a. /\ hold.at = "start" /\ active' = i /\ active \in {i, None} /\ pin' = None
        /\ UNCHANGED <<kind, waiting, armed>>
    BY <1>23 DEF Start
  <2>b. \/ /\ Onward("after") /\ Stays /\ auto' = None /\ locked' = i /\ expired' = Others(i)
        \/ /\ Onward("load") /\ Stays /\ UNCHANGED <<auto, expired>>
    <3>1. (Staged(i) /\ pin.right) \in BOOLEAN
      OBVIOUS
    <3> QED BY <1>3, <1>23, <3>1 DEF Start
  <2>1. TokenInv'
    BY <1>1, <1>23, <2>a, <2>b DEF Start, TokenInv, Others, Onward, Names
  <2>2. NumInv'
    BY <1>1, <2>a, <2>b DEF NumInv, Numbered, Onward
  <2>3. DueInv'
    <3>1. \A j \in expired : Protected(j)' /\ Due(j)
      BY <1>8, <2>a DEF Protected
    <3>2. CASE UNCHANGED <<auto, expired>>
      BY <1>7, <3>1, <3>2 DEF Due
    <3>3. ASSUME Onward("after"), Stays, locked' = i, expired' = Others(i), NEW j \in expired'
          PROVE  Leaving' /\ j = hold'.prev /\ j # hold'.id
      <4>1. j = hold.prev /\ j # i /\ j # None
        BY <1>1, <3>3 DEF Others
      <4>2. Switching /\ ~hold.again
        BY <1>1, <2>a, <4>1 DEF AgainInv, RestoreInv
      <4>3. hold.op = "switch" /\ active = hold.id
        BY <1>1, <2>a, <3>3, <4>1, <4>2 DEF Switching, TokenInv, Others, Safe, SwitchInv
      <4> QED BY <1>1, <2>a, <3>3, <4>1, <4>2, <4>3 DEF Leaving, Is, Onward, Names
    <3> QED BY <2>b, <3>1, <3>2, <3>3 DEF DueInv, Others
  <2> QED BY <2>1, <2>2, <2>3
<1>24. CASE Loads
  <2>1. TokenInv'
    BY <1>1, <1>2, <1>3, <1>4, <1>6, <1>24 DEF Loads, Others, Opens, TokenInv, AgainInv,
       Switching, Onward, Blank, Is
  <2>2. NumInv'
    <3>1. Onward("after") /\ UNCHANGED waiting
      BY <1>3, <1>24 DEF Loads
    <3>2. CASE Protected(active) /\ Arm(active, Deadline(active))
      <4>1. active \in Ids
        BY <1>1, <3>2 DEF Protected, Opt
      <4> QED BY <1>1, <3>1, <3>2, <4>1, ArmNumbers DEF Onward
    <3>3. CASE auto' = None /\ UNCHANGED armed
      BY <1>1, <3>1, <3>3 DEF NumInv, Numbered, Onward
    <3> QED BY <1>24, <3>2, <3>3 DEF Loads
  <2>3. DueInv'
    <3>1. /\ hold.at = "load" /\ Onward("after") /\ Stays /\ UNCHANGED <<active, kind>>
          /\ runtime' = active /\ expired' \subseteq Others(active) \union (expired \intersect {active})
      BY <1>3, <1>24 DEF Loads
    <3>2. \A j \in expired : Protected(j)' /\ Due(j)
      BY <1>8, <3>1 DEF Protected
    <3>3. ASSUME NEW j \in expired', j # active
          PROVE  Leaving' /\ j = hold'.prev /\ j # hold'.id
      <4>1. j = hold.prev /\ j # None /\ j \in expired
        BY <1>1, <3>1, <3>3 DEF Others
      <4>2. Switching /\ ~hold.again
        BY <1>1, <3>1, <3>3, <4>1 DEF AgainInv, RestoreInv
      <4>3. hold.op = "switch" /\ active = hold.id
        BY <1>1, <3>1, <3>3, <4>1, <4>2 DEF Switching, TokenInv, Safe, SwitchInv
      <4> QED BY <1>1, <3>1, <3>3, <4>1, <4>2, <4>3 DEF Leaving, Is, Onward, Stays
    <3>4. ASSUME active \in expired'
          PROVE  Due(active)'
      <4>1. Due(active) /\ Protected(active)
        BY <1>1, <1>8, <3>1, <3>4 DEF Others
      <4>2. ~(retained # active /\ hold.right)
        BY <1>24, <3>4 DEF Loads, Others
      <4>3. retained = active
        BY <1>24, <4>1, <4>2 DEF Loads, Opens
      <4>4. Deadline(active)
        BY <4>1, <4>3 DEF Due, Deadline
      <4>5. auto' = [id |-> active, num |-> armed', due |-> Deadline(active)]
        BY <1>24, <4>1 DEF Loads, Arm
      <4>6. auto' \in [id : Ids, num : Nat, due : BOOLEAN]
        BY <1>1, <1>24, <3>1, <4>1, <4>4, <4>5 DEF Loads, Arm, Due
      <4> QED BY <3>1, <4>4, <4>5, <4>6, SessionAssumption DEF Due
    <3> QED BY <3>1, <3>2, <3>3, <3>4 DEF DueInv, Others
  <2> QED BY <2>1, <2>2, <2>3
<1>25. CASE LoadFails
  <2>1. TokenInv'
    BY <1>1, <1>2, <1>3, <1>4, <1>6, <1>25 DEF LoadFails, Others, Opens, Failed, TokenInv,
       AgainInv, Switching, Onward, Blank, Is
  <2>2. NumInv'
    BY <1>1, <1>2, <1>3, <1>4, <1>6, <1>25 DEF LoadFails, Others, Opens, Failed, NumInv,
       Numbered, Onward, Blank, Is, Arm
  <2>3. DueInv'
    <3>1. hold.at = "load" /\ Onward("after") /\ Stays /\ UNCHANGED <<active, kind>>
      BY <1>3, <1>25 DEF LoadFails
    <3>2. \A j \in expired : Protected(j)' /\ Due(j)
      BY <1>8, <3>1 DEF Protected
    <3>3. CASE UNCHANGED <<auto, expired>>
      BY <1>7, <3>2, <3>3 DEF Due
    <3>4. ASSUME locked' = active, expired' = Others(active), NEW j \in expired'
          PROVE  Leaving' /\ j = hold'.prev /\ j # hold'.id
      <4>1. j = hold.prev /\ j # None /\ j # active /\ j \in expired
        BY <1>1, <3>4 DEF Others
      <4>2. Switching /\ ~hold.again
        BY <1>1, <3>1, <4>1 DEF AgainInv, RestoreInv
      <4>3. hold.op = "switch" /\ active = hold.id
        BY <1>1, <3>1, <4>1, <4>2 DEF Switching, TokenInv, Safe, SwitchInv
      <4> QED BY <1>1, <3>1, <3>4, <4>1, <4>2, <4>3 DEF Leaving, Is, Onward, Stays
    <3> QED BY <1>25, <3>2, <3>3, <3>4 DEF LoadFails, DueInv, Others
  <2> QED BY <2>1, <2>2, <2>3
<1>26. CASE Settle
  <2>1. TokenInv'
    BY <1>1, <1>2, <1>3, <1>4, <1>6, <1>26 DEF Settle, Drops, SwitchEnds, NoSwitch,
       TokenInv, AgainInv, Switching, Onward, Blank, Is
  <2>2. NumInv'
    BY <1>1, <1>2, <1>3, <1>4, <1>6, <1>26 DEF Settle, Drops, SwitchEnds, NoSwitch, NumInv,
       Numbered, Onward, Blank, Is, Arm
  <2>3. DueInv'
    BY <1>1, <1>2, <1>3, <1>4, <1>6, <1>26 DEF Settle, Drops, SwitchEnds, NoSwitch, DueInv,
       Due, Leaving, Locking, TokenInv, NumInv, Numbered, AgainInv, RestoreInv, Switching,
       Onward, Blank, Is, Safe, RunInv, SwitchInv, PinInv, Typed, Protected
  <2> QED BY <2>1, <2>2, <2>3
<1>27. CASE RollBack
  <2>1. TokenInv'
    BY <1>1, <1>2, <1>3, <1>4, <1>6, <1>27 DEF RollBack, TokenInv, AgainInv, Switching,
       Onward, Blank, Is
  <2>2. NumInv'
    BY <1>1, <1>2, <1>3, <1>4, <1>6, <1>27 DEF RollBack, NumInv, Numbered, Onward, Blank, Is, Arm
  <2>3. DueInv'
    BY <1>1, <1>2, <1>3, <1>4, <1>6, <1>27 DEF RollBack, DueInv, Due, Leaving, Locking,
       TokenInv, NumInv, Numbered, AgainInv, RestoreInv, Switching, Onward, Blank, Is, Safe,
       RunInv, SwitchInv, PinInv, Typed, Protected
  <2> QED BY <2>1, <2>2, <2>3
<1>28. CASE Resume
  <2>1. TokenInv'
    BY <1>1, <1>2, <1>3, <1>4, <1>6, <1>28 DEF Resume, TokenInv, AgainInv, Switching,
       Onward, Blank, Is
  <2>2. NumInv'
    BY <1>1, <1>2, <1>3, <1>4, <1>6, <1>28 DEF Resume, NumInv, Numbered, Onward, Blank, Is, Arm
  <2>3. DueInv'
    BY <1>1, <1>2, <1>3, <1>4, <1>6, <1>28 DEF Resume, DueInv, Due, Leaving, Locking,
       TokenInv, NumInv, Numbered, AgainInv, RestoreInv, Switching, Onward, Blank, Is, Safe,
       RunInv, SwitchInv, PinInv, Typed, Protected
  <2> QED BY <2>1, <2>2, <2>3
<1>29. CASE Resumed
  <2>1. TokenInv'
    BY <1>1, <1>2, <1>3, <1>4, <1>6, <1>29 DEF Resumed, TokenInv, AgainInv, Switching,
       Onward, Blank, Is
  <2>2. NumInv'
    BY <1>1, <1>2, <1>3, <1>4, <1>6, <1>29 DEF Resumed, NumInv, Numbered, Onward, Blank, Is, Arm
  <2>3. DueInv'
    BY <1>1, <1>2, <1>3, <1>4, <1>6, <1>29 DEF Resumed, DueInv, Due, Leaving, Locking,
       TokenInv, NumInv, Numbered, AgainInv, RestoreInv, Switching, Onward, Blank, Is, Safe,
       RunInv, SwitchInv, PinInv, Typed, Protected
  <2> QED BY <2>1, <2>2, <2>3
<1>30. CASE SwitchFailed
  <2>1. TokenInv'
    BY <1>1, <1>2, <1>3, <1>4, <1>6, <1>30 DEF SwitchFailed, SwitchEnds, NoSwitch, TokenInv,
       AgainInv, Switching, Onward, Blank, Is
  <2>2. NumInv'
    BY <1>1, <1>2, <1>3, <1>4, <1>6, <1>30 DEF SwitchFailed, SwitchEnds, NoSwitch, NumInv,
       Numbered, Onward, Blank, Is, Arm
  <2>3. DueInv'
    BY <1>1, <1>2, <1>3, <1>4, <1>6, <1>30 DEF SwitchFailed, SwitchEnds, NoSwitch, DueInv,
       Due, Leaving, Locking, TokenInv, NumInv, Numbered, AgainInv, RestoreInv, Switching,
       Onward, Blank, Is, Safe, RunInv, SwitchInv, PinInv, Typed, Protected
  <2> QED BY <2>1, <2>2, <2>3
<1>31. CASE Unlocked
  <2>1. TokenInv'
    BY <1>1, <1>2, <1>3, <1>4, <1>6, <1>31 DEF Unlocked, SwitchEnds, NoSwitch, TokenInv,
       AgainInv, Switching, Onward, Blank, Is
  <2>2. NumInv'
    BY <1>1, <1>2, <1>3, <1>4, <1>6, <1>31 DEF Unlocked, SwitchEnds, NoSwitch, NumInv,
       Numbered, Onward, Blank, Is, Arm
  <2>3. DueInv'
    BY <1>1, <1>2, <1>3, <1>4, <1>6, <1>31 DEF Unlocked, SwitchEnds, NoSwitch, DueInv, Due,
       Leaving, Locking, TokenInv, NumInv, Numbered, AgainInv, RestoreInv, Switching,
       Onward, Blank, Is, Safe, RunInv, SwitchInv, PinInv, Typed, Protected
  <2> QED BY <2>1, <2>2, <2>3
<1>32. ASSUME NEW op \in {"startup", "restart"}, Ends(op)
       PROVE  TokenInv' /\ NumInv' /\ DueInv'
  <2>1. TokenInv'
    BY <1>1, <1>2, <1>3, <1>4, <1>6, <1>32 DEF Ends, TokenInv, AgainInv, Switching, Onward,
       Blank, Is
  <2>2. NumInv'
    BY <1>1, <1>2, <1>3, <1>4, <1>6, <1>32 DEF Ends, NumInv, Numbered, Onward, Blank, Is, Arm
  <2>3. DueInv'
    BY <1>7, <1>32 DEF Ends, Is, DueInv, Due, Leaving, Locking, Protected
  <2> QED BY <2>1, <2>2, <2>3
<1> QED BY <1>11, <1>12, <1>13, <1>14, <1>15, <1>16, <1>17, <1>18, <1>19, <1>20, <1>21,
    <1>22, <1>23, <1>24, <1>25, <1>26, <1>27, <1>28, <1>29, <1>30, <1>31, <1>32 DEF Proceed

LEMMA TimedStep ==
  ASSUME Typed, Safe, AgainInv, RestoreInv, TokenInv, NumInv, DueInv, [Next]_vars
  PROVE  TokenInv' /\ NumInv' /\ DueInv'
<1> USE DEF rowv, runv, keyv, askv, idlev, histv
<1>1. ASSUME UNCHANGED <<active, runtime, kind, hold, locked, opened, auto, armed, expired>>,
             \A c \in waiting' \ waiting : c.op # "autolock"
      PROVE  TokenInv' /\ NumInv' /\ DueInv'
  BY <1>1 DEF TokenInv, NumInv, Numbered, DueInv, Due, Leaving, Locking, Is, Protected
<1>2. CASE UNCHANGED vars
  BY <1>1, <1>2 DEF vars
<1>3. CASE User
  BY <1>1, <1>3, UserTyped
<1>4. CASE Transition
  BY <1>4, BeginTimed, ProceedTimed DEF Transition
<1>5. CASE AutoLockFires
  <2> DEFINE b == Command("autolock", auto.id)
             c == [b EXCEPT !.num = auto.num]
  <2>1. auto.id \in Ids /\ auto.num \in Nat /\ auto # None
    BY <1>5 DEF AutoLockFires, Typed, Types, Keys
  <2>2. b \in Holds /\ b.id = auto.id
    <3>1. "autolock" \in Ops /\ auto.id \in Opt
      BY <2>1 DEF Ops, Opt
    <3> QED BY <3>1, CommandType
  <2> HIDE DEF b
  <2>3. c.id = auto.id /\ c.num = auto.num
    BY <2>2 DEF Holds
  <2>4. waiting' = waiting \union {c}
        /\ UNCHANGED <<active, runtime, kind, hold, locked, opened, auto, armed, expired>>
    BY <1>5 DEF AutoLockFires, b
  <2> HIDE DEF c
  <2>5. Numbered(c)
    BY <2>1, <2>3 DEF Numbered, NumInv
  <2> QED BY <2>4, <2>5 DEF TokenInv, NumInv, Numbered, DueInv, Due, Leaving, Locking, Is, Protected
<1>6. CASE TimePasses
  <2>1. /\ auto # None /\ ~auto.due /\ auto' = [auto EXCEPT !.due = TRUE]
        /\ auto \in [id : Ids, num : Nat, due : BOOLEAN] /\ None \notin Ids
        /\ UNCHANGED <<active, runtime, kind, hold, locked, opened, armed, waiting>>
        /\ expired' = expired \union {i \in opened : i = auto.id /\ Protected(i)}
    BY <1>6, SessionAssumption DEF TimePasses, Typed, Types, Keys
  <2>2. auto' # None /\ auto'.id = auto.id /\ auto'.num = auto.num /\ auto'.due
    BY <2>1, SessionAssumption
  <2>3. NumInv'
    BY <2>1, <2>2 DEF NumInv, Numbered
  <2>4. TokenInv'
    BY <2>1 DEF TokenInv
  <2>5. DueInv'
    BY <2>1, <2>2 DEF DueInv, Due, Leaving, Locking, Is, Protected
  <2> QED BY <2>3, <2>4, <2>5
<1>7. CASE ProgressFinds
  BY <1>1, <1>7 DEF ProgressFinds
<1>8. CASE ProgressClears
  <2>1. UNCHANGED <<active, runtime, kind, hold, opened, auto, armed, waiting>>
        /\ expired' = IF hold.at = "after" THEN {} ELSE expired
    BY <1>8 DEF ProgressClears
  <2> QED BY <2>1 DEF TokenInv, NumInv, Numbered, DueInv, Due, Leaving, Locking, Is, Protected
<1>9. CASE TakeFence \/ AcquireMutation \/ AcquireRoutine \/ Land \/ \E c \in waiting : Acquire(c)
  <2>1. UNCHANGED <<active, runtime, kind, locked, opened, auto, armed, expired>>
        /\ waiting' \subseteq waiting /\ (hold' = hold \/ hold' \in waiting \union {Free, Served})
    BY <1>9 DEF TakeFence, AcquireMutation, AcquireRoutine, Land, Acquire, Accepts, Rejects
  <2>2. CASE hold' = hold
    BY <1>1, <2>1, <2>2
  <2>3. CASE hold' # hold
    <3>1. hold.at \in {"free", "request"}
      BY <1>9, <2>3, Distinct DEF TakeFence, AcquireMutation, AcquireRoutine, Land, Acquire,
         Accepts, Rejects, Typed, Serving
    <3>2. hold'.at \in {"free", "request", "begin"} /\ (hold' \in Holds => hold' \in waiting)
      BY <2>1, <2>3, Distinct DEF Typed, Named
    <3> QED BY <2>1, <3>1, <3>2 DEF TokenInv, NumInv, Numbered, DueInv, Due, Leaving,
        Locking, Is, Protected
  <2> QED BY <2>2, <2>3
<1> QED BY <1>2, <1>3, <1>4, <1>5, <1>6, <1>7, <1>8, <1>9 DEF Next

-----------------------------------------------------------------------------
IInv ==
  /\ Typed /\ FenceInv /\ Safe
  /\ AgainInv /\ RestoreInv
  /\ TokenInv /\ NumInv /\ DueInv
  /\ born \in (Opt \X Opt \X Nat) \union {Left}

LEMMA InitIInv == Init => IInv
<1> SUFFICES ASSUME Init PROVE IInv
  OBVIOUS
<1>1. /\ hold \in Holds /\ hold.op = "startup" /\ hold.at = "start" /\ ~hold.right
  <2>1. "startup" \in Ops /\ None \in Opt
    BY DEF Ops, Opt
  <2> DEFINE c == Command("startup", None)
  <2>2. c \in Holds /\ c.op = "startup" /\ c.right = FALSE
    <3>1. \A op \in Ops, i \in Opt :
            Command(op, i) \in Holds /\ Command(op, i).op = op /\ Command(op, i).right = FALSE
      BY CommandType
    <3> QED BY <2>1, <3>1
  <2>3. hold = [c EXCEPT !.at = "start"]
    BY DEF Init
  <2> HIDE DEF c
  <2> QED BY <2>2, <2>3 DEF Holds, Steps
<1>2. Rows /\ Keys /\ Past
  BY SessionAssumption DEF Init, Rows, Keys, Past, Opt, NoSwitch
<1>3. Locks /\ Screens /\ Counts
  BY <1>1 DEF Init, Locks, Screens, Counts, Fences, NoFence, Opt
<1>4. Named /\ PinInv /\ Serving
  BY <1>1, Distinct DEF Init, Named, Names, PinInv, Serving
<1>5. FenceInv
  BY <1>1, Distinct DEF Init, FenceInv, Parity
<1>6. Safe
  BY <1>1 DEF Init, Safe, RetainedInv, PreparedInv, Prepared, RunInv, SwitchInv, OpenedBySecret
<1>7. born \in Opt \X Opt \X Nat
  BY DEF Init, NoBirth, Opt
<1>8. Blank(hold)
  <2>1. "startup" \in Ops /\ None \in Opt
    BY DEF Ops, Opt
  <2> DEFINE c == Command("startup", None)
  <2>2. c \in Holds /\ Blank(c)
    BY <2>1, CommandType
  <2>3. hold = [c EXCEPT !.at = "start"]
    BY DEF Init
  <2> HIDE DEF c
  <2> QED BY <2>2, <2>3 DEF Holds, Blank
<1>9. AgainInv /\ RestoreInv
  BY <1>1, <1>8 DEF Init, AgainInv, RestoreInv, Switching, Blank
<1>10. TokenInv /\ NumInv /\ DueInv
  BY <1>1 DEF Init, TokenInv, NumInv, Numbered, DueInv
<1> QED BY <1>2, <1>3, <1>4, <1>5, <1>6, <1>7, <1>9, <1>10 DEF IInv, Typed, Types

LEMMA NextIInv == IInv /\ [Next]_vars => IInv'
<1> SUFFICES ASSUME IInv, [Next]_vars PROVE IInv'
  OBVIOUS
<1>1. Typed' /\ FenceInv' /\ Safe' /\ AgainInv' /\ RestoreInv'
  BY NextTyped, FenceStep, SafeStep, RestoreStep DEF IInv
<1>3. TokenInv' /\ NumInv' /\ DueInv'
  BY TimedStep DEF IInv
<1>2. born' \in (Opt \X Opt \X Nat) \union {Left}
  BY <1>1, BornType DEF IInv, Next, vars, Opt
<1> QED BY <1>1, <1>2, <1>3 DEF IInv

LEMMA Invariance == Spec => []IInv
<1> QED BY InitIInv, NextIInv, PTL DEF Spec

(* Every variable has the values the code can give it, for every set of    *)
(* identities, and the epoch is odd just while a transition holds the lock *)
(* (init, shutdown and the identity commands).                             *)
THEOREM SessionTypes == Spec => []TypeOK
<1>1. IInv => TypeOK
  BY DEF IInv, Typed, Types, Rows, Keys, Locks, Screens, Counts, Past, FenceInv, Parity, TypeOK
<1> QED BY <1>1, Invariance, PTL

(* A request that acquire_identity_mutation or acquire_identity_routine    *)
(* accepts lands in the session its fence was taken in, although the two   *)
(* halves of the fence are read one after the other and outside the lock.  *)
THEOREM LandsWhereItWasBorn == Spec => []LandsInSession
<1>1. IInv => LandsInSession
  BY DEF IInv, Typed, Serving, FenceInv, LandsInSession
<1> QED BY <1>1, Invariance, PTL

(* A protected identity is loaded by init_rns_lxmf only after its secret   *)
(* was given: a staged secret serves the identity it was staged for, and a *)
(* retained unlock the identity it was retained for.                       *)
THEOREM NothingRunsUnopened == Spec => []OpenedBySecret
<1>1. IInv => OpenedBySecret
  BY DEF IInv, Safe
<1> QED BY <1>1, Invariance, PTL

(* Between transitions the loaded manager is the one of the active row and *)
(* is not marked locked, whatever failed in a switch, its roll-back, an    *)
(* unlock or an auto-lock.                                                 *)
THEOREM ActiveIsWhatRuns == Spec => []RuntimeIsActive
<1>1. IInv => RuntimeIsActive
  BY DEF IInv, Safe, RunInv, RuntimeIsActive
<1> QED BY <1>1, Invariance, PTL

(* A switch that fails and whose roll-back does not fail brings back the   *)
(* active row, the manager and the retained unlock it left, at whatever    *)
(* step of switch_identity_session_held or hw_activate_and_unlock it       *)
(* failed (resume_previous).                                               *)
THEOREM FailedSwitchRestores == Spec => []Restored
<1>1. IInv => Restored
  BY DEF IInv, AgainInv, RestoreInv, Switching, Back, Is, Restored
<1> QED BY <1>1, Invariance, PTL

(* arm_auto_lock: an identity whose auto-lock fell due while it was open   *)
(* never runs between transitions on a deadline that is not due, whatever  *)
(* was restarted or switched in vain meanwhile.                            *)
THEOREM DueStaysDue == Spec => []DeadlineKept
<1>1. IInv => DeadlineKept
  BY DEF IInv, DueInv, Due, Leaving, Locking, Is, DeadlineKept
<1> QED BY <1>1, Invariance, PTL

=============================================================================
