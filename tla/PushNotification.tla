-------------------------- MODULE PushNotification --------------------------
(***************************************************************************)
(* Push notifications (notification/notification.service.ts and            *)
(* dao/notification.dao.ts).  Services create a notice as READY and delete *)
(* it again when a like or a follow is taken back.  Every three seconds a  *)
(* job reads the registered devices, lists the READY notices, marks them   *)
(* PROCESSING, sends them to Expo chunk by chunk and writes all outcomes,  *)
(* FIX or ERROR, in one statement.  Statuses are written by id, whatever   *)
(* the row holds by then, and nothing keeps a job from starting while an   *)
(* earlier one is still under way.                                         *)
(*                                                                         *)
(* A notice makes one message for each device of its receiver, and the SDK *)
(* cuts the messages into chunks of 100, between two devices of a receiver *)
(* if the border falls there; here a chunk is any set of messages.         *)
(*                                                                         *)
(* Left out: texts, badges and sounds; the column last_read_at.            *)
(***************************************************************************)
EXTENDS Naturals, FiniteSets

CONSTANTS
  Notices,
  Members,
  To,          \* [Notices -> Members], the receiver
  Devices,     \* Expo push tokens
  Registered,  \* what tokens_expo may hold at first, a set of [Devices -> Owners]
  NoMember,    \* "nobody has registered the device"
  NoDevice,    \* "the receiver has no device"
  Runs,        \* activations of the job that may be alive together
  MaxMoves,    \* bound: how often a device is registered
  MaxMishaps   \* bound: how often an await throws or the process dies

ASSUME NoticesAssumption == To \in [Notices -> Members] /\ NoMember \notin Members
ASSUME DevicesAssumption ==
  /\ NoDevice \notin Devices
  /\ Registered \subseteq [Devices -> Members \cup {NoMember}]
ASSUME RunsAssumption == IsFiniteSet(Runs)
ASSUME BoundsAssumption == MaxMoves \in Nat /\ MaxMishaps \in Nat

VARIABLES
  status,    \* [Notices -> Statuses]
  owner,     \* [Devices -> Members], tokens_expo
  pc,
  seen,      \* the devices as the run read them
  batch,     \* the notices the run has listed
  todo,      \* the messages not sent yet
  fixed,     \* notices whose first entry in statusUpdates says FIX
  failed,    \* ... and ERROR
  pushed,    \* how often Expo accepted a message
  astray,    \* history: messages that went to another member's device
  moved,     \* history: devices that changed hands under a run that had read them
  unsure,    \* history: notices that Expo accepted although the call threw
  parted,    \* history: notices that a run sent in more than one chunk
  lost,      \* history: notices whose run ended between the two updates
  excuses,   \* history: how often a notice was listed by one run more
  moves,
  mishaps

rows == <<status, owner>>
local == <<pc, seen, batch, todo, fixed, failed>>
history == <<astray, moved, unsure, parted, lost, excuses>>
bounds == <<moves, mishaps>>
vars == <<rows, local, pushed, history, bounds>>

Statuses == {"NONE", "READY", "PROCESSING", "FIX", "ERROR", "DELETED"}
Owners == Members \cup {NoMember}
Messages == Notices \X (Devices \cup {NoDevice})

\* The notices of some messages, and the messages of some notices.
NoticesOf(S) == {m[1] : m \in S}
MessagesOf(S) == {m \in Messages : m[1] \in S}

TypeOK ==
  /\ status \in [Notices -> Statuses]
  /\ owner \in [Devices -> Owners]
  /\ pc \in [Runs -> {"idle", "list", "mark", "send", "save"}]
  /\ seen \in [Runs -> [Devices -> Owners]]
  /\ batch \in [Runs -> SUBSET Notices]
  /\ todo \in [Runs -> SUBSET Messages]
  /\ fixed \in [Runs -> SUBSET Notices]
  /\ failed \in [Runs -> SUBSET Notices]
  /\ \A r \in Runs :
       IF pc[r] \in {"send", "save"}
       THEN batch[r] = NoticesOf(todo[r]) \cup fixed[r] \cup failed[r]
       ELSE todo[r] = {} /\ fixed[r] = {} /\ failed[r] = {}
  /\ pushed \in [Messages -> Nat]
  /\ astray \subseteq Messages
  /\ moved \subseteq Devices
  /\ unsure \subseteq Notices
  /\ parted \subseteq Notices
  /\ lost \subseteq Notices
  /\ excuses \in [Notices -> Nat]
  /\ moves \in 0..MaxMoves
  /\ mishaps \in 0..MaxMishaps

NoDevices == [d \in Devices |-> NoMember]

Init ==
  /\ status = [n \in Notices |-> "NONE"]
  /\ owner \in Registered
  /\ pc = [r \in Runs |-> "idle"]
  /\ seen = [r \in Runs |-> NoDevices]
  /\ batch = [r \in Runs |-> {}]
  /\ todo = [r \in Runs |-> {}]
  /\ fixed = [r \in Runs |-> {}]
  /\ failed = [r \in Runs |-> {}]
  /\ pushed = [m \in Messages |-> 0]
  /\ astray = {}
  /\ moved = {}
  /\ unsure = {}
  /\ parted = {}
  /\ lost = {}
  /\ excuses = [n \in Notices |-> 0]
  /\ moves = 0
  /\ mishaps = 0

-----------------------------------------------------------------------------
(* Helpers *)

Goto(r, l) == pc' = [pc EXCEPT ![r] = l]

\* Mutant: updateStatus saves whole rows and so brings a deleted one back.
Resaved(S, s) == [n \in Notices |-> IF n \in S THEN s ELSE status[n]]

\* updateStatus: the rows of S that still exist get status s.
Updated(S, s) ==
  [n \in Notices |-> IF n \in S /\ status[n] \notin {"NONE", "DELETED"} THEN s ELSE status[n]]

\* Mutant: a chunk goes to every registered device.
AllDevices(r, n) == {d \in Devices : seen[r][d] # NoMember}

\* The devices the run believes to be the receiver's.
Targets(r, n) == {d \in Devices : seen[r][d] = To[n]}

\* The messages the run makes of a notice; without a device `to' is undefined.
Format(r, n) == {n} \X (IF Targets(r, n) = {} THEN {NoDevice} ELSE Targets(r, n))

\* What other runs have listed; as long as it is READY they have not marked it.
Shared(r) == {n \in Notices : \E q \in Runs \ {r} : n \in batch[q]}

\* The run is over.
EndRun(r) ==
  /\ Goto(r, "idle")
  /\ seen' = [seen EXCEPT ![r] = NoDevices]
  /\ batch' = [batch EXCEPT ![r] = {}]
  /\ todo' = [todo EXCEPT ![r] = {}]
  /\ fixed' = [fixed EXCEPT ![r] = {}]
  /\ failed' = [failed EXCEPT ![r] = {}]

\* What a run leaves PROCESSING for good if it ends here.
Pending(r) == IF pc[r] \in {"send", "save"} THEN batch[r] ELSE {}

Mishap ==
  /\ mishaps < MaxMishaps
  /\ mishaps' = mishaps + 1

-----------------------------------------------------------------------------
(* The other services *)

\* createNotification.
Create(n) ==
  /\ status[n] = "NONE"
  /\ status' = [status EXCEPT ![n] = "READY"]
  /\ UNCHANGED <<owner, local, pushed, history, bounds>>

\* deleteNotificationByParentIdAndType, deleteNotification.
Delete(n) ==
  /\ status[n] \notin {"NONE", "DELETED"}
  /\ status' = [status EXCEPT ![n] = "DELETED"]
  /\ UNCHANGED <<owner, local, pushed, history, bounds>>

\* addTokenForMember: a device is registered, or passes to another member.
AddToken(d, m) ==
  /\ moves < MaxMoves
  /\ owner[d] # m
  /\ owner' = [owner EXCEPT ![d] = m]
  /\ moved' = IF \E r \in Runs : seen[r][d] # NoMember THEN moved \cup {d} ELSE moved
  /\ moves' = moves + 1
  /\ UNCHANGED <<status, local, pushed, astray, unsure, parted, lost, excuses, mishaps>>

-----------------------------------------------------------------------------
(* A run of sendPushNotifications *)

\* Without a device anywhere the run returns at once.
ReadTokens(r) ==
  /\ pc[r] = "idle"
  /\ owner # NoDevices
  /\ seen' = [seen EXCEPT ![r] = owner]
  /\ Goto(r, "list")
  /\ UNCHANGED <<rows, batch, todo, fixed, failed, pushed, history, bounds>>

FindReadyNotifications == {n \in Notices : status[n] = "READY"}

ListReady(r) ==
  /\ pc[r] = "list"
  /\ IF FindReadyNotifications = {}
     THEN EndRun(r)
     ELSE /\ batch' = [batch EXCEPT ![r] = FindReadyNotifications]
          /\ Goto(r, "mark")
          /\ UNCHANGED <<seen, todo, fixed, failed>>
  /\ excuses' = [n \in Notices |->
                   IF n \in FindReadyNotifications \cap Shared(r)
                   THEN excuses[n] + 1 ELSE excuses[n]]
  /\ UNCHANGED <<rows, pushed, astray, moved, unsure, parted, lost, bounds>>

Mark(r) ==
  /\ pc[r] = "mark"
  /\ status' = Updated(batch[r], "PROCESSING")
  /\ todo' = [todo EXCEPT ![r] = UNION {Format(r, n) : n \in batch[r]}]
  /\ Goto(r, "send")
  /\ UNCHANGED <<owner, seen, batch, fixed, failed, pushed, history, bounds>>

\* Expo takes the chunk.
Accept(chunk) ==
  /\ pushed' = [m \in Messages |-> IF m \in chunk THEN pushed[m] + 1 ELSE pushed[m]]
  /\ astray' = astray \cup {m \in chunk : m[2] \in Devices /\ owner[m[2]] # To[m[1]]}

\* The loop over the chunks goes on.
AfterChunk(r, chunk) ==
  /\ todo' = [todo EXCEPT ![r] = @ \ chunk]
  /\ parted' = parted \cup (NoticesOf(chunk) \cap NoticesOf(todo[r] \ chunk))
  /\ Goto(r, IF todo[r] = chunk THEN "save" ELSE "send")
  /\ UNCHANGED <<rows, seen, batch, moved, lost, excuses, moves>>

\* An outcome is noted for every notice of the chunk.  updateStatus makes a CASE
\* of all of them, in which the first entry of a notice decides.
NoteFix(r, chunk) ==
  /\ fixed' = [fixed EXCEPT ![r] = @ \cup (NoticesOf(chunk) \ failed[r])]
  /\ UNCHANGED failed

NoteError(r, chunk) ==
  /\ failed' = [failed EXCEPT ![r] = @ \cup (NoticesOf(chunk) \ fixed[r])]
  /\ UNCHANGED fixed

\* Mutant: the catch clause notes success.
SendOkAlways(r) ==
  /\ pc[r] = "send"
  /\ \E chunk \in SUBSET todo[r] \ {{}} : NoteFix(r, chunk) /\ AfterChunk(r, chunk)
  /\ UNCHANGED <<pushed, astray, unsure, mishaps>>

\* Expo answers; what the single tickets say is not looked at.
SendOk(r) ==
  /\ pc[r] = "send"
  /\ \E chunk \in SUBSET todo[r] \ {{}} :
       Accept(chunk) /\ NoteFix(r, chunk) /\ AfterChunk(r, chunk)
  /\ UNCHANGED <<unsure, mishaps>>

\* Mutant: a chunk whose call throws is sent once more.
SendThrowsRetried(r) ==
  /\ pc[r] = "send"
  /\ Mishap
  /\ \E chunk \in SUBSET todo[r] \ {{}} :
       Accept(chunk) /\ unsure' = unsure \cup NoticesOf(chunk)
  /\ UNCHANGED <<rows, local, moved, parted, lost, excuses, moves>>

\* The call throws.  A message without a device has no addressee, and Expo may
\* refuse its chunk at any time.  Otherwise the service is out of reach, or its
\* answer is lost.
SendThrows(r) ==
  /\ pc[r] = "send"
  /\ \E chunk \in SUBSET todo[r] \ {{}} :
       /\ \/ /\ \E m \in chunk : m[2] = NoDevice
             /\ UNCHANGED <<pushed, astray, unsure, mishaps>>
          \/ Mishap /\ UNCHANGED <<pushed, astray, unsure>>
          \/ Mishap /\ Accept(chunk) /\ unsure' = unsure \cup NoticesOf(chunk)
       /\ NoteError(r, chunk)
       /\ AfterChunk(r, chunk)

\* Mutant: only the successes are written.
SaveSuccesses(r) ==
  /\ pc[r] = "save"
  /\ status' = Updated(fixed[r], "FIX")
  /\ EndRun(r)
  /\ UNCHANGED <<owner, pushed, history, bounds>>

\* One statement writes all outcomes.
SaveOutcome(r) ==
  /\ pc[r] = "save"
  /\ status' = [n \in Notices |->
                  IF n \in fixed[r] THEN Updated(fixed[r], "FIX")[n]
                  ELSE Updated(failed[r], "ERROR")[n]]
  /\ EndRun(r)
  /\ UNCHANGED <<owner, pushed, history, bounds>>

-----------------------------------------------------------------------------
(* What goes wrong *)

\* A statement throws and the run ends.
StatementThrows(r) ==
  /\ pc[r] \in {"list", "mark", "save"}
  /\ Mishap
  /\ lost' = lost \cup Pending(r)
  /\ EndRun(r)
  /\ UNCHANGED <<rows, pushed, astray, moved, unsure, parted, excuses, moves>>

Crash ==
  /\ \E r \in Runs : pc[r] # "idle"
  /\ Mishap
  /\ lost' = lost \cup UNION {Pending(r) : r \in Runs}
  /\ pc' = [r \in Runs |-> "idle"]
  /\ seen' = [r \in Runs |-> NoDevices]
  /\ batch' = [r \in Runs |-> {}]
  /\ todo' = [r \in Runs |-> {}]
  /\ fixed' = [r \in Runs |-> {}]
  /\ failed' = [r \in Runs |-> {}]
  /\ UNCHANGED <<rows, pushed, astray, moved, unsure, parted, excuses, moves>>

-----------------------------------------------------------------------------
RunStep(r) ==
  \/ ReadTokens(r) \/ ListReady(r) \/ Mark(r)
  \/ SendOk(r) \/ SendThrows(r) \/ SaveOutcome(r)

Next ==
  \/ \E n \in Notices : Create(n) \/ Delete(n)
  \/ \E d \in Devices, m \in Members : AddToken(d, m)
  \/ \E r \in Runs : RunStep(r) \/ StatementThrows(r)
  \/ Crash

Spec == Init /\ [][Next]_vars

\* The job starts every three seconds and each of its awaits ends.
Fairness == \A r \in Runs : WF_vars(RunStep(r))

FairSpec == Spec /\ Fairness

-----------------------------------------------------------------------------
(* What pushing promises *)

\* A status tells what happened.  READY: nobody has sent the notice, for it is
\* marked before it is sent.  FIX: Expo accepted it, for one device at least.
\* ERROR: it did not, unless its answer was lost, another run had listed the
\* notice as well, or a border between two chunks went through the notice.
StatusTruthful ==
  \A n \in Notices :
    /\ status[n] = "READY" => \A m \in MessagesOf({n}) : pushed[m] = 0
    /\ status[n] = "FIX" => \E m \in MessagesOf({n}) : pushed[m] > 0
    /\ status[n] = "ERROR" =>
         \/ \A m \in MessagesOf({n}) : pushed[m] = 0
         \/ n \in unsure \cup parted \/ excuses[n] > 0

\* A notice is pushed to a device once, and once more only for each time that a
\* run listed it before the run that had it first could mark it.
PushedOnce == \A m \in Messages : pushed[m] <= 1 + excuses[m[1]]

\* A notice reaches a device of another member only if the device changed hands
\* after the run had read the devices.
NoStrangers == \A m \in astray : m[2] \in moved

\* A deleted notice never comes back, and a notice that was taken up never
\* becomes READY again, although statuses are written by id alone.
NeverBack ==
  [][\A n \in Notices :
       /\ status[n] = "DELETED" => status'[n] = "DELETED"
       /\ status'[n] = "READY" => status[n] \in {"NONE", "READY"}]_vars

\* Once a device is registered every READY notice gets its outcome or is
\* deleted, unless the run that held it ended between its two updates.
EventuallySettled ==
  \A n \in Notices :
    (status[n] = "READY" /\ owner # NoDevices)
      ~> status[n] \in {"FIX", "ERROR", "DELETED"} \/ n \in lost
=============================================================================
