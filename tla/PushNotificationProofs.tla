----------------------- MODULE PushNotificationProofs -----------------------
(***************************************************************************)
(* Theorems about PushNotification, for any notices, members and devices,  *)
(* any number of overlapping runs, registrations and mishaps.              *)
(***************************************************************************)
EXTENDS PushNotification, FiniteSetTheorems, TLAPS

-----------------------------------------------------------------------------
(* Types. *)
LEMMA TypeInit == Init => TypeOK
  BY BoundsAssumption, DevicesAssumption DEF Init, TypeOK, NoDevices, Statuses, Owners

(* The messages of a notice.  There is always one. *)
LEMMA FormatFacts ==
  ASSUME TypeOK, NEW r \in Runs
  PROVE  /\ \A n \in Notices : /\ Format(r, n) \in SUBSET Messages
                              /\ Format(r, n) # {}
                              /\ \A m \in Format(r, n) : m[1] = n
         /\ \A B \in SUBSET Notices :
              /\ UNION {Format(r, n) : n \in B} \in SUBSET Messages
              /\ NoticesOf(UNION {Format(r, n) : n \in B}) = B
<1>1. ASSUME NEW n \in Notices
      PROVE  /\ Format(r, n) \in SUBSET Messages
             /\ Format(r, n) # {}
             /\ \A m \in Format(r, n) : m[1] = n
  <2> DEFINE D == IF Targets(r, n) = {} THEN {NoDevice} ELSE Targets(r, n)
  <2>1. D \subseteq Devices \cup {NoDevice} /\ D # {} /\ Format(r, n) = {n} \X D
    BY DEF Format, Targets
  <2>2. PICK d : d \in D
    BY <2>1
  <2> HIDE DEF D
  <2>3. <<n, d>> \in Format(r, n)
    BY <2>1, <2>2
  <2> QED
    BY <2>1, <2>3 DEF Messages
<1>2. ASSUME NEW B \in SUBSET Notices
      PROVE  /\ UNION {Format(r, n) : n \in B} \in SUBSET Messages
             /\ NoticesOf(UNION {Format(r, n) : n \in B}) = B
  BY <1>1 DEF NoticesOf
<1> QED
  BY <1>1, <1>2

(* A chunk and the rest. *)
LEMMA ChunkParts ==
  ASSUME NEW S, NEW chunk \in SUBSET S
  PROVE  NoticesOf(S) = NoticesOf(chunk) \cup NoticesOf(S \ chunk)
  BY DEF NoticesOf

LEMMA TypeEnd ==
  ASSUME TypeOK, NEW r \in Runs, EndRun(r)
  PROVE  /\ pc' \in [Runs -> {"idle", "list", "mark", "send", "save"}]
         /\ seen' \in [Runs -> [Devices -> Owners]]
         /\ batch' \in [Runs -> SUBSET Notices]
         /\ todo' \in [Runs -> SUBSET Messages]
         /\ fixed' \in [Runs -> SUBSET Notices]
         /\ failed' \in [Runs -> SUBSET Notices]
         /\ \A q \in Runs :
              IF pc'[q] \in {"send", "save"}
              THEN batch'[q] = NoticesOf(todo'[q]) \cup fixed'[q] \cup failed'[q]
              ELSE todo'[q] = {} /\ fixed'[q] = {} /\ failed'[q] = {}
  BY DEF TypeOK, EndRun, Goto, NoDevices, Owners

LEMMA TypeUpdated ==
  ASSUME TypeOK, NEW S, NEW s \in Statuses
  PROVE  Updated(S, s) \in [Notices -> Statuses]
  BY DEF TypeOK, Updated

(* The chunk goes from todo to fixed or to failed. *)
LEMMA TypeChunk ==
  ASSUME TypeOK, NEW r \in Runs, pc[r] = "send", NEW chunk \in SUBSET todo[r],
         AfterChunk(r, chunk),
         NoteFix(r, chunk) \/ NoteError(r, chunk)
  PROVE  /\ status' \in [Notices -> Statuses]
         /\ owner' \in [Devices -> Owners]
         /\ pc' \in [Runs -> {"idle", "list", "mark", "send", "save"}]
         /\ seen' \in [Runs -> [Devices -> Owners]]
         /\ batch' \in [Runs -> SUBSET Notices]
         /\ todo' \in [Runs -> SUBSET Messages]
         /\ fixed' \in [Runs -> SUBSET Notices]
         /\ failed' \in [Runs -> SUBSET Notices]
         /\ \A q \in Runs :
              IF pc'[q] \in {"send", "save"}
              THEN batch'[q] = NoticesOf(todo'[q]) \cup fixed'[q] \cup failed'[q]
              ELSE todo'[q] = {} /\ fixed'[q] = {} /\ failed'[q] = {}
         /\ moved' \subseteq Devices
         /\ parted' \subseteq Notices
         /\ lost' \subseteq Notices
         /\ excuses' \in [Notices -> Nat]
         /\ moves' \in 0..MaxMoves
<1>1. todo' = [todo EXCEPT ![r] = todo[r] \ chunk] /\ batch' = batch
  BY DEF AfterChunk
<1>2. \A q \in Runs : q # r =>
        /\ pc'[q] = pc[q] /\ todo'[q] = todo[q]
        /\ fixed'[q] = fixed[q] /\ failed'[q] = failed[q]
  BY DEF TypeOK, AfterChunk, Goto, NoteFix, NoteError
<1>3. NoticesOf(chunk) \in SUBSET Notices /\ NoticesOf(todo[r]) \in SUBSET Notices
  BY DEF TypeOK, NoticesOf, Messages
<1>4. /\ fixed' \in [Runs -> SUBSET Notices] /\ failed' \in [Runs -> SUBSET Notices]
      /\ fixed'[r] \cup failed'[r] = fixed[r] \cup failed[r] \cup NoticesOf(chunk)
  BY <1>3 DEF TypeOK, NoteFix, NoteError
<1>5. batch'[r] = NoticesOf(todo'[r]) \cup fixed'[r] \cup failed'[r]
  <2>1. todo'[r] = todo[r] \ chunk
    BY <1>1 DEF TypeOK
  <2>2. batch[r] = NoticesOf(todo[r]) \cup fixed[r] \cup failed[r]
    BY DEF TypeOK
  <2>3. NoticesOf(todo[r]) = NoticesOf(chunk) \cup NoticesOf(todo[r] \ chunk)
    BY ChunkParts
  <2> QED
    BY <1>1, <1>4, <2>1, <2>2, <2>3
<1>6. parted' \subseteq Notices
  BY <1>3 DEF TypeOK, AfterChunk
<1>7. todo' \in [Runs -> SUBSET Messages]
  BY <1>1 DEF TypeOK
<1>8. pc' \in [Runs -> {"idle", "list", "mark", "send", "save"}] /\ pc'[r] \in {"send", "save"}
  BY DEF TypeOK, AfterChunk, Goto
<1>9. \A q \in Runs :
        IF pc'[q] \in {"send", "save"}
        THEN batch'[q] = NoticesOf(todo'[q]) \cup fixed'[q] \cup failed'[q]
        ELSE todo'[q] = {} /\ fixed'[q] = {} /\ failed'[q] = {}
  <2> TAKE q \in Runs
  <2>1. CASE q = r
    BY <1>5, <1>8, <2>1
  <2>2. CASE q # r
    BY <1>1, <1>2, <2>2 DEF TypeOK
  <2> QED
    BY <2>1, <2>2
<1> QED
  BY <1>1, <1>4, <1>6, <1>7, <1>8, <1>9 DEF TypeOK, AfterChunk, rows

LEMMA TypeAccept ==
  ASSUME TypeOK, NEW chunk \in SUBSET Messages, Accept(chunk)
  PROVE  pushed' \in [Messages -> Nat] /\ astray' \subseteq Messages
  BY DEF TypeOK, Accept

LEMMA TypeStep == TypeOK /\ [Next]_vars => TypeOK'
<1> SUFFICES ASSUME TypeOK, [Next]_vars PROVE TypeOK'
  OBVIOUS
<1> USE BoundsAssumption DEF rows, local, history, bounds
<1>1. ASSUME NEW n \in Notices, Create(n) \/ Delete(n) PROVE TypeOK'
  BY <1>1 DEF TypeOK, Create, Delete, Statuses
<1>2. ASSUME NEW d \in Devices, NEW m \in Members, AddToken(d, m) PROVE TypeOK'
  BY <1>2 DEF TypeOK, AddToken, Owners
<1>3. ASSUME NEW r \in Runs, ReadTokens(r) PROVE TypeOK'
  BY <1>3 DEF TypeOK, ReadTokens, Goto
<1>4. ASSUME NEW r \in Runs, ListReady(r) PROVE TypeOK'
  <2>1. excuses' \in [Notices -> Nat]
    BY <1>4 DEF TypeOK, ListReady, FindReadyNotifications
  <2>2. CASE EndRun(r)
    BY <1>4, <2>1, <2>2, TypeEnd DEF TypeOK, ListReady, FindReadyNotifications
  <2>3. CASE ~EndRun(r)
    <3>1. /\ batch' = [batch EXCEPT ![r] = {n \in Notices : status[n] = "READY"}]
          /\ pc[r] = "list"
          /\ pc' = [pc EXCEPT ![r] = "mark"]
          /\ UNCHANGED <<rows, seen, todo, fixed, failed, pushed, astray, moved, unsure,
                        parted, lost, bounds>>
      BY <1>4, <2>3 DEF ListReady, FindReadyNotifications, Goto
    <3> QED
      BY <2>1, <3>1 DEF TypeOK
  <2> QED
    BY <2>2, <2>3
<1>5. ASSUME NEW r \in Runs, Mark(r) PROVE TypeOK'
  <2>1. status' \in [Notices -> Statuses]
    BY <1>5, TypeUpdated DEF Mark, Statuses
  <2>2. /\ todo' = [todo EXCEPT ![r] = UNION {Format(r, n) : n \in batch[r]}]
        /\ UNION {Format(r, n) : n \in batch[r]} \in SUBSET Messages
        /\ NoticesOf(UNION {Format(r, n) : n \in batch[r]}) = batch[r]
    <3>1. batch[r] \in SUBSET Notices
      BY DEF TypeOK
    <3> QED
      BY <1>5, <3>1, FormatFacts DEF Mark
  <2>3. todo' \in [Runs -> SUBSET Messages] /\ NoticesOf(todo'[r]) = batch[r]
    BY <2>2 DEF TypeOK
  <2>4. \A q \in Runs :
          IF pc'[q] \in {"send", "save"}
          THEN batch'[q] = NoticesOf(todo'[q]) \cup fixed'[q] \cup failed'[q]
          ELSE todo'[q] = {} /\ fixed'[q] = {} /\ failed'[q] = {}
    <3> TAKE q \in Runs
    <3>1. CASE q = r
      BY <1>5, <2>3, <3>1 DEF TypeOK, Mark, Goto
    <3>2. CASE q # r
      BY <1>5, <2>2, <3>2 DEF TypeOK, Mark, Goto
    <3> QED
      BY <3>1, <3>2
  <2> QED
    BY <1>5, <2>1, <2>3, <2>4 DEF TypeOK, Mark, Goto
<1>6. ASSUME NEW r \in Runs, SendOk(r) PROVE TypeOK'
  <2>1. PICK chunk \in SUBSET todo[r] \ {{}} :
          Accept(chunk) /\ NoteFix(r, chunk) /\ AfterChunk(r, chunk)
    BY <1>6 DEF SendOk
  <2>2. chunk \in SUBSET Messages /\ pc[r] = "send"
    BY <1>6 DEF TypeOK, SendOk
  <2> QED
    BY <1>6, <2>1, <2>2, TypeChunk, TypeAccept DEF TypeOK, SendOk
<1>7. ASSUME NEW r \in Runs, SendThrows(r) PROVE TypeOK'
  <2>1. PICK chunk \in SUBSET todo[r] \ {{}} :
          /\ \/ UNCHANGED <<pushed, astray, unsure>>
             \/ Accept(chunk) /\ unsure' = unsure \cup NoticesOf(chunk)
          /\ Mishap \/ UNCHANGED mishaps
          /\ NoteError(r, chunk)
          /\ AfterChunk(r, chunk)
    BY <1>7 DEF SendThrows
  <2>2. /\ chunk \in SUBSET Messages /\ pc[r] = "send"
        /\ NoticesOf(chunk) \in SUBSET Notices
    BY <1>7 DEF TypeOK, SendThrows, NoticesOf, Messages
  <2>3. pushed' \in [Messages -> Nat] /\ astray' \subseteq Messages
        /\ unsure' \subseteq Notices /\ mishaps' \in 0..MaxMishaps
    BY <2>1, <2>2, TypeAccept DEF TypeOK, Mishap
  <2> QED
    BY <2>1, <2>2, <2>3, TypeChunk DEF TypeOK
<1>8. ASSUME NEW r \in Runs, SaveOutcome(r) PROVE TypeOK'
  <2>1. status' \in [Notices -> Statuses]
    BY <1>8, TypeUpdated DEF SaveOutcome, Statuses
  <2> QED
    BY <1>8, <2>1, TypeEnd DEF TypeOK, SaveOutcome
<1>9. ASSUME NEW r \in Runs, StatementThrows(r) PROVE TypeOK'
  <2>1. Pending(r) \subseteq Notices
    BY DEF TypeOK, Pending
  <2> QED
    BY <1>9, <2>1, TypeEnd DEF TypeOK, StatementThrows, Mishap
<1>10. CASE Crash
  <2>1. UNION {Pending(r) : r \in Runs} \subseteq Notices
    BY DEF TypeOK, Pending
  <2> QED
    BY <1>10, <2>1 DEF TypeOK, Crash, Mishap, NoDevices, Owners
<1>11. CASE UNCHANGED vars
  BY <1>11 DEF TypeOK, vars
<1> QED
  BY <1>1, <1>2, <1>3, <1>4, <1>5, <1>6, <1>7, <1>8, <1>9, <1>10, <1>11 DEF Next, RunStep

(* TypeOK of PushNotification: every variable keeps its type, and a run that *)
(* sends has an outcome for each listed notice that it no longer has to send. *)
THEOREM TypeCorrect == Spec => []TypeOK
  BY TypeInit, TypeStep, PTL DEF Spec

-----------------------------------------------------------------------------
(* A run addresses the devices that it believes to be the receiver's. *)

Addressed == \A r \in Runs : \A m \in todo[r] : m \in Format(r, m[1])

LEMMA AddressedStep == TypeOK /\ Addressed /\ [Next]_vars => Addressed'
<1> SUFFICES ASSUME TypeOK, Addressed, [Next]_vars PROVE Addressed'
  OBVIOUS
<1> USE DEF rows, local, history, bounds
<1>1. ASSUME NEW q \in Runs, seen'[q] = seen[q], todo'[q] \subseteq todo[q]
      PROVE  \A m \in todo'[q] : m \in Format(q, m[1])'
  BY <1>1 DEF Addressed, Format, Targets
<1>2. ASSUME NEW r \in Runs, EndRun(r) PROVE Addressed'
  <2>1. todo'[r] = {}
    BY <1>2 DEF TypeOK, EndRun
  <2>2. \A q \in Runs \ {r} : seen'[q] = seen[q] /\ todo'[q] = todo[q]
    BY <1>2 DEF TypeOK, EndRun
  <2> QED
    BY <1>1, <2>1, <2>2 DEF Addressed
<1>3. ASSUME seen' = seen, todo' = todo PROVE Addressed'
  BY <1>1, <1>3 DEF Addressed
<1>4. ASSUME NEW r \in Runs, ReadTokens(r) PROVE Addressed'
  <2>1. todo'[r] = {}
    BY <1>4 DEF TypeOK, ReadTokens
  <2>2. \A q \in Runs \ {r} : seen'[q] = seen[q] /\ todo'[q] = todo[q]
    BY <1>4 DEF TypeOK, ReadTokens
  <2> QED
    BY <1>1, <2>1, <2>2 DEF Addressed
<1>5. ASSUME NEW r \in Runs, Mark(r) PROVE Addressed'
  <2>1. seen' = seen /\ todo' = [todo EXCEPT ![r] = UNION {Format(r, n) : n \in batch[r]}]
    BY <1>5 DEF Mark
  <2>2. ASSUME NEW m \in todo'[r] PROVE m \in Format(r, m[1])'
    <3>1. batch[r] \in SUBSET Notices /\ todo'[r] = UNION {Format(r, n) : n \in batch[r]}
      BY <2>1 DEF TypeOK
    <3>2. PICK n \in batch[r] : m \in Format(r, n)
      BY <2>2, <3>1
    <3>3. m[1] = n
      BY <3>1, <3>2, FormatFacts
    <3> QED
      BY <2>1, <3>2, <3>3 DEF Format, Targets
  <2>3. \A q \in Runs \ {r} : todo'[q] = todo[q]
    BY <2>1 DEF TypeOK
  <2>4. \A q \in Runs \ {r} : \A m \in todo'[q] : m \in Format(q, m[1])'
    BY <1>1, <2>1, <2>3
  <2> QED
    BY <2>2, <2>4 DEF Addressed
<1>6. ASSUME NEW r \in Runs, SendOk(r) \/ SendThrows(r) PROVE Addressed'
  <2>1. PICK chunk \in SUBSET todo[r] : AfterChunk(r, chunk)
    BY <1>6 DEF SendOk, SendThrows
  <2>2. seen' = seen /\ \A q \in Runs : todo'[q] \subseteq todo[q]
    BY <2>1 DEF TypeOK, AfterChunk
  <2> QED
    BY <1>1, <2>2 DEF Addressed
<1>7. ASSUME NEW r \in Runs, ListReady(r) \/ SaveOutcome(r) \/ StatementThrows(r)
      PROVE  Addressed'
  BY <1>2, <1>3, <1>7 DEF ListReady, SaveOutcome, StatementThrows
<1>8. CASE \/ \E n \in Notices : Create(n) \/ Delete(n)
           \/ \E d \in Devices, m \in Members : AddToken(d, m)
           \/ UNCHANGED vars
  BY <1>3, <1>8 DEF Create, Delete, AddToken, vars
<1>9. CASE Crash
  BY <1>9 DEF Crash, Addressed
<1> QED
  BY <1>4, <1>5, <1>6, <1>7, <1>8, <1>9 DEF Next, RunStep

-----------------------------------------------------------------------------
(* Devices.  What a run still believes of a device is right, unless the     *)
(* device has changed hands since.                                           *)

DeviceInv ==
  /\ TypeOK
  /\ Addressed
  /\ \A r \in Runs, d \in Devices :
       seen[r][d] # NoMember /\ seen[r][d] # owner[d] => d \in moved
  /\ NoStrangers

LEMMA DeviceInit == Init => DeviceInv
  BY TypeInit DEF Init, DeviceInv, Addressed, NoStrangers, NoDevices

(* The snapshots are only taken, dropped or left alone. *)
LEMMA SeenStep ==
  ASSUME TypeOK, [Next]_vars
  PROVE  \A r \in Runs :
           seen'[r] \in {seen[r], NoDevices} \/ (seen'[r] = owner /\ owner' = owner)
<1> USE DEF rows, local, history, bounds, TypeOK
<1>1. ASSUME NEW r \in Runs, EndRun(r)
      PROVE  \A q \in Runs : seen'[q] \in {seen[q], NoDevices}
  BY <1>1 DEF EndRun
<1>2. ASSUME NEW r \in Runs, SendOk(r) \/ SendThrows(r) PROVE seen' = seen
  BY <1>2 DEF SendOk, SendThrows, AfterChunk
<1>3. ASSUME NEW r \in Runs, ReadTokens(r)
      PROVE  \A q \in Runs : seen'[q] = seen[q] \/ (seen'[q] = owner /\ owner' = owner)
  BY <1>3 DEF ReadTokens
<1>4. ASSUME NEW r \in Runs, ListReady(r) \/ Mark(r) \/ SaveOutcome(r) \/ StatementThrows(r)
      PROVE  \A q \in Runs : seen'[q] \in {seen[q], NoDevices}
  BY <1>1, <1>4 DEF ListReady, FindReadyNotifications, Mark, SaveOutcome, StatementThrows
<1>5. CASE \/ \E n \in Notices : Create(n) \/ Delete(n)
           \/ \E d \in Devices, m \in Members : AddToken(d, m)
           \/ UNCHANGED vars
  BY <1>5 DEF Create, Delete, AddToken, vars
<1>6. CASE Crash
  BY <1>6 DEF Crash
<1> QED
  BY <1>2, <1>3, <1>4, <1>5, <1>6 DEF Next, RunStep

LEMMA DeviceStep == DeviceInv /\ [Next]_vars => DeviceInv'
<1> SUFFICES ASSUME DeviceInv, [Next]_vars PROVE DeviceInv'
  OBVIOUS
<1>1. TypeOK /\ TypeOK' /\ Addressed /\ Addressed'
  BY TypeStep, AddressedStep DEF DeviceInv
<1>2. \A r \in Runs :
        seen'[r] \in {seen[r], NoDevices} \/ (seen'[r] = owner /\ owner' = owner)
  BY <1>1, SeenStep
<1>3. ASSUME NEW d \in Devices, NEW m \in Members, AddToken(d, m) PROVE DeviceInv'
  <2>1. /\ owner' = [owner EXCEPT ![d] = m] /\ seen' = seen /\ astray' = astray
        /\ moved \subseteq moved'
        /\ (\E r \in Runs : seen[r][d] # NoMember) => d \in moved'
    BY <1>3 DEF AddToken, local
  <2> QED
    BY <1>1, <2>1 DEF DeviceInv, NoStrangers, TypeOK
<1>4. ASSUME NEW r \in Runs, NEW chunk \in SUBSET todo[r], Accept(chunk),
             AfterChunk(r, chunk)
      PROVE  DeviceInv'
  <2>1. owner' = owner /\ seen' = seen /\ moved' = moved
    BY <1>4 DEF AfterChunk, rows
  <2>2. ASSUME NEW m \in astray' PROVE m[2] \in moved
    <3>1. CASE m \in astray
      BY <3>1 DEF DeviceInv, NoStrangers
    <3>2. CASE m \in chunk /\ m[2] \in Devices /\ owner[m[2]] # To[m[1]]
      <4>1. m \in Format(r, m[1]) /\ m \in Messages
        BY <1>1, <1>4, <3>2 DEF Addressed, TypeOK
      <4>2. m[2] \in Targets(r, m[1])
        BY <3>2, <4>1, DevicesAssumption DEF Format
      <4>3. seen[r][m[2]] = To[m[1]] /\ To[m[1]] # NoMember
        BY <4>1, <4>2, NoticesAssumption DEF Targets, Messages
      <4> QED
        BY <3>2, <4>3 DEF DeviceInv
    <3> QED
      BY <1>4, <2>2, <3>1, <3>2 DEF Accept
  <2> QED
    BY <1>1, <2>1, <2>2 DEF DeviceInv, NoStrangers
<1>5. ASSUME owner' = owner, moved' = moved, astray' = astray PROVE DeviceInv'
  BY <1>1, <1>2, <1>5 DEF DeviceInv, NoStrangers, NoDevices
<1>6. ASSUME NEW r \in Runs, SendOk(r) PROVE DeviceInv'
  <2>1. PICK chunk \in SUBSET todo[r] : Accept(chunk) /\ AfterChunk(r, chunk)
    BY <1>6 DEF SendOk
  <2> QED
    BY <1>4, <2>1
<1>7. ASSUME NEW r \in Runs, SendThrows(r) PROVE DeviceInv'
  <2>1. PICK chunk \in SUBSET todo[r] :
          AfterChunk(r, chunk) /\ (Accept(chunk) \/ astray' = astray)
    BY <1>7 DEF SendThrows
  <2> QED
    BY <1>4, <1>5, <2>1 DEF AfterChunk, rows
<1>8. ASSUME NEW n \in Notices, Create(n) \/ Delete(n) PROVE DeviceInv'
  BY <1>5, <1>8 DEF Create, Delete, history
<1>9. ASSUME NEW r \in Runs,
             \/ ReadTokens(r) \/ ListReady(r) \/ Mark(r) \/ SaveOutcome(r)
             \/ StatementThrows(r)
      PROVE  DeviceInv'
  BY <1>5, <1>9
  DEF ReadTokens, ListReady, FindReadyNotifications, Mark, SaveOutcome, StatementThrows,
      rows, history
<1>10. CASE Crash \/ UNCHANGED vars
  BY <1>5, <1>10 DEF Crash, vars, rows, history
<1> QED
  BY <1>3, <1>6, <1>7, <1>8, <1>9, <1>10 DEF Next, RunStep

(* NoStrangers of PushNotification: a notice reaches another member's device *)
(* only if the device changed hands after the run had read the devices.       *)
THEOREM DevicesRespected == Spec => []NoStrangers
<1>1. DeviceInv => NoStrangers
  BY DEF DeviceInv
<1> QED
  BY <1>1, DeviceInit, DeviceStep, PTL DEF Spec


-----------------------------------------------------------------------------
(* Pushes.  A run holds a message as long as it has listed its notice and   *)
(* Expo has not accepted the message from this run; one that it would not    *)
(* send, as it knows nothing of the device, it holds to its end.  Pushes and *)
(* holders of a message together never exceed 1 + excuses, and where the     *)
(* last outcome is ERROR one of them is missing, unless the notice is one    *)
(* that a border between two chunks went through.                            *)

Excepted == unsure \cup parted

Holds(r, m) ==
  /\ m[1] \in batch[r]
  /\ \/ pc[r] = "mark" \/ m \in todo[r] \/ m \notin Format(r, m[1])
     \/ m[1] \in failed[r] /\ m[1] \notin Excepted

Holders(m) == {r \in Runs : Holds(r, m)}

Sent(n) == \E m \in MessagesOf({n}) : pushed[m] > 0

LocalOK(r) ==
  /\ pc[r] \in {"idle", "list"} => batch[r] = {}
  /\ pc[r] = "save" => todo[r] = {}
  /\ fixed[r] \cap failed[r] = {}
  /\ \A n \in fixed[r] : Sent(n)
  /\ \A n \in batch[r] : status[n] # "NONE"
  /\ pc[r] \in {"send", "save"} => \A n \in batch[r] : status[n] # "READY"
  /\ \A m \in todo[r] : m[1] \in fixed[r] \cup failed[r] => m[1] \in parted
  /\ pc[r] \in {"send", "save"} =>
       \A n \in batch[r] \ (fixed[r] \cup failed[r]) : Format(r, n) \subseteq todo[r]

LocalInv == \A r \in Runs : LocalOK(r)

Counted(m) ==
  /\ pushed[m] + Cardinality(Holders(m)) <= 1 + excuses[m[1]]
  /\ status[m[1]] \in {"NONE", "READY"} => pushed[m] = 0
  /\ status[m[1]] = "ERROR" /\ m[1] \notin Excepted =>
       pushed[m] + Cardinality(Holders(m)) <= excuses[m[1]]

FixTrue == \A n \in Notices : status[n] = "FIX" => Sent(n)

PushInv ==
  /\ TypeOK
  /\ Addressed
  /\ LocalInv
  /\ FixTrue
  /\ \A m \in Messages : Counted(m)

(* Counting runs. *)
LEMMA CardRuns ==
  /\ \A S \in SUBSET Runs : Cardinality(S) \in Nat
  /\ \A S, T \in SUBSET Runs : S \subseteq T => Cardinality(S) <= Cardinality(T)
  /\ \A S \in SUBSET Runs, r \in Runs :
       r \in S => Cardinality(S \ {r}) = Cardinality(S) - 1
  /\ \A S \in SUBSET Runs, r \in Runs : Cardinality(S \cup {r}) <= Cardinality(S) + 1
<1>1. \A S \in SUBSET Runs : IsFiniteSet(S) /\ Cardinality(S) \in Nat
  BY RunsAssumption, FS_Subset, FS_CardinalityType
<1>2. \A S, T \in SUBSET Runs : S \subseteq T => Cardinality(S) <= Cardinality(T)
  BY <1>1, FS_Subset
<1>3. \A S \in SUBSET Runs, r \in Runs :
        r \in S => Cardinality(S \ {r}) = Cardinality(S) - 1
  BY <1>1, FS_RemoveElement
<1>4. ASSUME NEW S \in SUBSET Runs, NEW r \in Runs
      PROVE  Cardinality(S \cup {r}) <= Cardinality(S) + 1
  <2>1. Cardinality(S) \in Nat /\ IsFiniteSet(S)
    BY <1>1
  <2>2. Cardinality(S \cup {r}) = IF r \in S THEN Cardinality(S) ELSE Cardinality(S) + 1
    BY <2>1, FS_AddElement
  <2> QED
    BY <2>1, <2>2
<1> QED
  BY <1>1, <1>2, <1>3, <1>4

LEMMA CountTypes ==
  ASSUME TypeOK, NEW m \in Messages
  PROVE  /\ pushed[m] \in Nat /\ m[1] \in Notices /\ excuses[m[1]] \in Nat
         /\ Holders(m) \in SUBSET Runs /\ Cardinality(Holders(m)) \in Nat
  BY CardRuns DEF TypeOK, Messages, Holders

(* A notice that is neither pushed nor taken in hand keeps its count. *)
LEMMA CountKept ==
  ASSUME PushInv, TypeOK', NEW m \in Messages,
         pushed'[m] = pushed[m], excuses'[m[1]] = excuses[m[1]], Excepted \subseteq Excepted',
         \A r \in Runs : Holds(r, m)' => Holds(r, m),
         \/ status'[m[1]] = status[m[1]]
         \/ status'[m[1]] \in {"PROCESSING", "DELETED"}
         \/ status[m[1]] = "NONE" /\ status'[m[1]] = "READY"
  PROVE  Counted(m)'
<1> DEFINE H == Holders(m)
           G == Holders(m)'
<1>1. H \in SUBSET Runs /\ G \in SUBSET Runs /\ G \subseteq H
  BY DEF Holders
<1>2. Cardinality(H) \in Nat /\ Cardinality(G) \in Nat /\ Cardinality(G) <= Cardinality(H)
  BY <1>1, CardRuns
<1>3. pushed[m] \in Nat /\ excuses[m[1]] \in Nat
  BY CountTypes DEF PushInv
<1>4. /\ pushed[m] + Cardinality(H) <= 1 + excuses[m[1]]
      /\ status[m[1]] \in {"NONE", "READY"} => pushed[m] = 0
      /\ status[m[1]] = "ERROR" /\ m[1] \notin Excepted =>
           pushed[m] + Cardinality(H) <= excuses[m[1]]
  BY DEF PushInv, Counted
<1>5. /\ pushed'[m] + Cardinality(G) <= 1 + excuses'[m[1]]
      /\ status'[m[1]] \in {"NONE", "READY"} => pushed'[m] = 0
      /\ status'[m[1]] = "ERROR" /\ m[1] \notin Excepted' =>
           pushed'[m] + Cardinality(G) <= excuses'[m[1]]
  <2> HIDE DEF H, G
  <2> QED
    BY <1>2, <1>3, <1>4
<1> QED
  BY <1>5 DEF Counted

(* ListReady: the run becomes a holder, with an excuse if it is not the only *)
(* one.                                                                      *)
LEMMA CountListed ==
  ASSUME PushInv, TypeOK', NEW r \in Runs, NEW m \in Messages,
         status[m[1]] = "READY", status' = status, pushed' = pushed, Excepted' = Excepted,
         \A q \in Runs \ {r} : Holds(q, m)' => Holds(q, m),
         excuses'[m[1]] = IF m[1] \in Shared(r) THEN excuses[m[1]] + 1 ELSE excuses[m[1]]
  PROVE  Counted(m)'
<1> DEFINE H == Holders(m)
           G == Holders(m)'
<1>1. H \in SUBSET Runs /\ G \in SUBSET Runs /\ G \subseteq H \cup {r}
  BY DEF Holders
<1>2. /\ Cardinality(H) \in Nat /\ Cardinality(G) \in Nat
      /\ Cardinality(G) <= Cardinality(H) + 1
  <2>1. H \cup {r} \in SUBSET Runs
    BY <1>1
  <2>2. /\ Cardinality(H) \in Nat /\ Cardinality(G) \in Nat /\ Cardinality(H \cup {r}) \in Nat
        /\ Cardinality(G) <= Cardinality(H \cup {r})
        /\ Cardinality(H \cup {r}) <= Cardinality(H) + 1
    BY <1>1, <2>1, CardRuns
  <2> HIDE DEF H, G
  <2> QED
    BY <2>2
<1>3. pushed[m] \in Nat /\ excuses[m[1]] \in Nat /\ pushed[m] = 0
      /\ pushed[m] + Cardinality(H) <= 1 + excuses[m[1]]
  BY CountTypes DEF PushInv, Counted
<1>4. CASE m[1] \in Shared(r)
  <2>1. pushed'[m] + Cardinality(G) <= 1 + excuses'[m[1]]
    <3> HIDE DEF H, G
    <3> QED
      BY <1>2, <1>3, <1>4
  <2> QED
    BY <1>3, <2>1 DEF Counted
<1>5. CASE m[1] \notin Shared(r)
  <2>1. \A q \in Runs \ {r} : ~Holds(q, m)
    BY <1>5 DEF Shared, Holds, Messages
  <2>2. G \subseteq {r}
    BY <2>1 DEF Holders
  <2>3. Cardinality(G) <= 1
    <3>1. Cardinality({r}) = 1 /\ {r} \in SUBSET Runs
      BY FS_Singleton
    <3>2. Cardinality(G) <= Cardinality({r})
      BY <1>1, <2>2, <3>1, CardRuns
    <3> QED
      BY <3>1, <3>2
  <2>4. pushed'[m] + Cardinality(G) <= 1 + excuses'[m[1]]
    <3> HIDE DEF H, G
    <3> QED
      BY <1>2, <1>3, <1>5, <2>3
  <2> QED
    BY <1>3, <2>4 DEF Counted
<1> QED
  BY <1>4, <1>5

(* Accept: a push more, a holder less. *)
LEMMA CountPushed ==
  ASSUME PushInv, TypeOK', NEW r \in Runs, NEW m \in Messages, Holds(r, m), ~Holds(r, m)',
         \A q \in Runs \ {r} : Holds(q, m)' => Holds(q, m),
         pushed'[m] = pushed[m] + 1, excuses' = excuses, Excepted \subseteq Excepted',
         status' = status, status[m[1]] \notin {"NONE", "READY"}
  PROVE  Counted(m)'
<1> DEFINE H == Holders(m)
           G == Holders(m)'
<1>1. H \in SUBSET Runs /\ G \in SUBSET Runs /\ G \subseteq H \ {r} /\ r \in H
  BY DEF Holders
<1>2. /\ Cardinality(H) \in Nat /\ Cardinality(G) \in Nat
      /\ Cardinality(G) <= Cardinality(H) - 1
  <2>1. Cardinality(H \ {r}) = Cardinality(H) - 1 /\ Cardinality(G) <= Cardinality(H \ {r})
    BY <1>1, CardRuns
  <2>2. Cardinality(H) \in Nat /\ Cardinality(G) \in Nat
    BY <1>1, CardRuns
  <2> HIDE DEF H, G
  <2> QED
    BY <2>1, <2>2
<1>3. pushed[m] \in Nat /\ excuses[m[1]] \in Nat
  BY CountTypes DEF PushInv
<1>4. /\ pushed[m] + Cardinality(H) <= 1 + excuses[m[1]]
      /\ status[m[1]] = "ERROR" /\ m[1] \notin Excepted =>
           pushed[m] + Cardinality(H) <= excuses[m[1]]
  BY DEF PushInv, Counted
<1>5. /\ pushed'[m] + Cardinality(G) <= 1 + excuses'[m[1]]
      /\ pushed'[m] > 0
      /\ status'[m[1]] = "ERROR" /\ m[1] \notin Excepted' =>
           pushed'[m] + Cardinality(G) <= excuses'[m[1]]
  <2> HIDE DEF H, G
  <2> QED
    BY <1>2, <1>3, <1>4
<1> QED
  BY <1>5 DEF Counted

(* SaveOutcome: the run lets go of what it failed to send. *)
LEMMA CountSaved ==
  ASSUME PushInv, TypeOK', NEW r \in Runs, NEW m \in Messages, ~Holds(r, m)',
         \A q \in Runs \ {r} : Holds(q, m)' => Holds(q, m),
         pushed' = pushed, excuses' = excuses, Excepted' = Excepted,
         \/ status'[m[1]] = "FIX"
         \/ status'[m[1]] = "ERROR" /\ (Holds(r, m) \/ m[1] \in Excepted)
  PROVE  Counted(m)'
<1> DEFINE H == Holders(m)
           G == Holders(m)'
<1>1. H \in SUBSET Runs /\ G \in SUBSET Runs /\ G \subseteq H \ {r} /\ G \subseteq H
  BY DEF Holders
<1>2. /\ Cardinality(H) \in Nat /\ Cardinality(G) \in Nat
      /\ Cardinality(G) <= Cardinality(H)
      /\ Holds(r, m) => Cardinality(G) <= Cardinality(H) - 1
  <2>1. /\ Cardinality(H) \in Nat /\ Cardinality(G) \in Nat
        /\ Cardinality(G) <= Cardinality(H)
        /\ Cardinality(G) <= Cardinality(H \ {r})
    BY <1>1, CardRuns
  <2>2. Holds(r, m) => Cardinality(H \ {r}) = Cardinality(H) - 1
    <3>1. Holds(r, m) => r \in H
      BY DEF Holders
    <3> QED
      BY <1>1, <3>1, CardRuns
  <2> HIDE DEF H, G
  <2> QED
    BY <2>1, <2>2
<1>3. pushed[m] \in Nat /\ excuses[m[1]] \in Nat
      /\ pushed[m] + Cardinality(H) <= 1 + excuses[m[1]]
  BY CountTypes DEF PushInv, Counted
<1>4. /\ pushed'[m] + Cardinality(G) <= 1 + excuses'[m[1]]
      /\ status'[m[1]] = "ERROR" /\ m[1] \notin Excepted' =>
           pushed'[m] + Cardinality(G) <= excuses'[m[1]]
  <2> HIDE DEF H, G
  <2> QED
    BY <1>2, <1>3
<1> QED
  BY <1>4 DEF Counted

LEMMA PushInit == Init => PushInv
<1> SUFFICES ASSUME Init PROVE PushInv
  OBVIOUS
<1>1. TypeOK /\ LocalInv
  BY TypeInit DEF Init, LocalInv, LocalOK
<1>2. Addressed /\ FixTrue
  BY DEF Init, Addressed, FixTrue
<1>3. ASSUME NEW m \in Messages PROVE Counted(m)
  <2>1. Holders(m) = {}
    BY DEF Init, Holders, Holds
  <2>2. Cardinality(Holders(m)) = 0
    BY <2>1, FS_EmptySet
  <2> QED
    BY <2>2 DEF Init, Counted, Messages
<1> QED
  BY <1>1, <1>2, <1>3 DEF PushInv

(* A run that is not in a step holds what it held. *)
LEMMA HoldsKept ==
  ASSUME NEW q, NEW m, Excepted \subseteq Excepted',
         pc'[q] = pc[q], seen'[q] = seen[q], batch'[q] = batch[q],
         todo'[q] = todo[q], failed'[q] = failed[q]
  PROVE  Holds(q, m)' => Holds(q, m)
<1>1. Format(q, m[1])' = Format(q, m[1])
  BY DEF Format, Targets
<1> QED
  BY <1>1 DEF Holds

(* A run that ends holds nothing, and the others hold what they held. *)
LEMMA HoldsEnd ==
  ASSUME TypeOK, NEW r \in Runs, EndRun(r), Excepted \subseteq Excepted', NEW m \in Messages
  PROVE  ~Holds(r, m)' /\ \A q \in Runs \ {r} : Holds(q, m)' => Holds(q, m)
<1>1. ~Holds(r, m)'
  BY DEF TypeOK, EndRun, Holds
<1>2. ASSUME NEW q \in Runs \ {r} PROVE Holds(q, m)' => Holds(q, m)
  <2>1. /\ pc'[q] = pc[q] /\ seen'[q] = seen[q] /\ batch'[q] = batch[q]
        /\ todo'[q] = todo[q] /\ failed'[q] = failed[q]
    BY DEF TypeOK, EndRun, Goto
  <2> QED
    BY <2>1, HoldsKept
<1> QED
  BY <1>1, <1>2

(* What a run relies on stays true while others are in a step. *)
LEMMA LocalKept ==
  ASSUME TypeOK, LocalInv, NEW q \in Runs,
         pc'[q] = pc[q], seen'[q] = seen[q], batch'[q] = batch[q],
         todo'[q] = todo[q], fixed'[q] = fixed[q], failed'[q] = failed[q],
         parted \subseteq parted', \A n \in Notices : Sent(n) => Sent(n)',
         \A n \in batch[q] : /\ status'[n] = "READY" => status[n] = "READY"
                             /\ status'[n] = "NONE" => status[n] = "NONE"
  PROVE  LocalOK(q)'
<1>1. LocalOK(q)
  BY DEF LocalInv
<1>2. \A n \in Notices : Format(q, n)' = Format(q, n)
  BY DEF Format, Targets
<1>3. /\ pc'[q] \in {"idle", "list"} => batch'[q] = {}
      /\ pc'[q] = "save" => todo'[q] = {}
      /\ fixed'[q] \cap failed'[q] = {}
      /\ \A n \in batch'[q] : status'[n] # "NONE"
      /\ pc'[q] \in {"send", "save"} => \A n \in batch'[q] : status'[n] # "READY"
      /\ \A m \in todo'[q] : m[1] \in fixed'[q] \cup failed'[q] => m[1] \in parted'
  BY <1>1 DEF LocalOK
<1>4. \A n \in fixed'[q] : Sent(n)'
  BY <1>1 DEF TypeOK, LocalOK
<1>5. pc'[q] \in {"send", "save"} =>
        \A n \in batch'[q] \ (fixed'[q] \cup failed'[q]) : Format(q, n)' \subseteq todo'[q]
  BY <1>1, <1>2 DEF TypeOK, LocalOK
<1> QED
  BY <1>3, <1>4, <1>5 DEF LocalOK

(* Expo takes nothing back. *)
LEMMA SentKept ==
  ASSUME TypeOK, pushed' = pushed \/ \E chunk \in SUBSET Messages : Accept(chunk)
  PROVE  \A n \in Notices : Sent(n) => Sent(n)'
<1>1. \A m \in Messages : pushed[m] > 0 => pushed'[m] > 0
  BY DEF TypeOK, Accept
<1> QED
  BY <1>1 DEF Sent, MessagesOf

LEMMA LocalEnd ==
  ASSUME TypeOK, LocalInv, NEW r \in Runs, EndRun(r), pushed' = pushed, parted' = parted,
         \A n \in Notices : /\ status'[n] = "READY" => status[n] = "READY"
                            /\ status'[n] = "NONE" => status[n] = "NONE"
  PROVE  LocalInv'
<1>1. LocalOK(r)'
  BY DEF TypeOK, EndRun, Goto, LocalOK
<1>2. ASSUME NEW q \in Runs \ {r} PROVE LocalOK(q)'
  <2>1. /\ pc'[q] = pc[q] /\ seen'[q] = seen[q] /\ batch'[q] = batch[q]
        /\ todo'[q] = todo[q] /\ fixed'[q] = fixed[q] /\ failed'[q] = failed[q]
    BY DEF TypeOK, EndRun, Goto
  <2>2. batch[q] \subseteq Notices
    BY DEF TypeOK
  <2>3. \A n \in Notices : Sent(n) => Sent(n)'
    BY SentKept
  <2> QED
    BY <2>1, <2>2, <2>3, LocalKept
<1> QED
  BY <1>1, <1>2 DEF LocalInv

(* A chunk was sent. *)
LEMMA LocalChunk ==
  ASSUME TypeOK, TypeOK', Addressed, LocalInv, NEW r \in Runs, pc[r] = "send",
         NEW chunk \in SUBSET todo[r], AfterChunk(r, chunk),
         \/ NoteFix(r, chunk) /\ Accept(chunk)
         \/ NoteError(r, chunk) /\ (Accept(chunk) \/ pushed' = pushed)
  PROVE  LocalInv'
<1>1. /\ todo'[r] = todo[r] \ chunk /\ batch' = batch /\ status' = status /\ seen' = seen
      /\ parted' = parted \cup (NoticesOf(chunk) \cap NoticesOf(todo[r] \ chunk))
      /\ pc'[r] \in {"send", "save"} /\ (pc'[r] = "save" => todo'[r] = {})
  BY DEF TypeOK, AfterChunk, Goto, rows
<1>2. \A q \in Runs \ {r} : /\ pc'[q] = pc[q] /\ todo'[q] = todo[q]
                             /\ fixed'[q] = fixed[q] /\ failed'[q] = failed[q]
  BY DEF TypeOK, AfterChunk, Goto, NoteFix, NoteError
<1>3. chunk \in SUBSET Messages /\ \A n \in Notices : Sent(n) => Sent(n)'
  BY SentKept DEF TypeOK
<1>4. ASSUME NEW q \in Runs \ {r} PROVE LocalOK(q)'
  BY <1>1, <1>2, <1>3, <1>4, LocalKept
<1>5. LocalOK(r)'
  <2>1. LocalOK(r)
    BY DEF LocalInv
  <2>2. /\ fixed'[r] \cap failed'[r] = {}
        /\ fixed'[r] \cup failed'[r] = fixed[r] \cup failed[r] \cup NoticesOf(chunk)
    BY <2>1 DEF TypeOK, LocalOK, NoteFix, NoteError
  <2>3. ASSUME NEW n \in fixed'[r] PROVE Sent(n)'
    <3>1. CASE n \in fixed[r]
      BY <1>3, <2>1, <3>1 DEF TypeOK, LocalOK
    <3>2. CASE n \notin fixed[r]
      <4>1. n \in NoticesOf(chunk) /\ Accept(chunk)
        BY <2>3, <3>2 DEF TypeOK, NoteFix, NoteError
      <4>2. PICK m \in chunk : m[1] = n
        BY <4>1 DEF NoticesOf
      <4>3. m \in Messages /\ pushed'[m] > 0
        BY <1>3, <4>1, <4>2 DEF TypeOK, Accept
      <4> QED
        BY <4>2, <4>3 DEF Sent, MessagesOf
    <3> QED
      BY <3>1, <3>2
  <2>4. ASSUME NEW m \in todo'[r], m[1] \in fixed'[r] \cup failed'[r]
        PROVE  m[1] \in parted'
    <3>1. CASE m[1] \in fixed[r] \cup failed[r]
      BY <1>1, <2>1, <2>4, <3>1 DEF LocalOK
    <3>2. CASE m[1] \in NoticesOf(chunk)
      <4>1. m[1] \in NoticesOf(todo[r] \ chunk)
        BY <1>1, <2>4 DEF NoticesOf
      <4> QED
        BY <1>1, <3>2, <4>1
    <3> QED
      BY <2>2, <2>4, <3>1, <3>2
  <2>5. ASSUME NEW n \in batch'[r] \ (fixed'[r] \cup failed'[r])
        PROVE  Format(r, n)' \subseteq todo'[r]
    <3>1. n \in batch[r] \ (fixed[r] \cup failed[r]) /\ n \notin NoticesOf(chunk) /\ n \in Notices
      BY <1>1, <2>2, <2>5 DEF TypeOK
    <3>2. Format(r, n)' = Format(r, n) /\ Format(r, n) \subseteq todo[r]
      BY <1>1, <2>1, <3>1 DEF LocalOK, Format, Targets
    <3>3. \A m \in Format(r, n) : m[1] = n
      BY <3>1, FormatFacts
    <3>4. \A m \in Format(r, n) : m \notin chunk
      BY <3>1, <3>3 DEF NoticesOf
    <3> QED
      BY <1>1, <3>2, <3>4
  <2> QED
    BY <1>1, <2>1, <2>2, <2>3, <2>4, <2>5 DEF LocalOK
<1> QED
  BY <1>4, <1>5 DEF LocalInv

LEMMA LocalStep ==
  TypeOK /\ TypeOK' /\ Addressed /\ LocalInv /\ [Next]_vars => LocalInv'
<1> SUFFICES ASSUME TypeOK, TypeOK', Addressed, LocalInv, [Next]_vars PROVE LocalInv'
  OBVIOUS
<1> USE DEF rows, local, history, bounds
<1>1. ASSUME local' = local, pushed' = pushed, parted' = parted,
             \A n \in Notices : /\ status'[n] = "READY" => status[n] \in {"NONE", "READY"}
                                /\ status'[n] = "NONE" => status[n] = "NONE"
      PROVE  LocalInv'
  <2>1. ASSUME NEW q \in Runs, NEW n \in batch[q]
        PROVE  status[n] # "NONE" /\ n \in Notices
    BY <2>1 DEF TypeOK, LocalInv, LocalOK
  <2>2. \A n \in Notices : Sent(n) => Sent(n)'
    BY <1>1, SentKept
  <2>3. ASSUME NEW q \in Runs PROVE LocalOK(q)'
    <3>1. \A n \in batch[q] : /\ status'[n] = "READY" => status[n] = "READY"
                              /\ status'[n] = "NONE" => status[n] = "NONE"
      BY <1>1, <2>1
    <3> QED
      BY <1>1, <2>2, <3>1, LocalKept
  <2> QED
    BY <2>3 DEF LocalInv
<1>2. ASSUME NEW n \in Notices, Create(n) \/ Delete(n) PROVE LocalInv'
  <2>1. \A k \in Notices : /\ status'[k] = "READY" => status[k] \in {"NONE", "READY"}
                           /\ status'[k] = "NONE" => status[k] = "NONE"
    BY <1>2 DEF TypeOK, Create, Delete
  <2> QED
    BY <1>1, <1>2, <2>1 DEF Create, Delete
<1>3. ASSUME NEW d \in Devices, NEW m \in Members, AddToken(d, m) PROVE LocalInv'
  BY <1>1, <1>3 DEF AddToken
<1>4. ASSUME NEW r \in Runs, ReadTokens(r) \/ Mark(r) \/ ListReady(r), ~EndRun(r)
      PROVE  LocalInv'
  <2>1. /\ \A q \in Runs \ {r} :
             /\ pc'[q] = pc[q] /\ seen'[q] = seen[q] /\ batch'[q] = batch[q]
             /\ todo'[q] = todo[q] /\ fixed'[q] = fixed[q] /\ failed'[q] = failed[q]
        /\ pushed' = pushed /\ parted' = parted
    BY <1>4 DEF TypeOK, ReadTokens, Mark, ListReady, Goto
  <2>2. \A n \in Notices : /\ status'[n] = "READY" => status[n] = "READY"
                           /\ status'[n] = "NONE" => status[n] = "NONE"
    BY <1>4 DEF TypeOK, ReadTokens, Mark, ListReady, Updated
  <2>3. \A n \in Notices : Sent(n) => Sent(n)'
    BY <2>1, SentKept
  <2>4. ASSUME NEW q \in Runs \ {r} PROVE LocalOK(q)'
    <3>1. batch[q] \subseteq Notices
      BY DEF TypeOK
    <3> QED
      BY <2>1, <2>2, <2>3, <3>1, LocalKept
  <2>5. LocalOK(r)
    BY DEF LocalInv
  <2>6. fixed[r] = {} /\ failed[r] = {} /\ fixed' = fixed /\ failed' = failed
    BY <1>4 DEF TypeOK, ReadTokens, Mark, ListReady
  <2>7. CASE ReadTokens(r)
    <3>1. pc'[r] = "list" /\ batch'[r] = {} /\ todo'[r] = {}
      BY <2>5, <2>7 DEF TypeOK, ReadTokens, Goto, LocalOK
    <3>2. LocalOK(r)'
      BY <2>6, <3>1 DEF LocalOK
    <3> QED
      BY <2>4, <3>2 DEF LocalInv
  <2>8. CASE ListReady(r)
    <3>1. /\ pc'[r] = "mark" /\ todo'[r] = {} /\ batch'[r] = {n \in Notices : status[n] = "READY"}
          /\ status' = status
      BY <1>4, <2>8 DEF TypeOK, ListReady, FindReadyNotifications, Goto
    <3>2. LocalOK(r)'
      BY <2>6, <3>1 DEF LocalOK
    <3> QED
      BY <2>4, <3>2 DEF LocalInv
  <2>9. CASE Mark(r)
    <3>1. /\ pc'[r] = "send" /\ batch'[r] = batch[r] /\ seen' = seen
          /\ todo'[r] = UNION {Format(r, n) : n \in batch[r]}
      BY <2>9 DEF TypeOK, Mark, Goto
    <3>2. batch[r] \subseteq Notices
      BY DEF TypeOK
    <3>3. \A n \in batch[r] : Format(r, n)' = Format(r, n) /\ Format(r, n) \subseteq todo'[r]
      BY <3>1 DEF Format, Targets
    <3>4. \A n \in batch[r] : status'[n] # "NONE" /\ status'[n] # "READY"
      BY <2>5, <2>9, <3>2 DEF LocalOK, Mark, Updated
    <3>5. LocalOK(r)'
      BY <2>6, <3>1, <3>3, <3>4 DEF LocalOK
    <3> QED
      BY <2>4, <3>5 DEF LocalInv
  <2> QED
    BY <1>4, <2>7, <2>8, <2>9
<1>5. ASSUME NEW r \in Runs, ListReady(r) \/ SaveOutcome(r) \/ StatementThrows(r), EndRun(r)
      PROVE  LocalInv'
  <2>1. pushed' = pushed /\ parted' = parted
    BY <1>5 DEF ListReady, SaveOutcome, StatementThrows
  <2>2. \A n \in Notices : /\ status'[n] = "READY" => status[n] = "READY"
                           /\ status'[n] = "NONE" => status[n] = "NONE"
    BY <1>5 DEF ListReady, SaveOutcome, StatementThrows, Updated
  <2> QED
    BY <1>5, <2>1, <2>2, LocalEnd
<1>6. ASSUME NEW r \in Runs,
             \/ ReadTokens(r) \/ Mark(r) \/ ListReady(r)
             \/ SaveOutcome(r) \/ StatementThrows(r)
      PROVE  LocalInv'
  <2>1. ReadTokens(r) => ~EndRun(r)
    BY DEF TypeOK, ReadTokens, EndRun, Goto
  <2>2. Mark(r) => ~EndRun(r)
    BY DEF TypeOK, Mark, EndRun, Goto
  <2>3. SaveOutcome(r) \/ StatementThrows(r) => EndRun(r)
    BY DEF SaveOutcome, StatementThrows
  <2> QED
    BY <1>4, <1>5, <1>6, <2>1, <2>2, <2>3
<1>7. ASSUME NEW r \in Runs, SendOk(r) PROVE LocalInv'
  <2>1. PICK chunk \in SUBSET todo[r] :
          Accept(chunk) /\ NoteFix(r, chunk) /\ AfterChunk(r, chunk)
    BY <1>7 DEF SendOk
  <2> QED
    BY <1>7, <2>1, LocalChunk DEF SendOk
<1>8. ASSUME NEW r \in Runs, SendThrows(r) PROVE LocalInv'
  <2>1. PICK chunk \in SUBSET todo[r] :
          /\ NoteError(r, chunk) /\ AfterChunk(r, chunk)
          /\ Accept(chunk) \/ pushed' = pushed
    BY <1>8 DEF SendThrows
  <2> QED
    BY <1>8, <2>1, LocalChunk DEF SendThrows
<1>9. CASE Crash
  BY <1>9 DEF Crash, LocalInv, LocalOK
<1>10. CASE UNCHANGED vars
  BY <1>1, <1>10 DEF vars
<1> QED
  BY <1>2, <1>3, <1>6, <1>7, <1>8, <1>9, <1>10 DEF Next, RunStep

LEMMA CountStep ==
  ASSUME PushInv, TypeOK', [Next]_vars, NEW m \in Messages
  PROVE  Counted(m)'
<1> USE DEF rows, local, history, bounds
<1>1. TypeOK /\ LocalInv /\ Addressed /\ m[1] \in Notices
  BY DEF PushInv, Messages
<1>2. ASSUME local' = local, Excepted \subseteq Excepted'
      PROVE  \A r \in Runs : Holds(r, m)' => Holds(r, m)
  BY <1>2, HoldsKept
<1>3. ASSUME NEW n \in Notices, Create(n) \/ Delete(n) PROVE Counted(m)'
  <2>1. \A r \in Runs : Holds(r, m)' => Holds(r, m)
    BY <1>2, <1>3 DEF Create, Delete, Excepted
  <2>2. Excepted' = Excepted
    BY <1>3 DEF Create, Delete, Excepted
  <2> QED
    BY <1>1, <1>3, <2>1, <2>2, CountKept DEF TypeOK, Create, Delete
<1>4. ASSUME NEW d \in Devices, NEW k \in Members, AddToken(d, k) PROVE Counted(m)'
  <2>1. Excepted' = Excepted
    BY <1>4 DEF AddToken, Excepted
  <2>2. \A r \in Runs : Holds(r, m)' => Holds(r, m)
    BY <1>2, <1>4, <2>1 DEF AddToken
  <2> QED
    BY <1>4, <2>1, <2>2, CountKept DEF AddToken
<1>5. ASSUME NEW r \in Runs, ReadTokens(r) PROVE Counted(m)'
  <2>1. Excepted' = Excepted
    BY <1>5 DEF ReadTokens, Excepted
  <2>2. batch'[r] = {}
    BY <1>1, <1>5 DEF TypeOK, ReadTokens, LocalInv, LocalOK
  <2>3. ASSUME NEW q \in Runs \ {r} PROVE Holds(q, m)' => Holds(q, m)
    <3>1. /\ pc'[q] = pc[q] /\ seen'[q] = seen[q] /\ batch'[q] = batch[q]
          /\ todo'[q] = todo[q] /\ failed'[q] = failed[q]
      BY <1>1, <1>5 DEF TypeOK, ReadTokens, Goto
    <3> QED
      BY <2>1, <3>1, HoldsKept
  <2>4. \A q \in Runs : Holds(q, m)' => Holds(q, m)
    BY <2>2, <2>3 DEF Holds
  <2> QED
    BY <1>5, <2>1, <2>4, CountKept DEF ReadTokens
<1>6. ASSUME NEW r \in Runs, ListReady(r) PROVE Counted(m)'
  <2>1. /\ status' = status /\ pushed' = pushed /\ Excepted' = Excepted
        /\ excuses' = [n \in Notices |->
             IF n \in {k \in Notices : status[k] = "READY"} \cap Shared(r)
             THEN excuses[n] + 1 ELSE excuses[n]]
    BY <1>6 DEF ListReady, FindReadyNotifications, Excepted
  <2>2. ASSUME NEW q \in Runs \ {r} PROVE Holds(q, m)' => Holds(q, m)
    <3>1. /\ pc'[q] = pc[q] /\ seen'[q] = seen[q] /\ batch'[q] = batch[q]
          /\ todo'[q] = todo[q] /\ failed'[q] = failed[q]
      BY <1>1, <1>6 DEF TypeOK, ListReady, FindReadyNotifications, EndRun, Goto
    <3> QED
      BY <2>1, <3>1, HoldsKept
  <2>3. CASE status[m[1]] = "READY"
    BY <1>1, <2>1, <2>2, <2>3, CountListed
  <2>4. CASE status[m[1]] # "READY"
    <3>1. m[1] \notin batch'[r]
      BY <1>1, <1>6, <2>4 DEF TypeOK, ListReady, FindReadyNotifications, EndRun, Goto
    <3>2. \A q \in Runs : Holds(q, m)' => Holds(q, m)
      BY <2>2, <3>1 DEF Holds
    <3>3. excuses'[m[1]] = excuses[m[1]]
      BY <1>1, <2>1, <2>4
    <3> QED
      BY <2>1, <3>2, <3>3, CountKept
  <2> QED
    BY <2>3, <2>4
<1>7. ASSUME NEW r \in Runs, Mark(r) PROVE Counted(m)'
  <2>1. Excepted' = Excepted
    BY <1>7 DEF Mark, Excepted
  <2>2. ASSUME NEW q \in Runs \ {r} PROVE Holds(q, m)' => Holds(q, m)
    <3>1. /\ pc'[q] = pc[q] /\ seen'[q] = seen[q] /\ batch'[q] = batch[q]
          /\ todo'[q] = todo[q] /\ failed'[q] = failed[q]
      BY <1>1, <1>7 DEF TypeOK, Mark, Goto
    <3> QED
      BY <2>1, <3>1, HoldsKept
  <2>3. Holds(r, m)' => Holds(r, m)
    BY <1>7 DEF Mark, Holds
  <2>4. status'[m[1]] = status[m[1]] \/ status'[m[1]] = "PROCESSING"
    BY <1>1, <1>7 DEF Mark, Updated
  <2>5. \A q \in Runs : Holds(q, m)' => Holds(q, m)
    BY <2>2, <2>3
  <2> QED
    BY <1>7, <2>1, <2>4, <2>5, CountKept DEF Mark
<1>8. ASSUME NEW r \in Runs, pc[r] = "send", NEW chunk \in SUBSET todo[r],
             AfterChunk(r, chunk), unsure \subseteq unsure',
             \/ NoteFix(r, chunk) /\ Accept(chunk)
             \/ NoteError(r, chunk) /\ pushed' = pushed
             \/ NoteError(r, chunk) /\ Accept(chunk) /\ NoticesOf(chunk) \subseteq unsure'
      PROVE  Counted(m)'
  <2>1. /\ status' = status /\ excuses' = excuses /\ batch' = batch /\ seen' = seen
        /\ todo'[r] = todo[r] \ chunk
        /\ pc'[r] \in {"send", "save"}
        /\ parted' = parted \cup (NoticesOf(chunk) \cap NoticesOf(todo[r] \ chunk))
        /\ \A q \in Runs \ {r} : /\ pc'[q] = pc[q] /\ todo'[q] = todo[q]
                                 /\ failed'[q] = failed[q]
    BY <1>1, <1>8 DEF TypeOK, AfterChunk, Goto, NoteFix, NoteError
  <2>2. Excepted \subseteq Excepted'
    BY <1>8, <2>1 DEF Excepted
  <2>3. \A q \in Runs \ {r} : Holds(q, m)' => Holds(q, m)
    BY <2>1, <2>2, HoldsKept
  <2>4. /\ Format(r, m[1])' = Format(r, m[1])
        /\ m[1] \in failed'[r] =>
             m[1] \in failed[r] \/ m[1] \in NoticesOf(chunk) \ fixed[r]
    BY <1>1, <1>8, <2>1 DEF TypeOK, NoteFix, NoteError, Format, Targets
  <2>5. LocalOK(r)
    BY <1>1 DEF LocalInv
  <2>6. Holds(r, m)' => Holds(r, m)
    <3>1. SUFFICES ASSUME Holds(r, m)' PROVE Holds(r, m)
      OBVIOUS
    <3>2. m[1] \in batch[r]
      BY <2>1, <3>1 DEF Holds
    <3>3. CASE m \in todo'[r] \/ m \notin Format(r, m[1])
      BY <2>1, <3>2, <3>3 DEF Holds
    <3>4. CASE m \in Format(r, m[1]) /\ m[1] \in failed'[r] /\ m[1] \notin Excepted'
      <4>1. CASE m[1] \in failed[r]
        BY <2>2, <3>2, <3>4, <4>1 DEF Holds
      <4>2. CASE m[1] \notin failed[r]
        <5>1. m[1] \notin fixed[r] \cup failed[r]
          BY <2>4, <3>4, <4>2
        <5>2. m \in todo[r]
          BY <1>8, <2>5, <3>2, <3>4, <5>1 DEF LocalOK
        <5> QED
          BY <3>2, <5>2 DEF Holds
      <4> QED
        BY <4>1, <4>2
    <3> QED
      BY <2>1, <2>4, <3>1, <3>3, <3>4 DEF Holds
  <2>7. CASE m \in chunk /\ Accept(chunk)
    <3>1. m[1] \in batch[r]
      BY <1>1, <1>8, <2>7 DEF TypeOK, NoticesOf
    <3>2. Holds(r, m) /\ pushed'[m] = pushed[m] + 1
      BY <1>1, <1>8, <2>7, <3>1 DEF TypeOK, Holds, Accept
    <3>3. m \in Format(r, m[1]) /\ m \notin todo'[r] /\ pc'[r] # "mark"
      BY <1>1, <1>8, <2>1, <2>7 DEF Addressed
    <3>4. m[1] \in failed'[r] => m[1] \in Excepted'
      <4>1. CASE NoteFix(r, chunk)
        <5>1. failed' = failed
          BY <4>1 DEF NoteFix
        <5> QED
          BY <2>1, <2>5, <2>7, <5>1 DEF LocalOK, Excepted
      <4>2. CASE NoteError(r, chunk) /\ NoticesOf(chunk) \subseteq unsure'
        BY <2>7, <4>2 DEF NoticesOf, Excepted
      <4>3. CASE pushed' = pushed
        BY <1>1, <2>7, <4>3, <3>2 DEF TypeOK
      <4> QED
        BY <1>8, <4>1, <4>2, <4>3
    <3>5. ~Holds(r, m)'
      BY <2>4, <3>3, <3>4 DEF Holds
    <3>6. status[m[1]] \notin {"NONE", "READY"}
      BY <1>8, <2>5, <3>1 DEF LocalOK
    <3> QED
      BY <2>1, <2>2, <2>3, <3>2, <3>5, <3>6, CountPushed
  <2>8. CASE ~(m \in chunk /\ Accept(chunk))
    <3>1. pushed'[m] = pushed[m]
      BY <1>8, <2>8 DEF Accept
    <3>2. \A q \in Runs : Holds(q, m)' => Holds(q, m)
      BY <2>3, <2>6
    <3> QED
      BY <2>1, <2>2, <3>1, <3>2, CountKept
  <2> QED
    BY <2>7, <2>8
<1>9. ASSUME NEW r \in Runs, SendOk(r) PROVE Counted(m)'
  <2>1. PICK chunk \in SUBSET todo[r] :
          Accept(chunk) /\ NoteFix(r, chunk) /\ AfterChunk(r, chunk)
    BY <1>9 DEF SendOk
  <2> QED
    BY <1>8, <1>9, <2>1 DEF SendOk
<1>10. ASSUME NEW r \in Runs, SendThrows(r) PROVE Counted(m)'
  <2>1. PICK chunk \in SUBSET todo[r] :
          /\ NoteError(r, chunk) /\ AfterChunk(r, chunk)
          /\ \/ pushed' = pushed /\ unsure' = unsure
             \/ Accept(chunk) /\ unsure' = unsure \cup NoticesOf(chunk)
    BY <1>10 DEF SendThrows
  <2> QED
    BY <1>8, <1>10, <2>1 DEF SendThrows
<1>11. ASSUME NEW r \in Runs, SaveOutcome(r) PROVE Counted(m)'
  <2>1. /\ EndRun(r) /\ pc[r] = "save"
        /\ pushed' = pushed /\ excuses' = excuses /\ Excepted' = Excepted
    BY <1>11 DEF SaveOutcome, Excepted
  <2>2. ~Holds(r, m)' /\ \A q \in Runs \ {r} : Holds(q, m)' => Holds(q, m)
    BY <1>1, <2>1, HoldsEnd
  <2>3. status'[m[1]] = IF m[1] \in fixed[r] THEN Updated(fixed[r], "FIX")[m[1]]
                        ELSE Updated(failed[r], "ERROR")[m[1]]
    BY <1>1, <1>11 DEF SaveOutcome
  <2>4. CASE status'[m[1]] = status[m[1]]
    <3>1. \A q \in Runs : Holds(q, m)' => Holds(q, m)
      BY <2>2
    <3> QED
      BY <2>1, <2>4, <3>1, CountKept
  <2>5. CASE status'[m[1]] = "FIX"
    BY <2>1, <2>2, <2>5, CountSaved
  <2>6. CASE m[1] \in failed[r] /\ status'[m[1]] = "ERROR"
    <3>1. Holds(r, m) \/ m[1] \in Excepted
      BY <1>1, <2>1, <2>6 DEF TypeOK, Holds
    <3> QED
      BY <2>1, <2>2, <2>6, <3>1, CountSaved
  <2> QED
    BY <1>1, <2>3, <2>4, <2>5, <2>6 DEF Updated
<1>12. ASSUME NEW r \in Runs, StatementThrows(r) PROVE Counted(m)'
  <2>1. EndRun(r) /\ UNCHANGED <<status, pushed, excuses>> /\ Excepted' = Excepted
    BY <1>12 DEF StatementThrows, Excepted
  <2>2. ~Holds(r, m)' /\ \A q \in Runs \ {r} : Holds(q, m)' => Holds(q, m)
    BY <1>1, <2>1, HoldsEnd
  <2>3. \A q \in Runs : Holds(q, m)' => Holds(q, m)
    BY <2>2
  <2> QED
    BY <2>1, <2>3, CountKept
<1>13. CASE Crash
  <2>1. Excepted' = Excepted /\ \A r \in Runs : ~Holds(r, m)'
    BY <1>13 DEF Crash, Holds, Excepted
  <2> QED
    BY <1>13, <2>1, CountKept DEF Crash
<1>14. CASE UNCHANGED vars
  <2>1. Excepted' = Excepted
    BY <1>14 DEF vars, Excepted
  <2>2. \A r \in Runs : Holds(r, m)' => Holds(r, m)
    BY <1>2, <1>14, <2>1 DEF vars
  <2> QED
    BY <1>14, <2>1, <2>2, CountKept DEF vars
<1> QED
  BY <1>3, <1>4, <1>5, <1>6, <1>7, <1>9, <1>10, <1>11, <1>12, <1>13, <1>14 DEF Next, RunStep

(* FIX is written only for what was sent, and what was sent stays sent. *)
LEMMA FixStep == PushInv /\ [Next]_vars => FixTrue'
<1> SUFFICES ASSUME PushInv, [Next]_vars, NEW n \in Notices, status'[n] = "FIX"
             PROVE  Sent(n)'
  BY DEF FixTrue
<1> USE DEF rows, local, history, bounds
<1>1. TypeOK /\ LocalInv /\ (status[n] = "FIX" => Sent(n))
  BY DEF PushInv, FixTrue
<1>2. ASSUME pushed' = pushed, status[n] = "FIX" PROVE Sent(n)'
  BY <1>1, <1>2, SentKept
<1>3. ASSUME NEW k \in Notices, Create(k) \/ Delete(k) PROVE Sent(n)'
  BY <1>1, <1>2, <1>3 DEF TypeOK, Create, Delete
<1>4. ASSUME NEW d \in Devices, NEW k \in Members, AddToken(d, k) PROVE Sent(n)'
  BY <1>2, <1>4 DEF AddToken
<1>5. ASSUME NEW r \in Runs, ReadTokens(r) \/ ListReady(r) \/ Mark(r) \/ StatementThrows(r)
      PROVE  Sent(n)'
  BY <1>2, <1>5 DEF ReadTokens, ListReady, Mark, Updated, StatementThrows
<1>6. ASSUME NEW r \in Runs, SendOk(r) \/ SendThrows(r) PROVE Sent(n)'
  <2>1. PICK chunk \in SUBSET todo[r] :
          AfterChunk(r, chunk) /\ (Accept(chunk) \/ pushed' = pushed)
    BY <1>6 DEF SendOk, SendThrows
  <2>2. chunk \in SUBSET Messages /\ status' = status
    BY <1>1, <2>1 DEF TypeOK, AfterChunk
  <2> QED
    BY <1>1, <2>1, <2>2, SentKept
<1>7. ASSUME NEW r \in Runs, SaveOutcome(r) PROVE Sent(n)'
  <2>1. pushed' = pushed /\ (status[n] = "FIX" \/ n \in fixed[r])
    BY <1>7 DEF SaveOutcome, Updated
  <2>2. n \in fixed[r] => Sent(n)
    BY <1>1 DEF LocalInv, LocalOK
  <2> QED
    BY <1>1, <2>1, <2>2, SentKept
<1>8. CASE Crash \/ UNCHANGED vars
  BY <1>2, <1>8 DEF Crash, vars
<1> QED
  BY <1>3, <1>4, <1>5, <1>6, <1>7, <1>8 DEF Next, RunStep

LEMMA PushStep == PushInv /\ [Next]_vars => PushInv'
<1> SUFFICES ASSUME PushInv, [Next]_vars PROVE PushInv'
  OBVIOUS
<1>1. TypeOK' /\ Addressed' /\ LocalInv' /\ FixTrue'
  BY TypeStep, AddressedStep, LocalStep, FixStep DEF PushInv
<1>2. ASSUME NEW m \in Messages PROVE Counted(m)'
  BY <1>1, CountStep
<1> QED
  BY <1>1, <1>2 DEF PushInv

LEMMA PushInvImplies == PushInv => StatusTruthful /\ PushedOnce
<1> SUFFICES ASSUME PushInv PROVE StatusTruthful /\ PushedOnce
  OBVIOUS
<1>1. ASSUME NEW m \in Messages
      PROVE  /\ m[1] \in Notices
             /\ status[m[1]] = "READY" => pushed[m] = 0
             /\ status[m[1]] = "ERROR" =>
                  pushed[m] = 0 \/ m[1] \in Excepted \/ excuses[m[1]] > 0
             /\ pushed[m] <= 1 + excuses[m[1]]
  <2>1. /\ m[1] \in Notices /\ Cardinality(Holders(m)) \in Nat
        /\ pushed[m] \in Nat /\ excuses[m[1]] \in Nat
    BY CountTypes DEF PushInv
  <2> QED
    BY <2>1 DEF PushInv, Counted
<1>2. PushedOnce
  BY <1>1 DEF PushedOnce
<1>3. ASSUME NEW n \in Notices
      PROVE  /\ status[n] = "READY" => \A m \in MessagesOf({n}) : pushed[m] = 0
             /\ status[n] = "FIX" => \E m \in MessagesOf({n}) : pushed[m] > 0
             /\ status[n] = "ERROR" =>
                  \/ \A m \in MessagesOf({n}) : pushed[m] = 0
                  \/ n \in unsure \cup parted \/ excuses[n] > 0
  <2>1. \A m \in MessagesOf({n}) : m \in Messages /\ m[1] = n
    BY DEF MessagesOf
  <2>2. status[n] = "FIX" => \E m \in MessagesOf({n}) : pushed[m] > 0
    BY DEF PushInv, FixTrue, Sent
  <2> QED
    BY <1>1, <2>1, <2>2 DEF Excepted
<1> QED
  BY <1>2, <1>3 DEF StatusTruthful

(* StatusTruthful of PushNotification: READY, FIX and ERROR tell what Expo  *)
(* was sent, however many runs overlap and wherever they fail.               *)
THEOREM StatusesTellTheTruth == Spec => []StatusTruthful
  BY PushInit, PushStep, PushInvImplies, PTL DEF Spec

(* PushedOnce of PushNotification: beyond the first push each one is owed to *)
(* a run that listed the notice before another one could mark it.            *)
THEOREM NoUnexplainedPush == Spec => []PushedOnce
  BY PushInit, PushStep, PushInvImplies, PTL DEF Spec

(* NeverBack of PushNotification: writing statuses by id never brings a     *)
(* deleted notice back and never makes a notice READY again.                 *)
THEOREM StatusesNeverGoBack == Spec => NeverBack
<1>1. TypeOK /\ [Next]_vars =>
        [\A n \in Notices :
           /\ status[n] = "DELETED" => status'[n] = "DELETED"
           /\ status'[n] = "READY" => status[n] \in {"NONE", "READY"}]_vars
  <2> SUFFICES ASSUME TypeOK, [Next]_vars, NEW n \in Notices
               PROVE  /\ status[n] = "DELETED" => status'[n] = "DELETED"
                      /\ status'[n] = "READY" => status[n] \in {"NONE", "READY"}
    OBVIOUS
  <2>1. CASE status' = status
    BY <2>1
  <2>2. ASSUME NEW m \in Notices, Create(m) \/ Delete(m)
        PROVE  /\ status[n] = "DELETED" => status'[n] = "DELETED"
               /\ status'[n] = "READY" => status[n] \in {"NONE", "READY"}
    BY <2>2 DEF TypeOK, Create, Delete
  <2>3. ASSUME NEW r \in Runs, Mark(r) \/ SaveOutcome(r)
        PROVE  /\ status[n] = "DELETED" => status'[n] = "DELETED"
               /\ status'[n] = "READY" => status[n] \in {"NONE", "READY"}
    BY <2>3 DEF Mark, SaveOutcome, Updated
  <2>4. ASSUME NEW r \in Runs, SendOk(r) \/ SendThrows(r) PROVE status' = status
    BY <2>4 DEF SendOk, SendThrows, AfterChunk, rows
  <2>5. ASSUME NEW d \in Devices, NEW m \in Members, AddToken(d, m) PROVE status' = status
    BY <2>5 DEF AddToken
  <2>6. ASSUME NEW r \in Runs, ReadTokens(r) \/ ListReady(r) \/ StatementThrows(r)
        PROVE  status' = status
    BY <2>6 DEF ReadTokens, ListReady, StatementThrows, rows
  <2>7. CASE Crash \/ UNCHANGED vars
    BY <2>7 DEF Crash, vars, rows
  <2> QED
    BY <2>1, <2>2, <2>3, <2>4, <2>5, <2>6, <2>7 DEF Next, RunStep
<1> QED
  BY <1>1, TypeInit, TypeStep, PTL DEF Spec, NeverBack

-----------------------------------------------------------------------------
(* At most once.  The only way to a second push is a run that lists a notice   *)
(* while another has listed it and not yet marked it.  Where the runs keep     *)
(* apart in that stretch, nothing that fails brings a second push about: a     *)
(* run that dies leaves its notices PROCESSING, and nobody takes them up.      *)

ListingsApart == \A r, q \in Runs : r # q => ~(pc[r] = "list" /\ pc[q] = "mark")

AtMostOnce ==
  \A m \in Messages :
    /\ pushed[m] <= 1
    /\ status[m[1]] = "ERROR" => pushed[m] = 0 \/ m[1] \in unsure \cup parted

NoExcuses == \A n \in Notices : excuses[n] = 0

LEMMA NoExcusesStep == PushInv /\ ListingsApart /\ NoExcuses /\ [Next]_vars => NoExcuses'
<1> SUFFICES ASSUME PushInv, ListingsApart, NoExcuses, [Next]_vars PROVE NoExcuses'
  OBVIOUS
<1>1. ASSUME NEW r \in Runs, ListReady(r) PROVE NoExcuses'
  <2>1. ASSUME NEW n \in FindReadyNotifications, NEW q \in Runs \ {r}, n \in batch[q]
        PROVE  FALSE
    <3>1. status[n] = "READY" /\ pc[r] = "list" /\ pc[q] # "mark"
      BY <1>1, <2>1 DEF FindReadyNotifications, ListReady, ListingsApart
    <3> QED
      BY <2>1, <3>1 DEF PushInv, LocalInv, LocalOK, TypeOK
  <2>2. FindReadyNotifications \cap Shared(r) = {}
    BY <2>1 DEF Shared
  <2> QED
    BY <1>1, <2>2 DEF ListReady, NoExcuses
<1>2. ASSUME NEW r \in Runs,
             \/ ReadTokens(r) \/ Mark(r) \/ SendOk(r) \/ SendThrows(r)
             \/ SaveOutcome(r) \/ StatementThrows(r)
      PROVE  excuses' = excuses
  BY <1>2
  DEF ReadTokens, Mark, SendOk, SendThrows, AfterChunk, SaveOutcome, StatementThrows, history
<1>3. CASE (\E n \in Notices : Create(n) \/ Delete(n)) \/ Crash \/ UNCHANGED vars
  BY <1>3 DEF Create, Delete, Crash, vars, history, NoExcuses
<1>4. ASSUME NEW d \in Devices, NEW m \in Members, AddToken(d, m) PROVE excuses' = excuses
  BY <1>4 DEF AddToken
<1> QED
  BY <1>1, <1>2, <1>3, <1>4 DEF Next, RunStep, NoExcuses

(* Each notice is pushed to a device at most once, and ERROR means that it was *)
(* not, unless the answer was lost or the notice was sent in two chunks, for   *)
(* any number of runs, notices, devices and mishaps: if no run lists while     *)
(* another is between its listing and its marking.                             *)
THEOREM PushedAtMostOnce == Spec /\ []ListingsApart => []AtMostOnce
<1>1. Init => NoExcuses
  BY DEF Init, NoExcuses
<1>2. PushInv /\ NoExcuses => AtMostOnce
  <2> SUFFICES ASSUME PushInv, NoExcuses, NEW m \in Messages
               PROVE  /\ pushed[m] <= 1
                      /\ status[m[1]] = "ERROR" =>
                           pushed[m] = 0 \/ m[1] \in unsure \cup parted
    BY DEF AtMostOnce
  <2>1. m[1] \in Notices /\ m \in MessagesOf({m[1]})
    BY DEF Messages, MessagesOf
  <2>2. pushed[m] \in Nat /\ excuses[m[1]] = 0
    BY <2>1 DEF PushInv, TypeOK, NoExcuses
  <2>3. /\ pushed[m] <= 1 + excuses[m[1]]
        /\ status[m[1]] = "ERROR" =>
             pushed[m] = 0 \/ m[1] \in unsure \cup parted \/ excuses[m[1]] > 0
    BY <2>1, PushInvImplies DEF PushedOnce, StatusTruthful
  <2> QED
    BY <2>2, <2>3
<1> QED
  BY PushInit, PushStep, NoExcusesStep, <1>1, <1>2, PTL DEF Spec
=============================================================================
