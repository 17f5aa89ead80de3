------------------------------- MODULE Members -------------------------------
(***************************************************************************)
(* The rows of members and the requests that save them: UserController and *)
(* UserService.  A request works on a copy of the row and hands it to      *)
(* TypeORM's save, which reads the row again and updates the columns in    *)
(* which the copy differs, whoever changed them.                           *)
(*                                                                         *)
(* A column holds the request that wrote it.  MemberDao is not in the      *)
(* repository; it is taken to look up available members and to save.       *)
(***************************************************************************)
EXTENDS Requests

CONSTANT Member

VARIABLES
  member,   \* [Member -> [status, profile, angler]]
  copy,     \* [Reqs -> the member as the request saves it]
  columns   \* [Reqs -> the columns its save is about to update]

memberVars == <<member, copy, columns>>

Unwritten == "initial"
NewMember == [status |-> "Available", profile |-> Unwritten, angler |-> Unwritten]
MemberRow ==
  [status : {"Available", "Withdrawal"},
   profile : Reqs \cup {Unwritten}, angler : Reqs \cup {Unwritten}]

MemberCalls == [op : {"profile", "angler", "withdrawal"}, by : Member]
MemberSteps == {"upload", "save", "update"}

MembersTypeOK ==
  /\ member \in [Member -> MemberRow]
  /\ copy \in [Reqs -> MemberRow]
  /\ columns \in [Reqs -> SUBSET {"status", "profile", "angler"}]

MembersInit ==
  /\ member = [m \in Member |-> NewMember]
  /\ copy = [r \in Reqs |-> NewMember]
  /\ columns = [r \in Reqs |-> {}]

\* findAvailableOneById: is there one?
Available(m) == member[m].status = "Available"

-----------------------------------------------------------------------------
\* PATCH /users/profile: the guard reads the member.  The upload of the icon, if
\* there is one, comes next.
PostProfile(r) ==
  \E m \in Member :
    /\ Available(m)
    /\ \E l \in {"upload", "save"} : Arrive(r, [op |-> "profile", by |-> m], l)
    /\ copy' = [copy EXCEPT ![r] = [member[m] EXCEPT !.profile = r]]
    /\ UNCHANGED <<member, columns>>

UploadFile(r) ==
  /\ pc[r] = "upload"
  /\ Goto(r, "save")
  /\ UNCHANGED memberVars

\* Mutant: the member is built anew from the request.
PostProfileAnglerAnew(r) ==
  \E m \in Member :
    /\ Available(m)
    /\ Arrive(r, [op |-> "angler", by |-> m], "save")
    /\ copy' = [copy EXCEPT ![r] = [NewMember EXCEPT !.angler = r]]
    /\ UNCHANGED <<member, columns>>

\* PATCH /users/profile/angler: getMember reads the member, again.
PostProfileAngler(r) ==
  \E m \in Member :
    /\ Available(m)
    /\ Arrive(r, [op |-> "angler", by |-> m], "save")
    /\ copy' = [copy EXCEPT ![r] = [member[m] EXCEPT !.angler = r]]
    /\ UNCHANGED <<member, columns>>

\* PATCH /users/withdrawal
Withdrawal(r) ==
  \E m \in Member :
    /\ Available(m)
    /\ Arrive(r, [op |-> "withdrawal", by |-> m], "save")
    /\ copy' = [copy EXCEPT ![r] = [member[m] EXCEPT !.status = "Withdrawal"]]
    /\ UNCHANGED <<member, columns>>

\* save: what differs between the row, read now, and the copy.
SaveMember(r) ==
  /\ pc[r] = "save"
  /\ columns' = [columns EXCEPT ![r] =
                   {c \in DOMAIN copy[r] : copy[r][c] # member[call[r].by][c]}]
  /\ Goto(r, "update")
  /\ UNCHANGED <<member, copy>>

\* The update; a user name that another member has is answered with 400.
UpdateMember(r) ==
  /\ pc[r] = "update"
  /\ \/ /\ member' = [member EXCEPT ![call[r].by] =
                        [c \in DOMAIN @ |-> IF c \in columns[r] THEN copy[r][c] ELSE @[c]]]
        /\ Goto(r, "done")
     \/ /\ call[r].op = "profile"
        /\ Refuse(r)
        /\ UNCHANGED member
  /\ UNCHANGED <<copy, columns>>

MemberStep(r) ==
  \/ PostProfile(r) \/ UploadFile(r) \/ PostProfileAngler(r) \/ Withdrawal(r)
  \/ SaveMember(r) \/ UpdateMember(r)

-----------------------------------------------------------------------------
\* The column a request is about, and what it writes there.
ColumnOf(r) == IF call[r].op = "withdrawal" THEN "status" ELSE call[r].op
ValueOf(r) == IF call[r].op = "withdrawal" THEN "Withdrawal" ELSE r

\* What a request has saved stands until a later one writes the same column, or
\* unless another save of the member overlapped: a profile saved as the guard read
\* it takes a withdrawal back.
SavesStand ==
  \A r \in Reqs :
    (call[r].op \in {"profile", "angler", "withdrawal"} /\ Over(r) /\ r \notin broken) =>
      \/ member[call[r].by][ColumnOf(r)] = ValueOf(r)
      \/ \E s \in Reqs :
           /\ call[s].op \in {"profile", "angler", "withdrawal"}
           /\ call[s].by = call[r].by
           /\ Overlap(r, s) \/ (r \in before[s] /\ ColumnOf(s) = ColumnOf(r))
=============================================================================
