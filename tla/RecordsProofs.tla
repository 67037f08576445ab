---------------------------- MODULE RecordsProofs ---------------------------
(***************************************************************************)
(* Proofs about the requests that work on the database, for every set of    *)
(* requests in flight, users, forms, questions, registers, devices and      *)
(* lobbies: Organisation, Accounts, Forms, PublicForms, Registers and the   *)
(* two modules of reports.  The modules share no state; a section is about  *)
(* one of them.                                                             *)
(***************************************************************************)
EXTENDS Organisation, Accounts, Forms, PublicForms, Registers, FormReports, FleetReports,
        FiniteSetTheorems, SequenceTheorems, TLAPS

-----------------------------------------------------------------------------
(* Divisions, lobbies and devices *)

(* What a request has still to write leaves a fitting link, unless the link has *)
(* been written since the request was judged.                                   *)
DeviceLinkInv ==
  entity = "device" =>
    /\ row.there /\ link = "judged" => Linked(row, Nothing)
    /\ \A r \in AdminRequest :
         editing[r].stage = "write" /\ SetsLink(editing[r].change) /\ ~editing[r].stale =>
           Linked(row, editing[r].change)

(* A request leaves the row, and what it writes is a row. *)
LEMMA UpdatedRowType ==
  ASSUME row \in Rows, NEW change \in Changes
  PROVE  UpdatedRow(change) \in Rows
BY DEF Rows, Changes, UpdatedRow, Given

LEMMA DifferingType ==
  ASSUME NEW change \in Changes
  PROVE  Differing(change) \in Changes
<1>1. DOMAIN change = {"division", "lobby", "enabled"}
  BY DEF Changes
<1> QED
  BY <1>1 DEF Changes, Differing

(* A step of a request that loads the row; what differs from the row would make *)
(* the same row of it.                                                          *)
LEMMA LoadRowStep ==
  ASSUME OrganisationTypeOK, DeviceLinkInv,
         NEW r \in AdminRequest, NEW admin, NEW change \in Changes, NEW stage \in {"write", "delete"},
         LoadRow(r, admin, change, stage),
         stage = "write" /\ entity = "device" => ~SetsLink(change) \/ Linked(row, change)
  PROVE  OrganisationTypeOK' /\ DeviceLinkInv'
<1> USE DEF OrganisationTypeOK, LoadRow
<1>1. Differing(change) \in Changes
  BY DifferingType
<1>2. editing' \in [AdminRequest -> Edit]
  BY <1>1 DEF Edit
<1>3. SetsLink(Differing(change)) => SetsLink(change)
  BY DEF Changes, SetsLink, Differing
<1>4. Linked(row, change) => Linked(row, Differing(change))
  <2>1. DOMAIN change = {"division", "lobby", "enabled"}
    BY DEF Changes
  <2> QED
    BY <2>1, OrganisationConstantsAssumption
       DEF Changes, Rows, Differing, Linked, FinalLobby, FinalDivision, Given
<1>5. DeviceLinkInv'
  BY <1>3, <1>4 DEF DeviceLinkInv, Linked, FinalLobby, FinalDivision, SetsLink, Edit
<1> QED
  BY <1>2, <1>5

LEMMA NothingSetsNoLink == ~SetsLink(Nothing) /\ \A b : ~SetsLink([Nothing EXCEPT !.enabled = b])
BY DEF SetsLink, Nothing

LEMMA ChangesOfFlag == Nothing \in Changes /\ \A b \in BOOLEAN : [Nothing EXCEPT !.enabled = b] \in Changes
BY DEF Changes, Nothing

LEMMA OrganisationStep ==
  OrganisationTypeOK /\ DeviceLinkInv /\ [OrganisationNext]_organisationVars =>
    OrganisationTypeOK' /\ DeviceLinkInv'
<1> SUFFICES ASSUME OrganisationTypeOK, DeviceLinkInv, [OrganisationNext]_organisationVars
             PROVE  OrganisationTypeOK' /\ DeviceLinkInv'
  OBVIOUS
<1> USE OrganisationConstantsAssumption
<1>1. ASSUME NEW admin \in Admin, NEW new \in Rows, CreateRow(admin, new)
      PROVE  OrganisationTypeOK' /\ DeviceLinkInv'
  BY <1>1
     DEF CreateRow, InsertRow, Origin, OrganisationTypeOK, DeviceLinkInv, NoEdit, Finished, Linked,
         FinalLobby, FinalDivision
<1>10. ASSUME NEW new \in Rows, RegisterDevice(new)
       PROVE  OrganisationTypeOK' /\ DeviceLinkInv'
  BY <1>10
     DEF RegisterDevice, InsertRow, Origin, OrganisationTypeOK, DeviceLinkInv, NoEdit, Finished
<1>2. ASSUME NEW r \in AdminRequest, NEW admin \in Admin, NEW change \in Changes, UpdateDevice(r, admin, change)
      PROVE  OrganisationTypeOK' /\ DeviceLinkInv'
  BY <1>2, LoadRowStep DEF UpdateDevice
<1>3. ASSUME NEW r \in AdminRequest, NEW admin \in Admin, NEW b \in BOOLEAN,
             SetDeviceActive(r, admin, b) \/ UpdateLobby(r, admin, b)
      PROVE  OrganisationTypeOK' /\ DeviceLinkInv'
  BY <1>3, LoadRowStep, NothingSetsNoLink, ChangesOfFlag DEF SetDeviceActive, UpdateLobby
<1>9. ASSUME NEW r \in AdminRequest, NEW b \in BOOLEAN, UpdateDivision(r, b)
      PROVE  OrganisationTypeOK' /\ DeviceLinkInv'
  BY <1>9, LoadRowStep, NothingSetsNoLink, ChangesOfFlag DEF UpdateDivision
<1>4. ASSUME NEW r \in AdminRequest, NEW admin \in Admin, DeleteDevice(r, admin)
      PROVE  OrganisationTypeOK' /\ DeviceLinkInv'
  BY <1>4, LoadRowStep, ChangesOfFlag DEF DeleteDevice
<1>5. ASSUME NEW r \in AdminRequest, WriteRow(r)
      PROVE  OrganisationTypeOK' /\ DeviceLinkInv'
  <2> DEFINE change == editing[r].change
  <2>1. change \in Changes
    BY DEF OrganisationTypeOK, Edit
  <2>2. row' \in Rows
    BY <1>5, <2>1, UpdatedRowType DEF WriteRow, OrganisationTypeOK
  <2>3. Finished \in Edit
    BY ChangesOfFlag DEF Finished, Edit
  <2>4. OrganisationTypeOK'
    BY <1>5, <2>2, <2>3 DEF WriteRow, Origin, OrganisationTypeOK, Edit
  <2>5. ASSUME entity = "device", row.there, link' = "judged" PROVE Linked(row', Nothing)
    <3>1. CASE SetsLink(change)
      BY <1>5, <2>1, <2>5, <3>1
         DEF WriteRow, DeviceLinkInv, OrganisationTypeOK, Rows, UpdatedRow, Linked, FinalLobby,
             FinalDivision, Nothing, Given
    <3>2. CASE ~SetsLink(change)
      BY <1>5, <2>1, <2>5, <3>2
         DEF WriteRow, DeviceLinkInv, OrganisationTypeOK, Rows, UpdatedRow, Linked, FinalLobby,
             FinalDivision, Nothing, Given, SetsLink
    <3> QED
      BY <3>1, <3>2
  <2>6. ASSUME entity = "device", NEW q \in AdminRequest,
               editing'[q].stage = "write", SetsLink(editing'[q].change), ~editing'[q].stale
        PROVE  Linked(row', editing'[q].change)
    <3>1. q # r
      BY <1>5, <2>6 DEF WriteRow, Finished, OrganisationTypeOK
    <3>2. /\ editing'[q].stage = editing[q].stage
          /\ editing'[q].change = editing[q].change
          /\ editing'[q].stale = (editing[q].stale \/ (~NoEdit(q) /\ SetsLink(change)))
      BY <1>5, <3>1 DEF WriteRow, OrganisationTypeOK, Edit
    <3>3. ~NoEdit(q)
      BY <2>6, <3>2 DEF NoEdit, Finished
    <3>4. ~SetsLink(change) /\ ~editing[q].stale
      BY <2>6, <3>2, <3>3
    <3>5. row'.lobby = row.lobby /\ row'.division = row.division
      BY <1>5, <2>1, <3>4 DEF WriteRow, UpdatedRow, Given, SetsLink, OrganisationTypeOK, Rows
    <3>6. Linked(row, editing[q].change)
      BY <2>6, <3>2, <3>4 DEF DeviceLinkInv
    <3> QED
      BY <3>2, <3>5, <3>6 DEF Linked, FinalLobby, FinalDivision
  <2>7. entity' = entity /\ (row'.there => row.there)
    BY <1>5, <2>1 DEF WriteRow, UpdatedRow, OrganisationTypeOK, Rows
  <2> QED
    BY <2>4, <2>5, <2>6, <2>7 DEF DeviceLinkInv, Linked, FinalLobby, FinalDivision
<1>6. ASSUME NEW r \in AdminRequest, DeleteRow(r)
      PROVE  OrganisationTypeOK' /\ DeviceLinkInv'
  BY <1>6, ChangesOfFlag
     DEF DeleteRow, OrganisationTypeOK, DeviceLinkInv, Linked, FinalLobby, FinalDivision,
         Finished, Edit, Rows
<1>7. ASSUME NEW r \in AdminRequest, EditFails(r)
      PROVE  OrganisationTypeOK' /\ DeviceLinkInv'
  BY <1>7, ChangesOfFlag
     DEF EditFails, OrganisationTypeOK, DeviceLinkInv, Linked, FinalLobby, FinalDivision,
         Finished, Edit
<1>8. CASE UNCHANGED organisationVars
  BY <1>8 DEF organisationVars, OrganisationTypeOK, DeviceLinkInv, Linked, FinalLobby, FinalDivision
<1> QED
  BY <1>1, <1>2, <1>3, <1>4, <1>5, <1>6, <1>7, <1>8, <1>9, <1>10 DEF OrganisationNext

LEMMA OrganisationStart == OrganisationInit => OrganisationTypeOK /\ DeviceLinkInv
<1> SUFFICES ASSUME OrganisationInit PROVE OrganisationTypeOK /\ DeviceLinkInv
  OBVIOUS
<1>1. OrganisationTypeOK
  BY ChangesOfFlag DEF OrganisationInit, OrganisationTypeOK, Origin, Edit, Finished
<1>2. row \in Rows /\ (link = "judged" => DivisionOf[row.lobby] = row.division) /\ \A r \in AdminRequest : editing[r].stage = "idle"
  BY DEF OrganisationInit, Finished
<1>3. link = "judged" => Linked(row, Nothing)
  BY <1>2 DEF Linked, FinalLobby, FinalDivision, Nothing, Given
<1> QED
  BY <1>1, <1>2, <1>3 DEF DeviceLinkInv

(* A device that a judged request has put where it is, is in a lobby of its     *)
(* division, unless the link was written since the request was judged.          *)
THEOREM DevicesAlwaysLinked == OrganisationSpec => []DeviceLinked
<1>1. OrganisationTypeOK /\ DeviceLinkInv => DeviceLinked
  BY
     DEF OrganisationTypeOK, DeviceLinkInv, DeviceLinked, Linked, FinalLobby, FinalDivision,
         Nothing, Given
<1> QED
  BY <1>1, OrganisationStart, OrganisationStep, PTL DEF OrganisationSpec

-----------------------------------------------------------------------------
(* Accounts *)

(* An account that is there when a request is; a decision after which the       *)
(* approvals in flight are early.                                               *)
ApprovalInv ==
  /\ account.status = "NONE" => \A r \in UserRequest : request[r].stage = "new"
  /\ account.status \in {"ACTIVE", "INACTIVE"} =>
       \A r \in UserRequest : At(r, "approve", "write") => r \in early

(* Tokens in links are those of requests that are over; a token that has reset  *)
(* the password is not that of the row.                                         *)
ResetLinkInv ==
  /\ \A t \in mailed : t = Original \/ (t \in UserRequest /\ At(t, "forgot", "over"))
  /\ spent \subseteq mailed
  /\ account.token \notin spent
  /\ \A r \in UserRequest : At(r, "reset", "write") => request[r].known \in mailed

(* A request has put a picture in the row. *)
PlacedBy(p, operation) ==
  p \in UserRequest => request[p].operation = operation /\ request[p].stage \in {"remove", "over"}

(* Avatars and faces that the row names, or that requests have found there, are *)
(* not those of requests still to write them, which are in their store.         *)
PictureInv ==
  /\ PlacedBy(account.avatar, "avatar")
  /\ face \in UserRequest => At(face, "enroll", "over")
  /\ \A r \in UserRequest : UnderWay(r) =>
       /\ request[r].operation \in {"avatar", "clear", "name"} => PlacedBy(request[r].known, "avatar")
       /\ request[r].operation = "enroll" /\ request[r].known \in UserRequest =>
            At(request[r].known, "enroll", "over")
  /\ \A r \in UserRequest :
       /\ At(r, "avatar", "remove") => request[r].known # Nobody /\ (request[r].known = account.avatar => named)
       /\ At(r, "avatar", "write") => r \in objects
       /\ At(r, "enroll", "write") => r \in collection

AccountInv == AccountTypeOK /\ ApprovalInv /\ ResetLinkInv /\ PictureInv /\ PicturesKept

LEMMA AccountStart == AccountInit => AccountInv
<1> SUFFICES ASSUME AccountInit PROVE AccountInv
  OBVIOUS
<1> USE AccountConstantsAssumption
<1>1. /\ account \in Account
      /\ \A r \in UserRequest : request[r] = [operation |-> "none", stage |-> "new", known |-> Nobody]
      /\ {account.token, account.avatar} \subseteq {Nobody, Original}
      /\ face \in {Nobody, Original}
      /\ objects = {account.avatar} \ {Nobody} /\ collection = {face} \ {Nobody}
      /\ mailed = {account.token} \ {Nobody} /\ spent = {} /\ early = {} /\ torn = {} /\ named = FALSE
  BY DEF AccountInit, StartsWith
<1>2. AccountTypeOK
  <2>1. request \in [UserRequest -> RequestState]
    BY DEF AccountInit, RequestState, Operation, Picture
  <2> QED
    BY <1>1, <2>1 DEF AccountTypeOK, Account, Picture
<1>3. ApprovalInv
  BY <1>1 DEF ApprovalInv, At
<1>4. ResetLinkInv
  BY <1>1 DEF ResetLinkInv, At
<1>5. PictureInv
  BY <1>1 DEF PictureInv, At, UnderWay, PlacedBy
<1>6. PicturesKept
  BY <1>1 DEF PicturesKept
<1> QED
  BY <1>2, <1>3, <1>4, <1>5, <1>6 DEF AccountInv

(* Each step of a request, but for its loading of the row, moves that request   *)
(* on and leaves the others.                                                    *)
LEMMA TurnOthers ==
  ASSUME AccountTypeOK, NEW r \in UserRequest,
         NEW stage \in {"new", "write", "mail", "store", "remove", "index", "over"}, Turn(r, stage)
  PROVE  /\ request' \in [UserRequest -> RequestState]
         /\ request'[r] = [request[r] EXCEPT !.stage = stage]
         /\ \A q \in UserRequest \ {r} : request'[q] = request[q]
BY DEF AccountTypeOK, RequestState, Turn

LEMMA BeginRequestStep ==
  ASSUME AccountInv, NEW r \in UserRequest, NEW operation \in Operation,
         NEW stage \in {"write", "mail", "store", "remove", "index"}, NEW known \in Picture,
         Begin(r, operation, stage, known),
         operation = "approve" => account.status = "PENDING_APPROVAL",
         operation = "reset" => known \in mailed /\ known = account.token,
         operation \in {"avatar", "clear"} => known = account.avatar,
         operation = "name" => PlacedBy(known, "avatar"),
         operation = "enroll" => known = face,
         operation = "avatar" => stage = "store",
         operation = "enroll" => stage = "remove"
  PROVE  AccountInv'
<1> USE AccountConstantsAssumption DEF Begin
<1>1. /\ request'[r] = [operation |-> operation, stage |-> stage, known |-> known]
      /\ \A q \in UserRequest \ {r} : request'[q] = request[q]
      /\ request' \in [UserRequest -> RequestState]
  BY DEF AccountInv, AccountTypeOK, RequestState
<1>2. AccountTypeOK'
  BY <1>1 DEF AccountInv, AccountTypeOK
<1>3. ApprovalInv'
  BY <1>1 DEF AccountInv, ApprovalInv, At
<1>4. ResetLinkInv'
  BY <1>1 DEF AccountInv, ResetLinkInv, At
<1>5. PictureInv'
  <2>1. \A p \in UserRequest : request[p].stage # "new" => request'[p] = request[p]
    BY <1>1
  <2>2. \A p, o : PlacedBy(p, o) => PlacedBy(p, o)'
    BY <2>1 DEF PlacedBy
  <2>3. \A p \in UserRequest : At(p, "enroll", "over") => At(p, "enroll", "over")'
    BY <2>1 DEF At
  <2> QED
    BY <1>1, <2>2, <2>3 DEF AccountInv, PictureInv, At, UnderWay
<1>6. PicturesKept'
  BY DEF AccountInv, PicturesKept
<1> QED
  BY <1>2, <1>3, <1>4, <1>5, <1>6 DEF AccountInv

(* What a step of request r past its loading leaves true, whatever it writes.   *)
LEMMA TurnKeeps ==
  ASSUME AccountInv, NEW r \in UserRequest, UnderWay(r),
         NEW stage \in {"write", "mail", "remove", "index", "over"}, Turn(r, stage)
  PROVE  /\ request' \in [UserRequest -> RequestState]
         /\ request'[r] = [request[r] EXCEPT !.stage = stage]
         /\ \A q \in UserRequest \ {r} : request'[q] = request[q]
         /\ \A t \in UserRequest : At(t, "forgot", "over") => At(t, "forgot", "over")'
         /\ \A t \in UserRequest : At(t, "enroll", "over") => At(t, "enroll", "over")'
         /\ (request[r].operation = "avatar" /\ request[r].stage = "remove" => stage \in {"remove", "over"}) =>
              \A p : PlacedBy(p, "avatar") => PlacedBy(p, "avatar")'
<1>1. /\ request' \in [UserRequest -> RequestState]
      /\ request'[r] = [request[r] EXCEPT !.stage = stage]
      /\ \A q \in UserRequest \ {r} : request'[q] = request[q]
  BY TurnOthers DEF AccountInv
<1>2. request[r].stage # "over" /\ request'[r].stage = stage /\ request'[r].operation = request[r].operation
  BY <1>1 DEF UnderWay, AccountInv, AccountTypeOK, RequestState
<1>3. \A t \in UserRequest : request[t].stage = "over" => t # r /\ request'[t] = request[t]
  BY <1>1, <1>2
<1>4. ASSUME request[r].operation = "avatar" /\ request[r].stage = "remove" => stage \in {"remove", "over"},
             NEW p, PlacedBy(p, "avatar")
      PROVE  PlacedBy(p, "avatar")'
  BY <1>1, <1>2, <1>4 DEF PlacedBy
<1> QED
  BY <1>1, <1>3, <1>4 DEF At

(* A step that leaves the links, the token and the tokens spent. *)
LEMMA LinksStay ==
  ASSUME AccountInv, NEW r \in UserRequest, UnderWay(r),
         NEW stage \in {"write", "mail", "remove", "index", "over"}, Turn(r, stage),
         stage = "write" => request[r].operation # "reset",
         account'.token = account.token, mailed' = mailed, spent' = spent
  PROVE  ResetLinkInv'
<1>1. /\ request'[r] = [request[r] EXCEPT !.stage = stage]
      /\ \A q \in UserRequest \ {r} : request'[q] = request[q]
      /\ \A t \in UserRequest : At(t, "forgot", "over") => At(t, "forgot", "over")'
  BY TurnKeeps
<1>2. /\ request'[r].stage = stage /\ request'[r].operation = request[r].operation
      /\ request'[r].known = request[r].known
  BY <1>1 DEF AccountInv, AccountTypeOK, RequestState
<1>3. \A t \in mailed' : t = Original \/ (t \in UserRequest /\ At(t, "forgot", "over")')
  BY <1>1 DEF AccountInv, ResetLinkInv
<1>4. ASSUME NEW q \in UserRequest, At(q, "reset", "write")' PROVE request'[q].known \in mailed'
  BY <1>1, <1>2, <1>4 DEF AccountInv, ResetLinkInv, At
<1>5. spent' \subseteq mailed' /\ account'.token \notin spent'
  BY DEF AccountInv, ResetLinkInv
<1> QED
  BY <1>3, <1>4, <1>5 DEF ResetLinkInv

(* A step that leaves the pictures and their stores. *)
LEMMA PicturesStay ==
  ASSUME AccountInv, NEW r \in UserRequest, UnderWay(r),
         NEW stage \in {"write", "mail", "remove", "index", "over"}, Turn(r, stage),
         stage # "over" => request[r].operation \notin {"avatar", "clear", "enroll"},
         account'.avatar = account.avatar, face' = face,
         objects' = objects, collection' = collection, torn' = torn, named' = named
  PROVE  PictureInv' /\ PicturesKept'
<1>1. /\ request'[r] = [request[r] EXCEPT !.stage = stage]
      /\ \A q \in UserRequest \ {r} : request'[q] = request[q]
      /\ \A t \in UserRequest : At(t, "enroll", "over") => At(t, "enroll", "over")'
      /\ \A p : PlacedBy(p, "avatar") => PlacedBy(p, "avatar")'
  BY TurnKeeps
<1>2. /\ request'[r].stage = stage /\ request'[r].operation = request[r].operation
      /\ request'[r].known = request[r].known
  BY <1>1 DEF AccountInv, AccountTypeOK, RequestState
<1>0. PictureInv /\ PicturesKept
  BY DEF AccountInv
<1>3. PlacedBy(account.avatar, "avatar")' /\ (face' \in UserRequest => At(face, "enroll", "over")')
  <2>1. PlacedBy(account.avatar, "avatar") => PlacedBy(account.avatar, "avatar")'
    BY <1>1 DEF PlacedBy
  <2>2. face \in UserRequest => At(face, "enroll", "over")'
    BY <1>0, <1>1 DEF PictureInv, At
  <2> QED
    BY <2>1, <2>2, <1>0 DEF PictureInv
<1>4. ASSUME NEW q \in UserRequest, UnderWay(q)'
      PROVE  /\ request'[q].operation \in {"avatar", "clear", "name"} => PlacedBy(request[q].known, "avatar")'
             /\ request'[q].operation = "enroll" /\ request'[q].known \in UserRequest =>
                  At(request[q].known, "enroll", "over")'
  <2>1. /\ UnderWay(q) /\ request'[q].operation = request[q].operation
        /\ request'[q].known = request[q].known
    BY <1>1, <1>2, <1>4 DEF UnderWay
  <2>2. PlacedBy(request[q].known, "avatar") => PlacedBy(request[q].known, "avatar")'
    BY <1>1, <2>1 DEF PlacedBy
  <2>3. request[q].operation = "enroll" /\ request[q].known \in UserRequest =>
          At(request[q].known, "enroll", "over")'
    BY <1>0, <1>1, <2>1 DEF PictureInv, At
  <2> QED
    BY <1>0, <2>1, <2>2, <2>3 DEF PictureInv
<1>5. ASSUME NEW q \in UserRequest
      PROVE  /\ At(q, "avatar", "remove")' =>
                  request'[q].known # Nobody /\ (request'[q].known = account'.avatar => named')
             /\ At(q, "avatar", "write")' => q \in objects'
             /\ At(q, "enroll", "write")' => q \in collection'
  <2>1. CASE q = r
    <3>1. request'[r].stage = "over" \/ request'[r].operation \notin {"avatar", "clear", "enroll"}
      BY <1>2
    <3> QED
      BY <2>1, <3>1 DEF At
  <2>2. CASE q # r
    <3>1. request'[q] = request[q]
      BY <1>1, <2>2
    <3>2. /\ At(q, "avatar", "remove") => request[q].known # Nobody /\ (request[q].known = account.avatar => named)
          /\ At(q, "avatar", "write") => q \in objects
          /\ At(q, "enroll", "write") => q \in collection
      BY <1>0 DEF PictureInv
    <3> QED
      BY <3>1, <3>2 DEF At
  <2> QED
    BY <2>1, <2>2
<1>6. PictureInv'
  BY <1>3, <1>4, <1>5 DEF PictureInv
<1>7. PicturesKept'
  BY <1>0 DEF PicturesKept
<1> QED
  BY <1>6, <1>7

(* The approval and the status. *)
LEMMA WriteStatusStep ==
  ASSUME AccountInv, NEW r \in UserRequest, NEW operation \in {"approve", "reject", "deactivate"},
         NEW status \in {"ACTIVE", "INACTIVE"}, WriteStatus(r, operation, status)
  PROVE  AccountInv'
<1> USE DEF WriteStatus
<1>1. UnderWay(r) /\ request[r].operation = operation /\ request[r].stage = "write"
  BY DEF At, UnderWay
<1>2. /\ request' \in [UserRequest -> RequestState]
      /\ request'[r] = [request[r] EXCEPT !.stage = "over"]
      /\ \A q \in UserRequest \ {r} : request'[q] = request[q]
      /\ \A t \in UserRequest : At(t, "forgot", "over") => At(t, "forgot", "over")'
      /\ \A t \in UserRequest : At(t, "enroll", "over") => At(t, "enroll", "over")'
      /\ \A p : PlacedBy(p, "avatar") => PlacedBy(p, "avatar")'
  BY <1>1, TurnKeeps
<1>3. /\ account' \in Account /\ account'.status = status
      /\ account'.token = account.token /\ account'.avatar = account.avatar
  BY DEF AccountInv, AccountTypeOK, Account, Status
<1>4. request'[r].stage = "over" /\ request'[r].known = request[r].known
  BY <1>2 DEF AccountInv, AccountTypeOK, RequestState
<1>5. AccountTypeOK'
  BY <1>2, <1>3 DEF AccountInv, AccountTypeOK
<1>6. ApprovalInv'
  <2>1. account.status # "NONE"
    BY <1>1 DEF AccountInv, ApprovalInv
  <2>2. ASSUME NEW q \in UserRequest, At(q, "approve", "write")' PROVE q \in early'
    <3>1. q # r /\ At(q, "approve", "write")
      BY <1>2, <1>4, <2>2 DEF At
    <3>2. UnderWay(q)
      BY <3>1 DEF At, UnderWay
    <3> QED
      BY <2>1, <3>1, <3>2 DEF AccountInv, ApprovalInv, AccountTypeOK, Account, Status
  <2> QED
    BY <1>3, <2>2 DEF ApprovalInv
<1>7. ResetLinkInv'
  BY <1>1, <1>3, LinksStay
<1>8. PictureInv' /\ PicturesKept'
  BY <1>1, <1>3, PicturesStay
<1> QED
  BY <1>5, <1>6, <1>7, <1>8 DEF AccountInv

(* The steps that write none of status, avatar, face or the stores. *)
LEMMA PasswordStep ==
  ASSUME AccountInv, NEW r \in UserRequest, WriteToken(r) \/ MailLink(r) \/ WritePassword(r)
  PROVE  AccountInv'
<1> USE AccountConstantsAssumption DEF WriteToken, MailLink, WritePassword
<1>1. UnderWay(r) /\ request[r].operation \in {"forgot", "reset"}
  BY DEF At, UnderWay
<1> PICK stage \in {"mail", "over"} : Turn(r, stage)
  OBVIOUS
<1>2. /\ request' \in [UserRequest -> RequestState]
      /\ request'[r] = [request[r] EXCEPT !.stage = stage]
      /\ \A q \in UserRequest \ {r} : request'[q] = request[q]
      /\ \A t \in UserRequest : At(t, "forgot", "over") => At(t, "forgot", "over")'
      /\ \A t \in UserRequest : At(t, "enroll", "over") => At(t, "enroll", "over")'
      /\ \A p : PlacedBy(p, "avatar") => PlacedBy(p, "avatar")'
  BY <1>1, TurnKeeps
<1>3. /\ request'[r].stage = stage /\ request'[r].operation = request[r].operation
      /\ request'[r].known = request[r].known /\ request[r].known \in Picture
  BY <1>2 DEF AccountInv, AccountTypeOK, RequestState
<1>4. /\ account' \in Account /\ account'.status = account.status /\ account'.avatar = account.avatar
      /\ account'.token = IF At(r, "forgot", "write") THEN r
                            ELSE IF At(r, "reset", "write") THEN Nobody ELSE account.token
  BY DEF AccountInv, AccountTypeOK, Account, Picture, TokenAfterReset, At
<1>5. AccountTypeOK'
  BY <1>2, <1>3, <1>4 DEF AccountInv, AccountTypeOK, Picture
<1>6. ApprovalInv'
  BY <1>1, <1>2, <1>3, <1>4 DEF AccountInv, ApprovalInv, At, UnderWay
<1>7. ResetLinkInv'
  <2>1. CASE WriteToken(r)
    <3>1. account'.token = r /\ spent' = spent /\ mailed' = mailed /\ r \notin mailed
      BY <1>4, <2>1 DEF AccountInv, ResetLinkInv, At
    <3>2. \A t \in mailed : t = Original \/ (t \in UserRequest /\ At(t, "forgot", "over")')
      BY <1>2 DEF AccountInv, ResetLinkInv
    <3>3. \A q \in UserRequest : At(q, "reset", "write")' => request'[q].known \in mailed
      BY <1>2, <1>3, <2>1 DEF AccountInv, ResetLinkInv, At
    <3> QED
      BY <3>1, <3>2, <3>3 DEF AccountInv, ResetLinkInv
  <2>2. CASE MailLink(r)
    <3>1. At(r, "forgot", "over")' /\ mailed' = mailed \cup {r}
      BY <1>2, <1>3, <2>2, TurnOthers DEF At, AccountInv, AccountTypeOK, RequestState
    <3>2. account'.token = account.token /\ spent' = spent
      BY <2>2
    <3> QED
      BY <1>2, <1>3, <3>1, <3>2 DEF AccountInv, ResetLinkInv, At
  <2>3. CASE WritePassword(r)
    <3>1. account'.token = Nobody /\ spent' = spent \cup {request[r].known} /\ mailed' = mailed
      BY <1>4, <2>3 DEF At
    <3>2. request[r].known \in mailed /\ Nobody \notin mailed
      BY <2>3 DEF AccountInv, ResetLinkInv
    <3> QED
      BY <1>2, <1>3, <3>1, <3>2 DEF AccountInv, ResetLinkInv, At
  <2> QED
    BY <2>1, <2>2, <2>3
<1>8. PictureInv' /\ PicturesKept'
  BY <1>1, <1>4, PicturesStay
<1> QED
  BY <1>5, <1>6, <1>7, <1>8 DEF AccountInv

(* What steps about pictures leave of the approval. *)
LEMMA ApprovalStays ==
  ASSUME AccountInv, NEW r \in UserRequest, UnderWay(r),
         NEW stage \in {"write", "mail", "remove", "index", "over"}, Turn(r, stage),
         stage = "write" => request[r].operation # "approve",
         account'.status = account.status, early' = early
  PROVE  ApprovalInv'
<1>1. /\ request'[r] = [request[r] EXCEPT !.stage = stage]
      /\ \A q \in UserRequest \ {r} : request'[q] = request[q]
  BY TurnKeeps
<1>2. /\ request'[r].stage = stage /\ request'[r].operation = request[r].operation
  BY <1>1 DEF AccountInv, AccountTypeOK, RequestState
<1>3. ApprovalInv
  BY DEF AccountInv
<1>4. account.status # "NONE"
  BY <1>3 DEF ApprovalInv, UnderWay
<1>5. ASSUME NEW q \in UserRequest, At(q, "approve", "write")' PROVE At(q, "approve", "write")
  BY <1>1, <1>2, <1>5 DEF At
<1> QED
  BY <1>3, <1>4, <1>5 DEF ApprovalInv

(* Avatars and faces *)

(* A step of a request about a picture: the other requests and what they know. *)
LEMMA KnownStays ==
  ASSUME AccountInv, NEW r \in UserRequest, UnderWay(r),
         NEW stage \in {"write", "mail", "remove", "index", "over"}, Turn(r, stage),
         At(r, "avatar", "remove") => stage = "over"
  PROVE  /\ AccountTypeOK /\ ApprovalInv /\ ResetLinkInv /\ PictureInv /\ PicturesKept
         /\ request' \in [UserRequest -> RequestState]
         /\ request'[r].stage = stage
         /\ request'[r].operation = request[r].operation
         /\ request'[r].known = request[r].known
         /\ request[r].known \in Picture
         /\ \A q \in UserRequest \ {r} : request'[q] = request[q]
         /\ \A p : PlacedBy(p, "avatar") => PlacedBy(p, "avatar")'
         /\ \A t \in UserRequest : At(t, "enroll", "over") => At(t, "enroll", "over")'
         /\ \A q \in UserRequest : UnderWay(q)' =>
              /\ request'[q].operation \in {"avatar", "clear", "name"} => PlacedBy(request[q].known, "avatar")'
              /\ request'[q].operation = "enroll" /\ request'[q].known \in UserRequest =>
                   At(request[q].known, "enroll", "over")'
<1>1. /\ request' \in [UserRequest -> RequestState]
      /\ request'[r] = [request[r] EXCEPT !.stage = stage]
      /\ \A q \in UserRequest \ {r} : request'[q] = request[q]
      /\ \A t \in UserRequest : At(t, "enroll", "over") => At(t, "enroll", "over")'
      /\ \A p : PlacedBy(p, "avatar") => PlacedBy(p, "avatar")'
  BY TurnKeeps DEF At
<1>2. /\ request'[r].stage = stage /\ request'[r].operation = request[r].operation
      /\ request'[r].known = request[r].known /\ request[r].known \in Picture
  BY <1>1 DEF AccountInv, AccountTypeOK, RequestState
<1>3. AccountTypeOK /\ ApprovalInv /\ ResetLinkInv /\ PictureInv /\ PicturesKept
  BY DEF AccountInv
<1>4. ASSUME NEW q \in UserRequest, UnderWay(q)'
      PROVE  /\ request'[q].operation \in {"avatar", "clear", "name"} => PlacedBy(request[q].known, "avatar")'
             /\ request'[q].operation = "enroll" /\ request'[q].known \in UserRequest =>
                  At(request[q].known, "enroll", "over")'
  <2>1. /\ UnderWay(q) /\ request'[q].operation = request[q].operation
        /\ request'[q].known = request[q].known
    BY <1>1, <1>2, <1>4 DEF UnderWay
  <2>2. /\ request[q].operation \in {"avatar", "clear", "name"} => PlacedBy(request[q].known, "avatar")
        /\ request[q].operation = "enroll" /\ request[q].known \in UserRequest =>
             At(request[q].known, "enroll", "over")
    BY <1>3, <2>1 DEF PictureInv
  <2>3. PlacedBy(request[q].known, "avatar") => PlacedBy(request[q].known, "avatar")'
    BY <1>1, <2>1 DEF PlacedBy
  <2>4. request[q].operation = "enroll" /\ request[q].known \in UserRequest =>
          At(request[q].known, "enroll", "over")'
    BY <1>1, <2>1, <2>2 DEF At
  <2> QED
    BY <2>1, <2>2, <2>3, <2>4
<1> HIDE DEF AccountInv
<1> QED
  BY <1>1, <1>2, <1>3, <1>4

LEMMA AvatarStep ==
  ASSUME AccountInv, NEW r \in UserRequest,
         \/ StoreAvatar(r) \/ WriteAvatar(r) \/ RemovePrevious(r)
         \/ RemoveAvatar(r) \/ WriteCleared(r) \/ WriteNamed(r)
  PROVE  AccountInv'
<1> DEFINE known == request[r].known
<1>1. UnderWay(r) /\ request[r].operation \in {"avatar", "clear", "name"}
  BY DEF At, UnderWay, StoreAvatar, WriteAvatar, RemovePrevious, RemoveAvatar, WriteCleared, WriteNamed
<1>2. PICK stage \in {"write", "remove", "over"} :
        /\ Turn(r, stage)
        /\ \/ StoreAvatar(r) /\ stage = "write"
           \/ WriteAvatar(r) /\ stage = IF known = Nobody THEN "over" ELSE "remove"
           \/ RemovePrevious(r) /\ stage = "over"
           \/ RemoveAvatar(r) /\ stage = "write"
           \/ WriteCleared(r) /\ stage = "over"
           \/ WriteNamed(r) /\ stage = "over"
  BY DEF StoreAvatar, WriteAvatar, RemovePrevious, RemoveAvatar, WriteCleared, WriteNamed
<1>3. At(r, "avatar", "remove") => stage = "over"
  BY <1>2 DEF At, StoreAvatar, WriteAvatar, RemoveAvatar
<1>4. /\ AccountTypeOK /\ ApprovalInv /\ ResetLinkInv /\ PictureInv /\ PicturesKept
      /\ request' \in [UserRequest -> RequestState]
      /\ request'[r].stage = stage
      /\ request'[r].operation = request[r].operation
      /\ request'[r].known = known
      /\ known \in Picture
      /\ \A q \in UserRequest \ {r} : request'[q] = request[q]
      /\ \A p : PlacedBy(p, "avatar") => PlacedBy(p, "avatar")'
      /\ \A t \in UserRequest : At(t, "enroll", "over") => At(t, "enroll", "over")'
      /\ \A q \in UserRequest : UnderWay(q)' =>
           /\ request'[q].operation \in {"avatar", "clear", "name"} => PlacedBy(request[q].known, "avatar")'
           /\ request'[q].operation = "enroll" /\ request'[q].known \in UserRequest =>
                At(request[q].known, "enroll", "over")'
  BY <1>1, <1>2, <1>3, KnownStays
(* What the step writes. *)
<1>5. /\ account'.avatar = IF WriteAvatar(r) THEN r ELSE IF WriteCleared(r) THEN Nobody
                            ELSE IF WriteNamed(r) THEN known ELSE account.avatar
      /\ account'.status = account.status /\ account'.token = account.token
      /\ account' \in Account
  BY AccountConstantsAssumption, <1>4
     DEF At, StoreAvatar, WriteAvatar, RemovePrevious, RemoveAvatar, WriteCleared, WriteNamed, AccountTypeOK,
         Account, Picture
<1>6. /\ face' = face /\ collection' = collection /\ mailed' = mailed /\ spent' = spent /\ early' = early
      /\ torn \subseteq torn' /\ torn' \subseteq torn \cup {<<"avatar", known>>}
      /\ objects' \subseteq objects \cup {r}
  BY DEF StoreAvatar, WriteAvatar, RemovePrevious, RemoveAvatar, WriteCleared, WriteNamed, Tear, Superseded
<1>18. /\ WriteAvatar(r) \/ WriteCleared(r) \/ WriteNamed(r) \/ named' = named
       /\ WriteNamed(r) /\ known # Nobody => named'
       /\ named' \in BOOLEAN
  <2>1. WriteAvatar(r) \/ WriteCleared(r) => named' = FALSE
    BY DEF WriteAvatar, WriteCleared
  <2>2. WriteNamed(r) => named' = (known # Nobody)
    BY DEF WriteNamed
  <2>3. StoreAvatar(r) \/ RemovePrevious(r) \/ RemoveAvatar(r) => named' = named
    BY DEF StoreAvatar, RemovePrevious, RemoveAvatar
  <2>4. named \in BOOLEAN
    BY <1>4 DEF AccountTypeOK
  <2> QED
    BY <2>1, <2>2, <2>3, <2>4, Zenon
<1>7. AccountTypeOK'
  BY AccountConstantsAssumption, <1>4, <1>5, <1>6, <1>18 DEF AccountTypeOK, Picture
<1>8. ApprovalInv'
  <2>1. stage = "write" => request[r].operation # "approve"
    BY <1>1
  <2> QED
    BY <1>1, <1>2, <1>5, <1>6, <2>1, ApprovalStays
<1>9. ResetLinkInv'
  <2>1. stage = "write" => request[r].operation # "reset"
    BY <1>1
  <2> QED
    BY <1>1, <1>2, <1>5, <1>6, <2>1, LinksStay
<1>10. face' \in UserRequest => At(face, "enroll", "over")'
  <2>1. face \in UserRequest => At(face, "enroll", "over")
    BY <1>4 DEF PictureInv
  <2> QED
    BY <1>4, <1>6, <2>1 DEF At
(* Of the other requests, none deletes what the step makes the avatar, and none *)
(* loses what it is about to write.                                             *)
<1>11. PlacedBy(account.avatar, "avatar")'
  <2>1. CASE WriteAvatar(r)
    BY <1>2, <1>4, <1>5, <2>1
       DEF PlacedBy, WriteAvatar, At, StoreAvatar, RemovePrevious, RemoveAvatar, WriteCleared, WriteNamed
  <2>2. CASE ~WriteAvatar(r)
    <3>1. PlacedBy(account.avatar, "avatar") /\ PlacedBy(Nobody, "avatar") /\ PlacedBy(known, "avatar")
      BY <1>1, <1>4, AccountConstantsAssumption DEF PictureInv, PlacedBy
    <3>2. account'.avatar \in {account.avatar, Nobody, known}
      BY <1>5, <2>2
    <3> QED
      BY <1>4, <3>1, <3>2
  <2> QED
    BY <2>1, <2>2
<1>12. ASSUME NEW q \in UserRequest, At(q, "avatar", "remove")'
       PROVE  request'[q].known # Nobody /\ (request'[q].known = account'.avatar => named')
  <2>1. CASE q = r
    <3>1. WriteAvatar(r) /\ known # Nobody /\ account'.avatar = r
      BY <1>1, <1>2, <1>4, <1>5, <1>12, <2>1 DEF At, StoreAvatar, RemoveAvatar
    <3>2. PlacedBy(known, "avatar") /\ request[r].stage = "write"
      BY <1>1, <1>4, <3>1 DEF PictureInv, WriteAvatar, At
    <3> QED
      BY <1>4, <2>1, <3>1, <3>2 DEF PlacedBy
  <2>2. CASE q # r
    <3>1. At(q, "avatar", "remove") /\ UnderWay(q) /\ request'[q] = request[q]
      BY <1>4, <1>12, <2>2 DEF At, UnderWay
    <3>2. /\ request[q].known # Nobody /\ (request[q].known = account.avatar => named)
          /\ PlacedBy(request[q].known, "avatar")
      BY <1>4, <3>1 DEF PictureInv, At
    <3>3. WriteAvatar(r) => request[q].known # r
      BY <3>2 DEF WriteAvatar, PlacedBy, At
    <3>4. CASE WriteAvatar(r) \/ WriteCleared(r)
      BY <1>5, <3>1, <3>2, <3>3, <3>4
    <3>5. CASE WriteNamed(r) /\ ~WriteAvatar(r) /\ ~WriteCleared(r)
      <4>1. account'.avatar = known /\ (known # Nobody => named')
        BY <1>5, <1>18, <3>5
      <4> QED
        BY <3>1, <3>2, <4>1, Zenon
    <3>6. CASE ~(WriteAvatar(r) \/ WriteCleared(r) \/ WriteNamed(r))
      <4>1. account'.avatar = account.avatar /\ named' = named
        BY <1>5, <1>18, <3>6
      <4> QED
        BY <3>1, <3>2, <4>1, Zenon
    <3> QED
      BY <3>4, <3>5, <3>6
  <2> QED
    BY <2>1, <2>2
<1>13. ASSUME NEW q \in UserRequest, At(q, "avatar", "write")'
       PROVE  q \in objects'
  <2>1. CASE q = r
    BY <1>1, <1>2, <1>4, <1>13, <2>1 DEF At, StoreAvatar, RemoveAvatar, WriteAvatar
  <2>2. CASE q # r
    <3>1. At(q, "avatar", "write")
      BY <1>4, <1>13, <2>2 DEF At
    <3>2. q \in objects
      BY <1>4, <3>1 DEF PictureInv
    <3>3. q # known
      BY <1>1, <1>4, <3>1 DEF PictureInv, PlacedBy, At
    <3> QED
      BY <3>2, <3>3
         DEF StoreAvatar, WriteAvatar, RemovePrevious, RemoveAvatar, WriteCleared, WriteNamed, Superseded
  <2> QED
    BY <2>1, <2>2
<1>14. ASSUME NEW q \in UserRequest, At(q, "enroll", "write")'
       PROVE  q \in collection'
  <2>1. q # r
    BY <1>1, <1>4, <1>14 DEF At
  <2>2. At(q, "enroll", "write")
    BY <1>4, <1>14, <2>1 DEF At
  <2> QED
    BY <1>4, <1>6, <2>2 DEF PictureInv
<1>15. PictureInv'
  BY <1>4, <1>10, <1>11, <1>12, <1>13, <1>14 DEF PictureInv
<1>16. account'.avatar \in objects' \cup {Nobody} \/ <<"avatar", account'.avatar>> \in torn' \/ named'
  <2>1. account.avatar \in objects \cup {Nobody} \/ <<"avatar", account.avatar>> \in torn \/ named
    BY <1>4 DEF PicturesKept
  <2>2. CASE WriteAvatar(r)
    <3>1. r \in objects
      BY <1>4, <2>2 DEF PictureInv, WriteAvatar
    <3> QED
      BY <1>5, <2>2, <3>1 DEF WriteAvatar
  <2>3. CASE RemovePrevious(r)
    <3>1. (known = account.avatar => named) /\ account'.avatar = account.avatar /\ named' = named
      BY <1>4, <2>3 DEF PictureInv, RemovePrevious
    <3>2. CASE named
      BY <3>1, <3>2
    <3>3. CASE ~named
      BY <1>6, <2>1, <2>3, <3>1, <3>3 DEF RemovePrevious, Superseded
    <3> QED
      BY <3>2, <3>3
  <2>4. CASE RemoveAvatar(r)
    <3>1. account'.avatar = account.avatar
      BY <2>4 DEF RemoveAvatar
    <3> QED
      BY <2>1, <2>4, <3>1 DEF RemoveAvatar, Tear
  <2>5. CASE StoreAvatar(r)
    BY <2>1, <2>5 DEF StoreAvatar
  <2>6. CASE WriteCleared(r)
    BY <1>5, <2>6 DEF WriteCleared, WriteAvatar, At
  <2>7. CASE WriteNamed(r)
    <3>1. account'.avatar = known /\ named' = (known # Nobody)
      BY <1>4, <2>7 DEF WriteNamed, AccountTypeOK, Account
    <3> QED
      BY <3>1
  <2> QED
    BY <2>2, <2>3, <2>4, <2>5, <2>6, <2>7
<1>17. PicturesKept'
  BY <1>4, <1>6, <1>16 DEF PicturesKept
<1> QED
  BY <1>7, <1>8, <1>9, <1>15, <1>17 DEF AccountInv

LEMMA FaceStep ==
  ASSUME AccountInv, NEW r \in UserRequest,
         \/ \E removed \in BOOLEAN : RemoveFace(r, removed)
         \/ IndexFace(r) \/ WriteFace(r)
  PROVE  AccountInv'
<1> DEFINE known == request[r].known
           removing == \E removed \in BOOLEAN : RemoveFace(r, removed)
<1>1. UnderWay(r) /\ request[r].operation = "enroll"
  BY DEF At, UnderWay, RemoveFace, IndexFace, WriteFace
<1>2. PICK stage \in {"index", "write", "over"} :
        /\ Turn(r, stage)
        /\ \/ removing /\ stage = "index"
           \/ IndexFace(r) /\ stage = "write"
           \/ WriteFace(r) /\ stage = "over"
  BY DEF RemoveFace, IndexFace, WriteFace
<1>3. ~At(r, "avatar", "remove")
  BY <1>1 DEF At
<1>4. /\ AccountTypeOK /\ ApprovalInv /\ ResetLinkInv /\ PictureInv /\ PicturesKept
      /\ request' \in [UserRequest -> RequestState]
      /\ request'[r].stage = stage
      /\ request'[r].operation = request[r].operation
      /\ request'[r].known = known
      /\ known \in Picture
      /\ \A q \in UserRequest \ {r} : request'[q] = request[q]
      /\ \A p : PlacedBy(p, "avatar") => PlacedBy(p, "avatar")'
      /\ \A t \in UserRequest : At(t, "enroll", "over") => At(t, "enroll", "over")'
      /\ \A q \in UserRequest : UnderWay(q)' =>
           /\ request'[q].operation \in {"avatar", "clear", "name"} => PlacedBy(request[q].known, "avatar")'
           /\ request'[q].operation = "enroll" /\ request'[q].known \in UserRequest =>
                At(request[q].known, "enroll", "over")'
  BY <1>1, <1>2, <1>3, KnownStays
<1>5. /\ account' = account /\ objects' = objects /\ named' = named
      /\ mailed' = mailed /\ spent' = spent /\ early' = early
      /\ torn \subseteq torn' /\ torn' \subseteq torn \cup {<<"face", known>>}
      /\ collection' \subseteq collection \cup {r}
      /\ face' \in {face, r} /\ (face' # face => WriteFace(r))
  BY DEF RemoveFace, IndexFace, WriteFace, Tear
<1>7. AccountTypeOK'
  BY AccountConstantsAssumption, <1>4, <1>5 DEF AccountTypeOK, Picture
<1>8. ApprovalInv'
  <2>1. stage = "write" => request[r].operation # "approve"
    BY <1>1
  <2> QED
    BY <1>1, <1>2, <1>5, <2>1, ApprovalStays
<1>9. ResetLinkInv'
  <2>1. stage = "write" => request[r].operation # "reset"
    BY <1>1
  <2> QED
    BY <1>1, <1>2, <1>5, <2>1, LinksStay
<1>10. face' \in UserRequest => At(face, "enroll", "over")'
  <2>1. face \in UserRequest => At(face, "enroll", "over")
    BY <1>4 DEF PictureInv
  <2>2. face' # face => face' = r /\ At(r, "enroll", "over")'
    BY <1>1, <1>2, <1>4, <1>5 DEF At, WriteFace, RemoveFace, IndexFace
  <2>3. face' = face => (face' \in UserRequest => At(face, "enroll", "over")')
    BY <1>4, <2>1 DEF At
  <2> QED
    BY <2>2, <2>3 DEF At
<1>11. PlacedBy(account.avatar, "avatar")'
  <2>1. PlacedBy(account.avatar, "avatar")
    BY <1>4 DEF PictureInv
  <2> QED
    BY <1>4, <1>5, <2>1 DEF PlacedBy
<1>12. ASSUME NEW q \in UserRequest
       PROVE  /\ At(q, "avatar", "remove")' =>
                  request'[q].known # Nobody /\ (request'[q].known = account'.avatar => named')
              /\ At(q, "avatar", "write")' => q \in objects'
  <2>1. CASE q = r
    BY <1>1, <1>4, <2>1 DEF At
  <2>2. CASE q # r
    <3>1. request'[q] = request[q]
      BY <1>4, <2>2
    <3>2. /\ At(q, "avatar", "remove") => request[q].known # Nobody /\ (request[q].known = account.avatar => named)
          /\ At(q, "avatar", "write") => q \in objects
      BY <1>4 DEF PictureInv
    <3> QED
      BY <1>5, <3>1, <3>2 DEF At
  <2> QED
    BY <2>1, <2>2
<1>13. ASSUME NEW q \in UserRequest, At(q, "enroll", "write")'
       PROVE  q \in collection'
  <2>1. CASE q = r
    BY <1>1, <1>2, <1>4, <1>13, <2>1 DEF At, RemoveFace, IndexFace, WriteFace
  <2>2. CASE q # r
    <3>1. At(q, "enroll", "write")
      BY <1>4, <1>13, <2>2 DEF At
    <3>2. q \in collection
      BY <1>4, <3>1 DEF PictureInv
    <3>3. q # known
      BY <1>1, <1>4, <3>1 DEF PictureInv, At
    <3> QED
      BY <3>2, <3>3 DEF RemoveFace, IndexFace, WriteFace
  <2> QED
    BY <2>1, <2>2
<1>15. PictureInv'
  BY <1>4, <1>10, <1>11, <1>12, <1>13 DEF PictureInv
<1>16. face' \in collection' \cup {Nobody} \/ <<"face", face'>> \in torn'
  <2>1. face \in collection \cup {Nobody} \/ <<"face", face>> \in torn
    BY <1>4 DEF PicturesKept
  <2>2. CASE WriteFace(r)
    <3>1. r \in collection
      BY <1>4, <2>2 DEF PictureInv, WriteFace
    <3> QED
      BY <2>1, <2>2, <3>1 DEF WriteFace
  <2>3. CASE removing
    BY <2>1, <2>3 DEF RemoveFace, Tear
  <2>4. CASE IndexFace(r)
    BY <2>1, <2>4 DEF IndexFace
  <2> QED
    BY <2>2, <2>3, <2>4
<1>17. PicturesKept'
  <2>1. account.avatar \in objects \cup {Nobody} \/ <<"avatar", account.avatar>> \in torn \/ named
    BY <1>4 DEF PicturesKept
  <2> QED
    BY <1>5, <1>16, <2>1 DEF PicturesKept
<1> QED
  BY <1>7, <1>8, <1>9, <1>15, <1>17 DEF AccountInv

LEMMA SignupStep ==
  ASSUME AccountInv, NEW status \in {"PENDING_APPROVAL", "ACTIVE"}, Register(status)
  PROVE  AccountInv'
<1>1. /\ account' \in Account /\ account'.token = account.token /\ account'.avatar = account.avatar
      /\ account'.status = status
  BY DEF Register, AccountInv, AccountTypeOK, Account, Status
<1>2. AccountTypeOK /\ ApprovalInv /\ ResetLinkInv /\ PictureInv /\ PicturesKept
  BY DEF AccountInv
<1>3. /\ UNCHANGED <<face, objects, collection, request, mailed, spent, early, torn, named>>
      /\ account.status = "NONE"
  BY DEF Register
<1>4. AccountTypeOK'
  BY <1>1, <1>2, <1>3 DEF AccountTypeOK
<1>5. ApprovalInv'
  BY <1>1, <1>2, <1>3 DEF ApprovalInv, At
<1>6. ResetLinkInv'
  BY <1>1, <1>2, <1>3 DEF ResetLinkInv, At
<1>7. PictureInv' /\ PicturesKept'
  BY <1>1, <1>2, <1>3 DEF PictureInv, PicturesKept, At, UnderWay, PlacedBy
<1> QED
  BY <1>4, <1>5, <1>6, <1>7 DEF AccountInv

LEMMA RequestFailsStep ==
  ASSUME AccountInv, NEW r \in UserRequest, UserRequestFails(r)
  PROVE  AccountInv'
<1>1. UnderWay(r) /\ Turn(r, "over")
      /\ UNCHANGED <<account, face, objects, collection, mailed, spent, early, torn, named>>
  BY DEF UserRequestFails
<1>2. AccountTypeOK'
  BY <1>1, TurnKeeps DEF AccountInv, AccountTypeOK
<1>3. ApprovalInv' /\ ResetLinkInv'
  BY <1>1, ApprovalStays, LinksStay
<1>4. PictureInv' /\ PicturesKept'
  BY <1>1, PicturesStay
<1> QED
  BY <1>2, <1>3, <1>4 DEF AccountInv

(* The requests that load the row. *)
LEMMA LoadUserStep ==
  ASSUME AccountInv, NEW r \in UserRequest,
         \/ \E operation \in {"approve", "reject"} : FindPendingUser(r, operation)
         \/ FindUserToDeactivate(r) \/ ForgotPassword(r)
         \/ \E t \in Picture : ResetPassword(r, t)
         \/ UploadAvatar(r) \/ ClearAvatar(r) \/ EnrollFace(r)
         \/ \E key \in Picture : NameAvatar(r, key)
  PROVE  AccountInv'
<1>1. account.avatar \in Picture /\ face \in Picture /\ Nobody \in Picture
  BY DEF AccountInv, AccountTypeOK, Account, Picture
<1>2. ASSUME NEW operation \in {"approve", "reject"}, FindPendingUser(r, operation) PROVE AccountInv'
  BY <1>1, <1>2, BeginRequestStep DEF FindPendingUser, Operation
<1>3. ASSUME FindUserToDeactivate(r) \/ ForgotPassword(r) PROVE AccountInv'
  BY <1>1, <1>3, BeginRequestStep DEF FindUserToDeactivate, ForgotPassword, Operation
<1>4. ASSUME NEW t \in Picture, ResetPassword(r, t) PROVE AccountInv'
  BY <1>4, BeginRequestStep DEF ResetPassword, Operation
<1>5. ASSUME UploadAvatar(r) \/ ClearAvatar(r) PROVE AccountInv'
  BY <1>1, <1>5, BeginRequestStep DEF UploadAvatar, ClearAvatar, Operation
<1>6. ASSUME EnrollFace(r) PROVE AccountInv'
  BY <1>1, <1>6, BeginRequestStep DEF EnrollFace, Operation
<1>7. ASSUME NEW key \in Picture, NameAvatar(r, key) PROVE AccountInv'
  <2>1. PlacedBy(key, "avatar")
    BY <1>7 DEF NameAvatar, KnownKey, PlacedBy, At
  <2> QED
    BY <1>7, <2>1, BeginRequestStep DEF NameAvatar, Operation
<1> QED
  BY <1>2, <1>3, <1>4, <1>5, <1>6, <1>7

LEMMA AccountStep == AccountInv /\ [AccountNext]_accountVars => AccountInv'
<1> SUFFICES ASSUME AccountInv, [AccountNext]_accountVars PROVE AccountInv'
  OBVIOUS
<1>1. CASE UNCHANGED accountVars
  <2>1. AccountTypeOK /\ ApprovalInv /\ ResetLinkInv /\ PictureInv /\ PicturesKept
    BY DEF AccountInv
  <2>2. AccountTypeOK' /\ ApprovalInv' /\ ResetLinkInv'
    BY <1>1, <2>1 DEF accountVars, AccountTypeOK, ApprovalInv, ResetLinkInv, At
  <2>3. PictureInv' /\ PicturesKept'
    BY <1>1, <2>1 DEF accountVars, PictureInv, PicturesKept, At, UnderWay, PlacedBy
  <2> QED
    BY <2>2, <2>3 DEF AccountInv
<1>2. ASSUME NEW r \in UserRequest, ApproveUser(r) \/ RejectUser(r) \/ DeactivateUser(r) PROVE AccountInv'
  BY <1>2, WriteStatusStep DEF ApproveUser, RejectUser, DeactivateUser
<1> QED
  BY <1>1, <1>2, SignupStep, LoadUserStep, PasswordStep, AvatarStep, FaceStep, RequestFailsStep
     DEF AccountNext

(* A row's token has not reset the password; a token that does meets, among the *)
(* requests that hold it, only requests in flight.                              *)
LEMMA UsedOnceStep ==
  ASSUME AccountInv, LinkUsedOnce, [AccountNext]_accountVars
  PROVE  LinkUsedOnce'
<1> SUFFICES ASSUME NEW q \in UserRequest, At(q, "reset", "write")', (request[q].known \in spent)'
             PROVE  q \in early'
  BY DEF LinkUsedOnce
<1> USE DEF LinkUsedOnce
<1>1. /\ request \in [UserRequest -> RequestState] /\ account.token \notin spent
  BY DEF AccountInv, AccountTypeOK, ResetLinkInv
<1>2. ASSUME At(q, "reset", "write"), request'[q].known = request[q].known, spent' = spent, early \subseteq early'
      PROVE  q \in early'
  BY <1>2
<1>3. ASSUME NEW r \in UserRequest, NEW stage \in {"write", "mail", "remove", "index", "over"}, Turn(r, stage),
             stage = "write" => request[r].operation # "reset"
      PROVE  At(q, "reset", "write") /\ request'[q].known = request[q].known
  BY <1>1, <1>3 DEF At, Turn, RequestState
<1>4. ASSUME NEW r \in UserRequest,
             \/ ApproveUser(r) \/ RejectUser(r) \/ DeactivateUser(r) \/ WriteToken(r) \/ MailLink(r)
             \/ StoreAvatar(r) \/ WriteAvatar(r) \/ RemovePrevious(r) \/ RemoveAvatar(r) \/ WriteCleared(r)
             \/ WriteNamed(r) \/ IndexFace(r) \/ WriteFace(r) \/ UserRequestFails(r)
             \/ \E removed \in BOOLEAN : RemoveFace(r, removed)
      PROVE  q \in early'
  <2>1. spent' = spent /\ early \subseteq early'
    BY <1>4
       DEF ApproveUser, RejectUser, DeactivateUser, WriteStatus, WriteToken, MailLink,
           StoreAvatar, WriteAvatar,
        RemovePrevious, RemoveAvatar, WriteCleared, WriteNamed, IndexFace, WriteFace, UserRequestFails, RemoveFace
  <2>2. PICK stage \in {"write", "mail", "remove", "index", "over"} :
          Turn(r, stage) /\ (stage = "write" => request[r].operation # "reset")
    BY <1>4
       DEF ApproveUser, RejectUser, DeactivateUser, WriteStatus, WriteToken, MailLink,
           StoreAvatar, WriteAvatar,
        RemovePrevious, RemoveAvatar, WriteCleared, WriteNamed, IndexFace, WriteFace, UserRequestFails, RemoveFace, At
  <2> QED
    BY <1>2, <1>3, <2>1, <2>2
<1>5. ASSUME NEW r \in UserRequest, WritePassword(r) PROVE q \in early'
  <2>1. At(q, "reset", "write") /\ request'[q].known = request[q].known
    BY <1>3, <1>5 DEF WritePassword
  <2>2. CASE request[q].known \in spent
    BY <1>5, <2>1, <2>2 DEF WritePassword
  <2>3. CASE request[q].known \notin spent
    <3>1. request[q].known = request[r].known
      BY <1>5, <2>1, <2>3 DEF WritePassword
    <3> QED
      BY <1>5, <2>1, <3>1 DEF WritePassword, UnderWay, At
  <2> QED
    BY <2>2, <2>3
<1>6. ASSUME NEW r \in UserRequest, NEW operation, NEW stage, NEW known, Begin(r, operation, stage, known),
             operation = "reset" => known = account.token
      PROVE  q \in early'
  <2>1. spent' = spent /\ early' = early
    BY <1>6 DEF Begin
  <2>2. CASE q = r
    BY <1>1, <1>6, <2>1, <2>2 DEF Begin, At
  <2>3. CASE q # r
    BY <1>1, <1>6, <2>1, <2>3 DEF Begin, At
  <2> QED
    BY <2>2, <2>3
<1>7. ASSUME NEW r \in UserRequest,
             \/ \E operation \in {"approve", "reject"} : FindPendingUser(r, operation)
             \/ FindUserToDeactivate(r) \/ ForgotPassword(r)
             \/ \E t \in Picture : ResetPassword(r, t)
             \/ UploadAvatar(r) \/ ClearAvatar(r) \/ EnrollFace(r)
             \/ \E key \in Picture : NameAvatar(r, key)
      PROVE  q \in early'
  BY <1>6, <1>7
     DEF FindPendingUser, FindUserToDeactivate, ForgotPassword, ResetPassword, UploadAvatar,
         ClearAvatar, EnrollFace, NameAvatar
<1>8. ASSUME NEW status, Register(status) PROVE q \in early'
  BY <1>8 DEF Register, At
<1>9. CASE UNCHANGED accountVars
  BY <1>9 DEF accountVars, At
<1> QED
  BY <1>4, <1>5, <1>7, <1>8, <1>9 DEF AccountNext

(* A decision is undone by an approval in flight. *)
LEMMA DecisionStep ==
  ASSUME AccountInv, AccountNext, account.status = "INACTIVE", account'.status # "INACTIVE"
  PROVE  \E r \in early : At(r, "approve", "write") /\ request'[r].stage = "over"
<1>1. account \in Account /\ request \in [UserRequest -> RequestState]
  BY DEF AccountInv, AccountTypeOK
<1>2. PICK r \in UserRequest : ApproveUser(r)
  <2>1. ASSUME NEW status, Register(status) PROVE FALSE
    BY <2>1 DEF Register
  <2>2. ASSUME NEW r \in UserRequest,
               \/ WriteToken(r) \/ MailLink(r) \/ WritePassword(r)
               \/ StoreAvatar(r) \/ WriteAvatar(r) \/ RemovePrevious(r) \/ RemoveAvatar(r) \/ WriteCleared(r)
               \/ WriteNamed(r) \/ IndexFace(r) \/ WriteFace(r) \/ UserRequestFails(r)
               \/ \E removed \in BOOLEAN : RemoveFace(r, removed)
        PROVE  account'.status = account.status
    BY <1>1, <2>2
    DEF WriteToken, MailLink, WritePassword, StoreAvatar, WriteAvatar, RemovePrevious, RemoveAvatar,
        WriteCleared, WriteNamed, IndexFace, WriteFace, UserRequestFails, RemoveFace, Account
  <2>3. ASSUME NEW r \in UserRequest,
               \/ \E operation \in {"approve", "reject"} : FindPendingUser(r, operation)
               \/ FindUserToDeactivate(r) \/ ForgotPassword(r)
               \/ \E t \in Picture : ResetPassword(r, t)
               \/ UploadAvatar(r) \/ ClearAvatar(r) \/ EnrollFace(r)
               \/ \E key \in Picture : NameAvatar(r, key)
        PROVE  account' = account
    BY <2>3
       DEF FindPendingUser, FindUserToDeactivate, ForgotPassword, ResetPassword, UploadAvatar,
           ClearAvatar,
        EnrollFace, NameAvatar, Begin
  <2>4. ASSUME NEW r \in UserRequest, RejectUser(r) \/ DeactivateUser(r) PROVE account'.status = "INACTIVE"
    BY <1>1, <2>4 DEF RejectUser, DeactivateUser, WriteStatus, Account
  <2> QED
    BY <2>1, <2>2, <2>3, <2>4 DEF AccountNext
<1>3. At(r, "approve", "write") /\ request'[r].stage = "over"
  BY <1>1, <1>2 DEF ApproveUser, WriteStatus, Turn, RequestState
<1>4. r \in early
  BY <1>3 DEF AccountInv, ApprovalInv
<1> QED
  BY <1>3, <1>4

(* The row names pictures that exist, but for those a request has deleted       *)
(* before it writes the row.                                                    *)
THEOREM PicturesAlwaysKept == AccountSpec => []PicturesKept
<1>1. AccountInv => PicturesKept
  BY DEF AccountInv
<1> QED
  BY <1>1, AccountStart, AccountStep, PTL DEF AccountSpec

(* A mailed link resets the password once.                                      *)
THEOREM LinksUsedOnce == AccountSpec => []LinkUsedOnce
<1>1. AccountInit => LinkUsedOnce
  BY DEF AccountInit, LinkUsedOnce, At
<1> QED
  BY <1>1, AccountStart, AccountStep, UsedOnceStep, PTL DEF AccountSpec

(* A decision about an account is undone only by an approval that was in flight *)
(* when the account was first judged.                                           *)
THEOREM DecisionsStand == AccountSpec => DecisionStands
<1>1. AccountInv /\ [AccountNext]_accountVars =>
        [account.status = "INACTIVE" /\ account'.status # "INACTIVE" =>
           \E r \in early : At(r, "approve", "write") /\ request'[r].stage = "over"]_accountVars
  BY DecisionStep DEF accountVars
<1> QED
  BY <1>1, AccountStart, AccountStep, PTL DEF AccountSpec, DecisionStands

-----------------------------------------------------------------------------
(* Forms *)

(* The questions a submission has read are there, or were deleted since; those  *)
(* it holds keep it right until it commits.                                     *)
FitInv ==
  \A r \in FormRequest :
    /\ Doing(r, "submit", "lock") \/ Doing(r, "submit", "insert") =>
         \A q \in visit[r].read : asked[q] # "absent"
    /\ Doing(r, "submit", "insert") =>
         /\ visit[r].questionLocks = visit[r].read \cap Live
         /\ visit[r].chosen \subseteq visit[r].questionLocks
         /\ visit[r].read \cap Required \subseteq visit[r].chosen

Publishing(r) == Doing(r, "publish", "others") \/ Doing(r, "publish", "commit")

(* A publication holds its form, which stays active if it was, and no two hold  *)
(* one.                                                                         *)
PublishInv ==
  \A r \in FormRequest :
    /\ Doing(r, "publish", "lock") \/ Publishing(r) => \E f \in Form : visit[r].forms = {f}
    /\ Publishing(r) => /\ visit[r].forms \subseteq visit[r].formLocks
                        /\ visit[r].forms \subseteq drafted
                        /\ visit[r].wasActive => visit[r].forms \subseteq active
    /\ \A o \in FormRequest \ {r} : visit[r].formLocks \cap visit[o].formLocks = {}

(* An edit changes a question to one that is or was asked. *)
EditInv == \A r \in FormRequest : Doing(r, "edit", "write") => visit[r].change # "absent"

FormsInv == FormsTypeOK /\ FitInv /\ PublishInv /\ EditInv

LEMMA NewVisitType == NewVisit \in VisitState
BY DEF NewVisit, VisitState, QuestionState

LEMMA OverVisitType ==
  ASSUME FormsTypeOK, NEW r \in FormRequest
  PROVE  /\ OverVisit(r) \in VisitState
         /\ OverVisit(r).stage = "over"
         /\ OverVisit(r).formLocks = {}
<1>1. OverVisit(r) = [NewVisit EXCEPT !.operation = visit[r].operation, !.stage = "over"]
  BY DEF OverVisit
<1>2. visit[r].operation \in {"none", "submit", "publish", "extend", "edit"}
  BY DEF FormsTypeOK, VisitState
<1>3. OverVisit(r).stage = "over" /\ OverVisit(r).formLocks = {}
  BY <1>1 DEF NewVisit
<1> QED
  BY <1>1, <1>2, <1>3 DEF VisitState, NewVisit, QuestionState

LEMMA ReachStep ==
  ASSUME FormsTypeOK, NEW r \in FormRequest, NEW new \in VisitState, Reach(r, new)
  PROVE  /\ visit' \in [FormRequest -> VisitState]
         /\ visit'[r] = new
         /\ \A o \in FormRequest \ {r} : visit'[o] = visit[o]
BY DEF FormsTypeOK, Reach

(* A step of one request that leaves the forms and the questions. *)
LEMMA OwnStep ==
  ASSUME FormsInv, NEW r \in FormRequest, NEW new \in VisitState, Reach(r, new),
         UNCHANGED <<drafted, active, asked>>,
         new.operation = "submit" /\ new.stage \in {"lock", "insert"} => \A q \in new.read : asked[q] # "absent",
         new.operation = "submit" /\ new.stage = "insert" =>
           /\ new.questionLocks = new.read \cap Live
           /\ new.chosen \subseteq new.questionLocks
           /\ new.read \cap Required \subseteq new.chosen,
         new.operation = "publish" /\ new.stage \in {"lock", "others", "commit"} => \E f \in Form : new.forms = {f},
         new.operation = "publish" /\ new.stage \in {"others", "commit"} =>
           /\ new.forms \subseteq new.formLocks
           /\ new.forms \subseteq drafted
           /\ new.wasActive => new.forms \subseteq active,
         \A o \in FormRequest \ {r} : new.formLocks \cap visit[o].formLocks = {},
         new.operation = "edit" /\ new.stage = "write" => new.change # "absent"
  PROVE  FormsInv'
<1>1. /\ visit' \in [FormRequest -> VisitState]
      /\ visit'[r] = new
      /\ \A o \in FormRequest \ {r} : visit'[o] = visit[o]
  BY ReachStep DEF FormsInv
<1>2. FormsTypeOK /\ FitInv /\ PublishInv /\ EditInv
  BY DEF FormsInv
<1>3. FormsTypeOK'
  BY <1>1, <1>2 DEF FormsTypeOK
<1>4. Live' = Live /\ Required' = Required
  BY DEF Live, Required
<1>5. FitInv'
  <2> SUFFICES ASSUME NEW o \in FormRequest
      PROVE  /\ Doing(o, "submit", "lock")' \/ Doing(o, "submit", "insert")' =>
                  \A q \in visit'[o].read : asked'[q] # "absent"
             /\ Doing(o, "submit", "insert")' =>
                  /\ visit'[o].questionLocks = visit'[o].read \cap Live'
                  /\ visit'[o].chosen \subseteq visit'[o].questionLocks
                  /\ visit'[o].read \cap Required' \subseteq visit'[o].chosen
    BY DEF FitInv
  <2>1. CASE o = r
    BY <1>1, <1>4, <2>1 DEF Doing
  <2>2. CASE o # r
    BY <1>1, <1>2, <1>4, <2>2 DEF FitInv, Doing
  <2> QED
    BY <2>1, <2>2
<1>6. PublishInv'
  <2> SUFFICES ASSUME NEW o \in FormRequest
      PROVE  /\ Doing(o, "publish", "lock")' \/ Publishing(o)' => \E f \in Form : visit'[o].forms = {f}
             /\ Publishing(o)' => /\ visit'[o].forms \subseteq visit'[o].formLocks
                                  /\ visit'[o].forms \subseteq drafted'
                                  /\ visit'[o].wasActive => visit'[o].forms \subseteq active'
             /\ \A p \in FormRequest \ {o} : visit'[o].formLocks \cap visit'[p].formLocks = {}
    BY DEF PublishInv
  <2>1. CASE o = r
    BY <1>1, <2>1 DEF Doing, Publishing
  <2>2. CASE o # r
    BY <1>1, <1>2, <2>2 DEF PublishInv, Doing, Publishing
  <2> QED
    BY <2>1, <2>2
<1>7. EditInv'
  BY <1>1, <1>2 DEF EditInv, Doing
<1> QED
  BY <1>3, <1>5, <1>6, <1>7 DEF FormsInv

LEMMA OverStep ==
  ASSUME FormsInv, NEW r \in FormRequest, Reach(r, OverVisit(r)), UNCHANGED <<drafted, active, asked>>
  PROVE  FormsInv'
<1>1. OverVisit(r) \in VisitState /\ OverVisit(r).stage = "over" /\ OverVisit(r).formLocks = {}
  BY OverVisitType DEF FormsInv
<1> QED
  BY <1>1, OwnStep

(* Submissions *)
LEMMA SubmitStep ==
  ASSUME FormsInv, NEW r \in FormRequest,
         \/ SubmitBegin(r) \/ SubmitForm(r) \/ AcquireTimesOut(r) \/ SubmitRead(r)
         \/ \E answers \in SUBSET Question : SubmitValidate(r, answers)
         \/ SubmitCommit(r)
  PROVE  FormsInv'
<1>1. FormsTypeOK /\ visit[r] \in VisitState /\ active \subseteq Form
  BY DEF FormsInv, FormsTypeOK
<1>0. \A o \in FormRequest \ {r} : visit[r].formLocks \cap visit[o].formLocks = {}
  BY DEF FormsInv, PublishInv
<1>2. CASE SubmitBegin(r)
  <2> DEFINE new == [NewVisit EXCEPT !.operation = "submit", !.stage = "form"]
  <2>1. new \in VisitState /\ new.stage = "form" /\ new.formLocks = {}
    BY DEF NewVisit, VisitState, QuestionState
  <2>2. Reach(r, new) /\ UNCHANGED <<drafted, active, asked>>
    BY <1>2 DEF SubmitBegin
  <2> HIDE DEF new
  <2> QED
    BY <2>1, <2>2, OwnStep
<1>3. CASE SubmitForm(r)
  <2> DEFINE new == [visit[r] EXCEPT !.stage = "questions", !.forms = active]
  <2>1. new \in VisitState /\ new.stage = "questions" /\ new.formLocks = visit[r].formLocks
    BY <1>1 DEF VisitState
  <2>2. /\ Reach(r, OverVisit(r)) \/ Reach(r, new)
        /\ UNCHANGED <<drafted, active, asked>>
    BY <1>3 DEF SubmitForm
  <2> HIDE DEF new
  <2> QED
    BY <1>0, <2>1, <2>2, OwnStep, OverStep
<1>4. CASE SubmitRead(r)
  <2> DEFINE new == [visit[r] EXCEPT !.stage = "lock", !.read = {q \in Live : FormOf[q] \in visit[r].forms}]
  <2>0. Live \subseteq Question /\ \A q \in Live : asked[q] # "absent"
    BY DEF Live
  <2>1. new \in VisitState /\ new.stage = "lock" /\ new.formLocks = visit[r].formLocks /\ new.operation = "submit"
    BY <1>1, <1>4, <2>0 DEF VisitState, SubmitRead, Doing
  <2>2. Reach(r, new) /\ UNCHANGED <<drafted, active, asked>>
    BY <1>4 DEF SubmitRead
  <2>3. \A q \in new.read : asked[q] # "absent"
    BY <1>1, <2>0 DEF VisitState
  <2> HIDE DEF new
  <2> QED
    BY <1>0, <2>1, <2>2, <2>3, OwnStep
<1>5. ASSUME NEW answers \in SUBSET Question, SubmitValidate(r, answers) PROVE FormsInv'
  <2> DEFINE new == [visit[r] EXCEPT !.stage = "insert", !.chosen = answers, !.questionLocks = LockedBy(r)]
  <2>1. /\ new \in VisitState /\ new.stage = "insert" /\ new.formLocks = visit[r].formLocks
        /\ new.operation = "submit" /\ new.read = visit[r].read /\ new.chosen = answers
        /\ new.questionLocks = visit[r].read \cap Live
    BY <1>1, <1>5 DEF VisitState, SubmitValidate, Doing, LockedBy
  <2>2. /\ \/ Reach(r, OverVisit(r))
           \/ /\ Reach(r, new)
              /\ answers \subseteq visit[r].read \cap Live
              /\ visit[r].read \cap Live \cap Required \subseteq answers
        /\ UNCHANGED <<drafted, active, asked>>
    BY <1>5 DEF SubmitValidate
  <2>3. \A q \in visit[r].read : asked[q] # "absent"
    BY <1>5 DEF SubmitValidate, FormsInv, FitInv
  <2>4. Required \subseteq Live
    BY DEF Required, Live
  <2> HIDE DEF new
  <2>5. CASE Reach(r, OverVisit(r))
    BY <2>2, <2>5, OverStep
  <2>6. CASE Reach(r, new) /\ answers \subseteq visit[r].read \cap Live /\ visit[r].read \cap Live \cap Required \subseteq answers
    <3>1. new.chosen \subseteq new.questionLocks /\ new.read \cap Required \subseteq new.chosen
      BY <2>1, <2>4, <2>6
    <3> QED
      BY <1>0, <2>1, <2>2, <2>3, <2>6, <3>1, OwnStep
  <2> QED
    BY <2>2, <2>5, <2>6
<1>6. CASE AcquireTimesOut(r) \/ SubmitCommit(r)
  BY <1>6, OverStep DEF AcquireTimesOut, SubmitCommit
<1> QED
  BY <1>2, <1>3, <1>4, <1>5, <1>6

(* Publications *)
LEMMA PublishStep ==
  ASSUME FormsInv, NEW r \in FormRequest,
         \/ \E f \in Form : PublishBegin(r, f)
         \/ PublishLock(r) \/ PublishOthers(r) \/ PublishDeadlock(r)
  PROVE  FormsInv'
<1>1. FormsTypeOK /\ PublishInv /\ visit[r] \in VisitState /\ drafted \subseteq Form
  BY DEF FormsInv, FormsTypeOK
<1>2. ASSUME NEW f \in Form, PublishBegin(r, f) PROVE FormsInv'
  <2> DEFINE new == [NewVisit EXCEPT !.operation = "publish", !.stage = "lock", !.forms = {f}]
  <2>1. new \in VisitState /\ new.stage = "lock" /\ new.formLocks = {} /\ new.forms = {f} /\ new.operation = "publish"
    BY DEF NewVisit, VisitState, QuestionState
  <2>2. Reach(r, new) /\ UNCHANGED <<drafted, active, asked>>
    BY <1>2 DEF PublishBegin
  <2> HIDE DEF new
  <2> QED
    BY <2>1, <2>2, OwnStep
<1>3. CASE PublishLock(r)
  <2> DEFINE new == [visit[r] EXCEPT !.stage = "others", !.wasActive = (visit[r].forms \subseteq active),
                                      !.formLocks = TemplateLock(r)]
  <2>1. /\ new \in VisitState /\ new.stage = "others" /\ new.formLocks = visit[r].forms
        /\ new.forms = visit[r].forms /\ new.operation = "publish"
        /\ new.wasActive => visit[r].forms \subseteq active
    BY <1>1, <1>3 DEF VisitState, TemplateLock, PublishLock, Doing
  <2>2. /\ Reach(r, OverVisit(r)) \/ (visit[r].forms \subseteq drafted /\ Reach(r, new))
        /\ UNCHANGED <<drafted, active, asked>>
    BY <1>3 DEF PublishLock
  <2>3. /\ \E f \in Form : visit[r].forms = {f}
        /\ \A o \in FormRequest \ {r} : visit[r].forms \cap visit[o].formLocks = {}
    BY <1>1, <1>3 DEF PublishLock, PublishInv, FormLocked
  <2> HIDE DEF new
  <2> QED
    BY <2>1, <2>2, <2>3, OwnStep, OverStep
<1>4. CASE PublishOthers(r)
  <2> DEFINE new == [visit[r] EXCEPT !.stage = "commit", !.formLocks = @ \cup (drafted \ visit[r].forms)]
  <2>1. /\ new \in VisitState /\ new.stage = "commit"
        /\ new.formLocks = visit[r].formLocks \cup (drafted \ visit[r].forms)
        /\ new.forms = visit[r].forms /\ new.operation = "publish"
        /\ new.wasActive = visit[r].wasActive
    BY <1>1, <1>4 DEF VisitState, PublishOthers, Doing
  <2>2. Reach(r, new) /\ UNCHANGED <<drafted, active, asked>>
    BY <1>4 DEF PublishOthers
  <2>3. /\ \E f \in Form : visit[r].forms = {f}
        /\ visit[r].forms \subseteq visit[r].formLocks
        /\ visit[r].forms \subseteq drafted
        /\ visit[r].wasActive => visit[r].forms \subseteq active
        /\ \A o \in FormRequest \ {r} : visit[r].formLocks \cap visit[o].formLocks = {}
    BY <1>1, <1>4 DEF PublishOthers, PublishInv, Publishing
  <2>4. \A o \in FormRequest \ {r} : (drafted \ visit[r].forms) \cap visit[o].formLocks = {}
    BY <1>4 DEF PublishOthers, FormLocked
  <2> HIDE DEF new
  <2>5. new.forms \subseteq new.formLocks /\ \A o \in FormRequest \ {r} : new.formLocks \cap visit[o].formLocks = {}
    BY <2>1, <2>3, <2>4
  <2> QED
    BY <2>1, <2>2, <2>3, <2>5, OwnStep
<1>5. CASE PublishDeadlock(r)
  BY <1>5, OverStep DEF PublishDeadlock
<1> QED
  BY <1>2, <1>3, <1>4, <1>5

(* A publication commits: the form of another that was active stays so, since   *)
(* it is held by that one.                                                      *)
LEMMA PublishCommitStep ==
  ASSUME FormsInv, NEW r \in FormRequest, PublishCommit(r)
  PROVE  FormsInv' /\ (active # {} => active' # {})
<1> DEFINE p == visit[r]
           others == active \ (p.formLocks \ p.forms)
<1>1. FormsTypeOK /\ FitInv /\ PublishInv /\ EditInv
  BY DEF FormsInv
<1>2. OverVisit(r) \in VisitState /\ OverVisit(r).stage = "over" /\ OverVisit(r).formLocks = {}
  BY <1>1, OverVisitType
<1>3. /\ visit' \in [FormRequest -> VisitState]
      /\ visit'[r] = OverVisit(r)
      /\ \A o \in FormRequest \ {r} : visit'[o] = visit[o]
  BY <1>1, <1>2, ReachStep DEF PublishCommit
<1>4. /\ active' = IF p.wasActive THEN others ELSE IF others \subseteq p.forms THEN p.forms ELSE active
      /\ drafted' = drafted /\ asked' = asked
  BY DEF PublishCommit
<1>5. PICK f \in Form : /\ p.forms = {f} /\ f \in p.formLocks /\ f \in drafted
                        /\ p.wasActive => f \in active
  BY <1>1 DEF PublishCommit, PublishInv, Publishing
<1>6. active \subseteq drafted /\ drafted \subseteq Form /\ \A g, h \in active : g = h
  BY <1>1 DEF FormsTypeOK
<1>7. active' \subseteq drafted /\ \A g, h \in active' : g = h
  BY <1>4, <1>5, <1>6
<1>8. FormsTypeOK'
  BY <1>1, <1>3, <1>4, <1>7 DEF FormsTypeOK
<1>9. FitInv'
  <2>1. Live' = Live /\ Required' = Required
    BY <1>4 DEF Live, Required
  <2>2. ASSUME NEW o \in FormRequest, Doing(o, "submit", "lock")' \/ Doing(o, "submit", "insert")'
        PROVE  o # r /\ visit'[o] = visit[o]
    BY <1>2, <1>3, <2>2 DEF Doing
  <2> QED
    BY <1>1, <1>4, <2>1, <2>2 DEF FitInv, Doing
<1>10. ASSUME NEW o \in FormRequest \ {r}, NEW g \in active, g \in visit[o].formLocks PROVE g \in active'
  <2>1. g \notin p.formLocks
    BY <1>1, <1>10 DEF PublishInv
  <2> QED
    BY <1>4, <1>5, <2>1
<1>11. PublishInv'
  <2> SUFFICES ASSUME NEW o \in FormRequest
      PROVE  /\ Doing(o, "publish", "lock")' \/ Publishing(o)' => \E g \in Form : visit'[o].forms = {g}
             /\ Publishing(o)' => /\ visit'[o].forms \subseteq visit'[o].formLocks
                                  /\ visit'[o].forms \subseteq drafted'
                                  /\ visit'[o].wasActive => visit'[o].forms \subseteq active'
             /\ \A q \in FormRequest \ {o} : visit'[o].formLocks \cap visit'[q].formLocks = {}
    BY DEF PublishInv
  <2>1. CASE o = r
    BY <1>2, <1>3, <2>1 DEF Doing, Publishing
  <2>2. CASE o # r
    <3>1. \A q \in FormRequest \ {o} : visit'[o].formLocks \cap visit'[q].formLocks = {}
      BY <1>1, <1>2, <1>3, <2>2 DEF PublishInv
    <3>2. Publishing(o) => (visit[o].wasActive => visit[o].forms \subseteq active')
      BY <1>1, <1>10, <2>2 DEF PublishInv
    <3> QED
      BY <1>1, <1>3, <1>4, <2>2, <3>1, <3>2 DEF PublishInv, Doing, Publishing
  <2> QED
    BY <2>1, <2>2
<1>12. active # {} => active' # {}
  BY <1>4, <1>5
<1>13. EditInv'
  BY <1>1, <1>2, <1>3 DEF EditInv, Doing
<1> QED
  BY <1>8, <1>9, <1>11, <1>12, <1>13 DEF FormsInv

(* Templates and questions *)
LEMMA CreateTemplateStep ==
  ASSUME FormsInv, NEW f \in Form, CreateTemplate(f)
  PROVE  FormsInv'
<1>1. FormsTypeOK /\ FitInv /\ PublishInv /\ EditInv
  BY DEF FormsInv
<1>2. FormsTypeOK'
  BY <1>1 DEF FormsTypeOK, CreateTemplate
<1>3. FitInv'
  BY <1>1 DEF FitInv, CreateTemplate, Doing, Live, Required
<1>4. PublishInv'
  BY <1>1 DEF PublishInv, CreateTemplate, Doing, Publishing
<1>5. EditInv'
  BY <1>1 DEF EditInv, CreateTemplate, Doing
<1> QED
  BY <1>2, <1>3, <1>4, <1>5 DEF FormsInv

LEMMA LookForFormStep ==
  ASSUME FormsInv, NEW r \in FormRequest,
         \/ LookForActiveForm(r)
         \/ \E f \in Form : FindTemplate(r, f)
         \/ \E q \in Question, change \in {"optional", "required", "deleted"} : FindQuestion(r, q, change)
         \/ FormRequestFails(r)
  PROVE  FormsInv'
<1>1. active \subseteq Form
  BY DEF FormsInv, FormsTypeOK
<1>2. CASE LookForActiveForm(r)
  <2> DEFINE new == [NewVisit EXCEPT !.operation = "extend", !.stage = IF active = {} THEN "default" ELSE "insert",
                                     !.forms = active]
  <2>1. new \in VisitState /\ new.formLocks = {} /\ new.operation = "extend"
    BY <1>1 DEF NewVisit, VisitState, QuestionState
  <2>2. Reach(r, new) /\ UNCHANGED <<drafted, active, asked>>
    BY <1>2 DEF LookForActiveForm
  <2> HIDE DEF new
  <2> QED
    BY <2>1, <2>2, OwnStep
<1>3. ASSUME NEW f \in Form, FindTemplate(r, f) PROVE FormsInv'
  <2> DEFINE new == [NewVisit EXCEPT !.operation = "extend", !.stage = "insert", !.forms = {f}]
  <2>1. new \in VisitState /\ new.formLocks = {} /\ new.operation = "extend"
    BY DEF NewVisit, VisitState, QuestionState
  <2>2. Reach(r, new) /\ UNCHANGED <<drafted, active, asked>>
    BY <1>3 DEF FindTemplate
  <2> HIDE DEF new
  <2> QED
    BY <2>1, <2>2, OwnStep
<1>4. ASSUME NEW q \in Question, NEW change \in {"optional", "required", "deleted"}, FindQuestion(r, q, change)
      PROVE  FormsInv'
  <2> DEFINE new == [NewVisit EXCEPT !.operation = "edit", !.stage = IF asked[q] = change THEN "over" ELSE "write",
                                     !.chosen = {q}, !.change = change]
  <2>1. new \in VisitState /\ new.formLocks = {} /\ new.operation = "edit" /\ new.change # "absent"
    BY DEF NewVisit, VisitState, QuestionState
  <2>2. Reach(r, new) /\ UNCHANGED <<drafted, active, asked>>
    BY <1>4 DEF FindQuestion
  <2> HIDE DEF new
  <2> QED
    BY <2>1, <2>2, OwnStep
<1>5. CASE FormRequestFails(r)
  BY <1>5, OverStep DEF FormRequestFails
<1> QED
  BY <1>2, <1>3, <1>4, <1>5

LEMMA CreateDefaultFormStep ==
  ASSUME FormsInv, NEW r \in FormRequest, NEW f \in Form, CreateDefaultForm(r, f)
  PROVE  FormsInv' /\ (active # {} => active' # {})
<1> DEFINE new == [visit[r] EXCEPT !.stage = "insert", !.forms = {f}]
<1>1. FormsTypeOK /\ FitInv /\ PublishInv /\ EditInv /\ visit[r] \in VisitState
  BY DEF FormsInv, FormsTypeOK
<1>2. new \in VisitState /\ new.operation = "extend" /\ new.formLocks = visit[r].formLocks
  BY <1>1 DEF VisitState, CreateDefaultForm, Doing
<1>3. /\ visit' \in [FormRequest -> VisitState]
      /\ visit'[r] = new
      /\ \A o \in FormRequest \ {r} : visit'[o] = visit[o]
  BY <1>1, <1>2, ReachStep DEF CreateDefaultForm
<1>4. /\ asked' = asked /\ drafted \subseteq drafted' /\ drafted' \subseteq Form
      /\ active \subseteq active' /\ active' \subseteq drafted' /\ \A g, h \in active' : g = h
  BY <1>1 DEF CreateDefaultForm, FormsTypeOK
<1> HIDE DEF new
<1>5. FormsTypeOK'
  BY <1>1, <1>3, <1>4 DEF FormsTypeOK
<1>6. FitInv'
  <2>1. Live' = Live /\ Required' = Required
    BY <1>4 DEF Live, Required
  <2>2. ASSUME NEW o \in FormRequest, Doing(o, "submit", "lock")' \/ Doing(o, "submit", "insert")'
        PROVE  o # r /\ visit'[o] = visit[o]
    BY <1>2, <1>3, <2>2 DEF Doing
  <2> QED
    BY <1>1, <1>4, <2>1, <2>2 DEF FitInv, Doing
<1>7. PublishInv'
  <2> SUFFICES ASSUME NEW o \in FormRequest
      PROVE  /\ Doing(o, "publish", "lock")' \/ Publishing(o)' => \E g \in Form : visit'[o].forms = {g}
             /\ Publishing(o)' => /\ visit'[o].forms \subseteq visit'[o].formLocks
                                  /\ visit'[o].forms \subseteq drafted'
                                  /\ visit'[o].wasActive => visit'[o].forms \subseteq active'
             /\ \A q \in FormRequest \ {o} : visit'[o].formLocks \cap visit'[q].formLocks = {}
    BY DEF PublishInv
  <2>0. \A q \in FormRequest : visit'[q].formLocks = visit[q].formLocks
    BY <1>2, <1>3
  <2>1. CASE o = r
    BY <1>1, <1>2, <1>3, <2>0, <2>1 DEF PublishInv, Doing, Publishing
  <2>2. CASE o # r
    BY <1>1, <1>3, <1>4, <2>0, <2>2 DEF PublishInv, Doing, Publishing
  <2> QED
    BY <2>1, <2>2
<1>8. EditInv'
  BY <1>1, <1>2, <1>3 DEF EditInv, Doing
<1> QED
  BY <1>4, <1>5, <1>6, <1>7, <1>8 DEF FormsInv

(* A question is added or changed: not one that a submission holds, and of      *)
(* those it has read only one that was deleted could be another.                *)
LEMMA QuestionStep ==
  ASSUME FormsInv, NEW r \in FormRequest,
         \/ \E q \in Question, need \in {"optional", "required"} : InsertQuestion(r, q, need)
         \/ WriteQuestion(r)
  PROVE  FormsInv'
<1>1. FormsTypeOK /\ FitInv /\ PublishInv /\ EditInv /\ visit[r] \in VisitState
  BY DEF FormsInv, FormsTypeOK
<1>2. OverVisit(r) \in VisitState /\ OverVisit(r).stage = "over" /\ OverVisit(r).formLocks = {}
  BY <1>1, OverVisitType
<1>3. /\ visit' \in [FormRequest -> VisitState]
      /\ visit'[r] = OverVisit(r)
      /\ \A o \in FormRequest \ {r} : visit'[o] = visit[o]
      /\ drafted' = drafted /\ active' = active
  BY <1>1, <1>2, ReachStep DEF InsertQuestion, WriteQuestion
<1>4. asked \in [Question -> QuestionState] /\ asked' \in [Question -> QuestionState]
  BY <1>1 DEF InsertQuestion, WriteQuestion, FormsTypeOK, QuestionState, VisitState
<1>5. FormsTypeOK'
  BY <1>1, <1>3, <1>4 DEF FormsTypeOK
<1>6. ASSUME NEW o \in FormRequest \ {r}, NEW q \in visit[o].read,
             Doing(o, "submit", "insert"), asked[q] # "absent"
      PROVE  asked'[q] = asked[q]
  <2>1. q \in Question /\ (q \in Live => q \in visit[o].questionLocks)
    BY <1>1, <1>6 DEF FitInv, FormsTypeOK, VisitState
  <2>2. CASE WriteQuestion(r)
    BY <1>4, <2>1, <2>2 DEF WriteQuestion, QuestionLocked
  <2>3. CASE \E p \in Question, need \in {"optional", "required"} : InsertQuestion(r, p, need)
    BY <1>4, <1>6, <2>1, <2>3 DEF InsertQuestion
  <2> QED
    BY <2>2, <2>3
<1>7. \A q \in Question : asked[q] # "absent" => asked'[q] # "absent"
  <2>1. WriteQuestion(r) => visit[r].change # "absent"
    BY <1>1 DEF EditInv, WriteQuestion
  <2> QED
    BY <1>4, <2>1 DEF InsertQuestion, WriteQuestion
<1>8. FitInv'
  <2> SUFFICES ASSUME NEW o \in FormRequest
      PROVE  /\ Doing(o, "submit", "lock")' \/ Doing(o, "submit", "insert")' =>
                  \A q \in visit'[o].read : asked'[q] # "absent"
             /\ Doing(o, "submit", "insert")' =>
                  /\ visit'[o].questionLocks = visit'[o].read \cap Live'
                  /\ visit'[o].chosen \subseteq visit'[o].questionLocks
                  /\ visit'[o].read \cap Required' \subseteq visit'[o].chosen
    BY DEF FitInv
  <2>1. CASE o = r
    BY <1>2, <1>3, <2>1 DEF Doing
  <2>2. CASE o # r
    <3>1. visit'[o] = visit[o] /\ visit[o].read \subseteq Question
      BY <1>1, <1>3, <2>2 DEF FormsTypeOK, VisitState
    <3>2. Doing(o, "submit", "lock") \/ Doing(o, "submit", "insert") => \A q \in visit[o].read : asked[q] # "absent"
      BY <1>1 DEF FitInv
    <3>3. ASSUME Doing(o, "submit", "insert")
          PROVE  visit[o].read \cap Live' = visit[o].read \cap Live
                 /\ visit[o].read \cap Required' = visit[o].read \cap Required
      BY <1>6, <2>2, <3>1, <3>2, <3>3 DEF Live, Required
    <3> QED
      BY <1>1, <1>7, <3>1, <3>2, <3>3 DEF FitInv, Doing
  <2> QED
    BY <2>1, <2>2
<1>9. PublishInv'
  <2> SUFFICES ASSUME NEW o \in FormRequest
      PROVE  /\ Doing(o, "publish", "lock")' \/ Publishing(o)' => \E g \in Form : visit'[o].forms = {g}
             /\ Publishing(o)' => /\ visit'[o].forms \subseteq visit'[o].formLocks
                                  /\ visit'[o].forms \subseteq drafted'
                                  /\ visit'[o].wasActive => visit'[o].forms \subseteq active'
             /\ \A q \in FormRequest \ {o} : visit'[o].formLocks \cap visit'[q].formLocks = {}
    BY DEF PublishInv
  <2>1. CASE o = r
    BY <1>2, <1>3, <2>1 DEF Doing, Publishing
  <2>2. CASE o # r
    BY <1>1, <1>2, <1>3, <2>2 DEF PublishInv, Doing, Publishing
  <2> QED
    BY <2>1, <2>2
<1>10. EditInv'
  BY <1>1, <1>2, <1>3 DEF EditInv, Doing
<1> QED
  BY <1>5, <1>8, <1>9, <1>10 DEF FormsInv

LEMMA FormsStart == FormsInit => FormsInv
<1> SUFFICES ASSUME FormsInit PROVE FormsInv
  OBVIOUS
<1>1. \A r \in FormRequest : visit[r] = NewVisit
  BY DEF FormsInit
<1>2. NewVisit.stage = "new" /\ NewVisit.formLocks = {}
  BY DEF NewVisit
<1>3. FormsTypeOK
  BY NewVisitType DEF FormsInit, FormsTypeOK, QuestionState
<1>4. FitInv
  BY <1>1, <1>2 DEF FitInv, Doing
<1>5. PublishInv
  BY <1>1, <1>2 DEF PublishInv, Doing, Publishing
<1>6. EditInv
  BY <1>1, <1>2 DEF EditInv, Doing
<1> QED
  BY <1>3, <1>4, <1>5, <1>6 DEF FormsInv

LEMMA FormsStep == FormsInv /\ [FormsNext]_formVars => FormsInv' /\ (active # {} => active' # {})
<1> SUFFICES ASSUME FormsInv, [FormsNext]_formVars PROVE FormsInv' /\ (active # {} => active' # {})
  OBVIOUS
<1>1. CASE UNCHANGED formVars
  <2>1. FormsTypeOK' /\ FitInv' /\ PublishInv' /\ EditInv'
    BY <1>1
       DEF FormsInv, FormsTypeOK, FitInv, PublishInv, EditInv, formVars, Doing, Publishing, Live,
           Required
  <2> QED
    BY <1>1, <2>1 DEF FormsInv, formVars
<1>2. ASSUME NEW f \in Form, CreateTemplate(f) PROVE FormsInv' /\ active' = active
  BY <1>2, CreateTemplateStep DEF CreateTemplate
<1>3. ASSUME NEW r \in FormRequest,
             \/ SubmitBegin(r) \/ SubmitForm(r) \/ AcquireTimesOut(r) \/ SubmitRead(r)
             \/ \E answers \in SUBSET Question : SubmitValidate(r, answers)
             \/ SubmitCommit(r)
      PROVE  FormsInv' /\ active' = active
  BY <1>3, SubmitStep
     DEF SubmitBegin, SubmitForm, AcquireTimesOut, SubmitRead, SubmitValidate, SubmitCommit
<1>4. ASSUME NEW r \in FormRequest,
             \/ \E f \in Form : PublishBegin(r, f)
             \/ PublishLock(r) \/ PublishOthers(r) \/ PublishDeadlock(r)
      PROVE  FormsInv' /\ active' = active
  BY <1>4, PublishStep DEF PublishBegin, PublishLock, PublishOthers, PublishDeadlock
<1>5. ASSUME NEW r \in FormRequest,
             \/ LookForActiveForm(r)
             \/ \E f \in Form : FindTemplate(r, f)
             \/ \E q \in Question, change \in {"optional", "required", "deleted"} : FindQuestion(r, q, change)
             \/ FormRequestFails(r)
      PROVE  FormsInv' /\ active' = active
  BY <1>5, LookForFormStep DEF LookForActiveForm, FindTemplate, FindQuestion, FormRequestFails
<1>6. ASSUME NEW r \in FormRequest,
             \/ \E q \in Question, need \in {"optional", "required"} : InsertQuestion(r, q, need)
             \/ WriteQuestion(r)
      PROVE  FormsInv' /\ active' = active
  BY <1>6, QuestionStep DEF InsertQuestion, WriteQuestion
<1> QED
  BY <1>1, <1>2, <1>3, <1>4, <1>5, <1>6, PublishCommitStep, CreateDefaultFormStep
     DEF FormsNext, Progress

(* A submission that commits answers what it must. *)
THEOREM SubmissionsAlwaysFit == FormsSpec => []SubmissionFits
<1>1. FormsInv => SubmissionFits
  BY DEF FormsInv, FitInv, SubmissionFits
<1> QED
  BY <1>1, FormsStart, FormsStep, PTL DEF FormsSpec

(* A form that is active is replaced, never lost. *)
THEOREM FormsStayPublished == FormsSpec => FormStaysPublished
<1>1. FormsInv /\ [FormsNext]_formVars => [active # {} => active' # {}]_formVars
  BY FormsStep
<1> QED
  BY <1>1, FormsStart, FormsStep, PTL DEF FormsSpec, FormStaysPublished

-----------------------------------------------------------------------------
(* Public forms *)

(* The submission of t and s cannot both be there: one key, or one user and duty. *)
Opposed(t, key, user, duty) ==
  LET c == attempt[t].content IN
  c.key = key \/ (c.user = user /\ c.duty = duty)

(* No submission is in the way of that of t, neither a committed nor an inserted one. *)
Unopposed(t) ==
  LET c == attempt[t].content IN
  /\ \A s \in submissions : ~Opposed(t, s.key, s.user, s.duty)
  /\ \A o \in PublicAttempt \ {t} :
       Stage(o) = "commit" => ~Opposed(o, c.key, c.user, c.duty)

(* What was inserted can be committed. *)
CommitInv == \A t \in PublicAttempt : Stage(t) = "commit" => Unopposed(t)

(* Only an attempt that was told so has left a submission. *)
SubmissionsByCreated == \A s \in submissions : Stage(s.by) = "created"

(* AnswerTrue of one attempt *)
ToldTrue(t) ==
  LET c == attempt[t].content IN
  /\ Stage(t) = "created" => \E s \in submissions : s.by = t /\ s.key = c.key
  /\ Stage(t) = "replay" => \E s \in submissions : s.key = c.key
  /\ Stage(t) = "taken" => \E s \in submissions : s.user = c.user /\ s.duty = c.duty
  /\ Stage(t) \in {"failed", "refused"} => \A s \in submissions : s.by # t

LEMMA AnswerTrueOfEach == AnswerTrue <=> \A t \in PublicAttempt : ToldTrue(t)
BY DEF AnswerTrue, ToldTrue, Of

PublicInv == PublicFormsTypeOK /\ SubmissionsByCreated /\ AnswerTrue /\ CommitInv

(* The key is looked for first, and only then. *)
Looks(t, stage) ==
  /\ Stage(t) = "new" => stage = "look"
  /\ Stage(t) = "look" => /\ stage \in {"form", "replay", "failed"}
                          /\ stage = "form" => Of("key", attempt[t].content.key) = {}
  /\ Stage(t) \notin {"new", "look"} => stage \notin {"new", "look", "replay"}

(* A step of an attempt that does not commit, and what may be said of it then. *)
Moves(t, new) ==
  /\ new \in AttemptState
  /\ attempt' = [attempt EXCEPT ![t] = new]
  /\ UNCHANGED <<users, submissions>>
  /\ Stage(t) \notin Answered
  /\ new.content = attempt[t].content
  /\ new.stage # "created"
  /\ new.stage = "replay" => Of("key", new.content.key) # {}
  /\ new.stage = "taken" => SubmittedToday(t) # {}
  /\ new.stage = "commit" => Unopposed(t)
  /\ Looks(t, new.stage)

(* Become leaves the content. *)
LEMMA BecomeIs ==
  ASSUME PublicFormsTypeOK, NEW t \in PublicAttempt,
         NEW stage \in {"look", "form", "questions", "user", "make", "duplicate", "insert", "commit",
                        "created", "replay", "taken", "refused", "failed"},
         Become(t, stage)
  PROVE  \E new \in AttemptState : /\ attempt' = [attempt EXCEPT ![t] = new]
                                   /\ new.content = attempt[t].content /\ new.stage = stage
<1> DEFINE new == [attempt[t] EXCEPT !.stage = stage,
                                     !.form = IF stage \in Answered THEN NoForm ELSE @,
                                     !.locked = @ /\ stage \notin Answered,
                                     !.holdsUser = @ /\ stage \notin Answered]
<1>1. attempt \in [PublicAttempt -> AttemptState]
  BY DEF PublicFormsTypeOK
<1>2. new \in AttemptState /\ new.content = attempt[t].content /\ new.stage = stage
  BY <1>1 DEF AttemptState
<1>3. attempt' = [attempt EXCEPT ![t] = new]
  BY <1>1 DEF Become
<1> HIDE DEF new
<1> QED
  BY <1>2, <1>3

(* An insert that nothing waits for and that no index refuses. *)
LEMMA InsertUnopposed ==
  ASSUME PublicFormsTypeOK, NEW t \in PublicAttempt, Insert(t),
         Of("key", attempt[t].content.key) = {}, SubmittedToday(t) = {}
  PROVE  Unopposed(t)
<1> DEFINE c == attempt[t].content
<1>1. \A s \in submissions : s.key # c.key /\ ~(s.user = c.user /\ s.duty = c.duty)
  BY DEF Of, SubmittedToday
<1>2. ASSUME NEW o \in PublicAttempt \ {t}, Stage(o) = "commit"
      PROVE  ~Opposed(o, c.key, c.user, c.duty)
  <2>1. o \in Others(t)
    BY <1>2 DEF Others, Running, Answered
  <2> QED
    BY <1>2, <2>1 DEF Insert, Opposed
<1> QED
  BY <1>1, <1>2 DEF Unopposed, Opposed

(* Every step but a commit is such a step of an attempt. *)
LEMMA AttemptMoves ==
  ASSUME PublicFormsTypeOK, PublicFormsNext
  PROVE  \E t \in PublicAttempt : Commit(t) \/ \E new : Moves(t, new)
<1>0. attempt \in [PublicAttempt -> AttemptState]
  BY DEF PublicFormsTypeOK
<1>1. ASSUME NEW t \in PublicAttempt,
             \/ Arrive(t) \/ LookForKey(t) \/ AttemptFails(t) \/ RefuseDuplicate(t) \/ Insert(t)
             \/ MakeUser(t) /\ Become(t, "failed")
      PROVE  \E new : Moves(t, new)
  <2>1. PICK stage \in {"look", "form", "insert", "commit", "replay", "taken", "failed"} :
          /\ Become(t, stage) /\ Stage(t) \notin Answered /\ UNCHANGED <<users, submissions>>
          /\ stage = "replay" => Of("key", attempt[t].content.key) # {}
          /\ stage = "taken" => SubmittedToday(t) # {}
          /\ stage = "commit" => /\ Insert(t) /\ Of("key", attempt[t].content.key) = {}
                                 /\ SubmittedToday(t) = {}
          /\ Looks(t, stage)
    BY <1>1 DEF Looks, Arrive, LookForKey, AttemptFails, RefuseDuplicate, Insert, MakeUser, Running, Answered
  <2>2. PICK new \in AttemptState : /\ attempt' = [attempt EXCEPT ![t] = new]
                                     /\ new.content = attempt[t].content /\ new.stage = stage
    BY <2>1, BecomeIs
  <2>3. Moves(t, new)
    BY <2>1, <2>2, InsertUnopposed DEF Moves
  <2> QED
    BY <2>3
<1>2. ASSUME NEW t \in PublicAttempt, NEW f \in PublicForm \cup {NoForm}, FindActiveForm(t, f)
      PROVE  \E new : Moves(t, new)
  <2> DEFINE new == [attempt[t] EXCEPT !.stage = IF f = NoForm THEN "refused" ELSE "questions", !.form = f]
  <2>1. new \in AttemptState /\ new.content = attempt[t].content /\ new.stage \in {"refused", "questions"}
    BY <1>0 DEF AttemptState
  <2>2. attempt' = [attempt EXCEPT ![t] = new] /\ Stage(t) \notin Answered /\ UNCHANGED <<users, submissions>>
    BY <1>0, <1>2 DEF FindActiveForm, Answered
  <2> HIDE DEF new
  <2>3. Moves(t, new)
    BY <1>2, <2>1, <2>2 DEF Moves, Looks, FindActiveForm
  <2> QED
    BY <2>3
<1>3. ASSUME NEW t \in PublicAttempt, NEW fit \in BOOLEAN, LockQuestions(t, fit)
      PROVE  \E new : Moves(t, new)
  <2> DEFINE new == [attempt[t] EXCEPT !.stage = IF fit THEN "user" ELSE "refused",
                                       !.form = IF fit THEN @ ELSE NoForm,
                                       !.locked = fit]
  <2>1. new \in AttemptState /\ new.content = attempt[t].content /\ new.stage \in {"refused", "user"}
    BY <1>0 DEF AttemptState
  <2>2. attempt' = [attempt EXCEPT ![t] = new] /\ Stage(t) \notin Answered /\ UNCHANGED <<users, submissions>>
    BY <1>0, <1>3 DEF LockQuestions, Answered
  <2> HIDE DEF new
  <2>3. Moves(t, new)
    BY <1>3, <2>1, <2>2 DEF Moves, Looks, LockQuestions
  <2> QED
    BY <2>3
<1>4. ASSUME NEW t \in PublicAttempt, FindUser(t)
      PROVE  \E new : Moves(t, new)
  <2> DEFINE there == attempt[t].content.user \in users
             new == [attempt[t] EXCEPT !.stage = IF there THEN "duplicate" ELSE "make", !.holdsUser = there]
  <2>0. there \in BOOLEAN
    OBVIOUS
  <2>1. new \in AttemptState /\ new.content = attempt[t].content /\ new.stage \in {"duplicate", "make"}
    <3> HIDE DEF there
    <3> QED
      BY <1>0, <2>0 DEF AttemptState
  <2>2. attempt' = [attempt EXCEPT ![t] = new] /\ Stage(t) \notin Answered /\ UNCHANGED <<users, submissions>>
    BY <1>0, <1>4 DEF FindUser, Answered
  <2> HIDE DEF new
  <2>3. Moves(t, new)
    BY <1>4, <2>1, <2>2 DEF Moves, Looks, FindUser
  <2> QED
    BY <2>3
<1>5. ASSUME NEW t \in PublicAttempt, MakeUser(t), ~Become(t, "failed")
      PROVE  \E new : Moves(t, new)
  <2> DEFINE new == [attempt[t] EXCEPT !.stage = "duplicate", !.holdsUser = TRUE]
  <2>1. new \in AttemptState /\ new.content = attempt[t].content /\ new.stage = "duplicate"
    BY <1>0 DEF AttemptState
  <2>2. attempt' = [attempt EXCEPT ![t] = new] /\ Stage(t) \notin Answered /\ UNCHANGED <<users, submissions>>
    BY <1>0, <1>5 DEF MakeUser, Answered
  <2> HIDE DEF new
  <2>3. Moves(t, new)
    BY <1>5, <2>1, <2>2 DEF Moves, Looks, MakeUser
  <2> QED
    BY <2>3
<1> QED
  BY <1>1, <1>2, <1>3, <1>4, <1>5 DEF PublicFormsNext

LEMMA AttemptStep ==
  ASSUME PublicInv, NEW t \in PublicAttempt, NEW new, Moves(t, new)
  PROVE  PublicInv'
<1> USE DEF Moves
<1>1. PublicFormsTypeOK /\ SubmissionsByCreated /\ AnswerTrue /\ CommitInv
  BY DEF PublicInv
<1>2. /\ attempt' \in [PublicAttempt -> AttemptState]
      /\ attempt'[t] = new
      /\ \A o \in PublicAttempt \ {t} : attempt'[o] = attempt[o]
  BY <1>1 DEF PublicFormsTypeOK
<1>3. PublicFormsTypeOK'
  BY <1>1, <1>2 DEF PublicFormsTypeOK
<1>4. \A s \in submissions : s.by \in PublicAttempt \ {t}
  BY <1>1 DEF PublicFormsTypeOK, Submission, SubmissionsByCreated, Answered
<1>5. SubmissionsByCreated'
  BY <1>1, <1>2, <1>4 DEF SubmissionsByCreated, Stage
<1>6. AnswerTrue'
  <2> SUFFICES ASSUME NEW o \in PublicAttempt PROVE ToldTrue(o)'
    BY DEF AnswerTrue, ToldTrue, Of
  <2>1. CASE o = t
    BY <1>2, <1>4, <2>1 DEF ToldTrue, Stage, Of, SubmittedToday
  <2>2. CASE o # t
    <3>1. ToldTrue(o)
      BY <1>1, AnswerTrueOfEach
    <3> QED
      BY <1>2, <2>2, <3>1 DEF ToldTrue, Stage
  <2> QED
    BY <2>1, <2>2
<1>7. CommitInv'
  <2> SUFFICES ASSUME NEW o \in PublicAttempt, Stage(o)' = "commit"
               PROVE  Unopposed(o)'
    BY DEF CommitInv
  <2>1. \A x \in PublicAttempt : attempt'[x].content = attempt[x].content
    BY <1>2
  <2>2. Unopposed(o) \/ (o # t /\ Stage(o) = "commit")
    BY <1>2 DEF Stage
  <2>3. Unopposed(o)
    BY <1>1, <2>2 DEF CommitInv
  <2>4. ASSUME NEW x \in PublicAttempt \ {o}, Stage(x)' = "commit"
        PROVE  ~Opposed(x, attempt[o].content.key, attempt[o].content.user, attempt[o].content.duty)
    <3>1. CASE x # t
      BY <1>2, <2>3, <2>4, <3>1 DEF Unopposed, Stage
    <3>2. CASE x = t
      <4>1. Stage(o) = "commit" /\ Unopposed(t)
        BY <1>2, <2>4, <3>2 DEF Stage
      <4> QED
        BY <3>2, <4>1 DEF Unopposed, Opposed
    <3> QED
      BY <3>1, <3>2
  <2> QED
    BY <2>1, <2>3, <2>4 DEF Unopposed, Opposed
<1> QED
  BY <1>3, <1>5, <1>6, <1>7 DEF PublicInv

(* What a commit does. *)
LEMMA CommitIs ==
  ASSUME PublicFormsTypeOK, NEW t \in PublicAttempt, Commit(t)
  PROVE  LET c == attempt[t].content
             s0 == [key |-> c.key, user |-> c.user, duty |-> c.duty, by |-> t] IN
         /\ attempt' \in [PublicAttempt -> AttemptState]
         /\ attempt'[t].stage = "created" /\ attempt'[t].content = c
         /\ \A o \in PublicAttempt \ {t} : attempt'[o] = attempt[o]
         /\ submissions' = submissions \cup {s0} /\ users' = users \cup {c.user}
         /\ s0 \in Submission /\ c \in Content
<1>1. PICK new \in AttemptState : /\ attempt' = [attempt EXCEPT ![t] = new]
                                   /\ new.content = attempt[t].content /\ new.stage = "created"
  BY BecomeIs DEF Commit
<1> QED
  BY <1>1 DEF Commit, PublicFormsTypeOK, AttemptState, Content, Submission

LEMMA PublicCommitStep ==
  ASSUME PublicInv, NEW t \in PublicAttempt, Commit(t)
  PROVE  PublicInv'
<1> DEFINE c == attempt[t].content
           s0 == [key |-> c.key, user |-> c.user, duty |-> c.duty, by |-> t]
<1>1. PublicFormsTypeOK /\ SubmissionsByCreated /\ AnswerTrue /\ CommitInv
  BY DEF PublicInv
<1>2. /\ attempt' \in [PublicAttempt -> AttemptState]
      /\ attempt'[t].stage = "created" /\ attempt'[t].content = c
      /\ \A o \in PublicAttempt \ {t} : attempt'[o] = attempt[o]
  BY <1>1, CommitIs
<1>3. /\ submissions' = submissions \cup {s0} /\ users' = users \cup {c.user}
      /\ s0 \in Submission /\ c \in Content
      /\ s0.by = t /\ s0.key = c.key /\ s0.user = c.user /\ s0.duty = c.duty
  BY <1>1, CommitIs
<1>4. CommitInv'
  <2> SUFFICES ASSUME NEW o \in PublicAttempt, Stage(o)' = "commit"
               PROVE  Unopposed(o)'
    BY DEF CommitInv
  <2>1. o # t /\ Stage(o) = "commit" /\ Stage(t) = "commit"
    BY <1>2 DEF Stage, Commit
  <2>2. Unopposed(o)
    BY <1>1, <2>1 DEF CommitInv
  <2>3. \A x \in PublicAttempt : attempt'[x].content = attempt[x].content
    BY <1>2
  <2>4. ~Opposed(o, c.key, c.user, c.duty)
    BY <2>1, <2>2 DEF Unopposed, Opposed
  <2>5. \A x \in PublicAttempt \ {o} : Stage(x)' = "commit" => Stage(x) = "commit"
    BY <1>2 DEF Stage
  <2> HIDE DEF s0, c
  <2>6. \A s \in submissions' : ~Opposed(o, s.key, s.user, s.duty)
    BY <1>3, <2>2, <2>4 DEF Unopposed
  <2> QED
    BY <2>2, <2>3, <2>5, <2>6 DEF Unopposed, Opposed
<1> HIDE DEF s0, c
<1>5. PublicFormsTypeOK'
  BY <1>1, <1>2, <1>3 DEF PublicFormsTypeOK, Content
<1>6. SubmissionsByCreated'
  <2> SUFFICES ASSUME NEW s \in submissions' PROVE attempt'[s.by].stage = "created"
    BY DEF SubmissionsByCreated, Stage
  <2>1. CASE s.by = t
    BY <1>2, <2>1
  <2>2. CASE s.by # t
    BY <1>1, <1>2, <1>3, <2>2 DEF SubmissionsByCreated, Stage, PublicFormsTypeOK, Submission
  <2> QED
    BY <2>1, <2>2
<1>7. AnswerTrue'
  <2> SUFFICES ASSUME NEW o \in PublicAttempt PROVE ToldTrue(o)'
    BY DEF AnswerTrue, ToldTrue, Of
  <2>1. CASE o = t
    BY <1>2, <1>3, <2>1 DEF ToldTrue, Stage
  <2>2. CASE o # t
    <3>1. ToldTrue(o)
      BY <1>1, AnswerTrueOfEach
    <3> QED
      BY <1>2, <1>3, <2>2, <3>1 DEF ToldTrue, Stage
  <2> QED
    BY <2>1, <2>2
<1> QED
  BY <1>4, <1>5, <1>6, <1>7 DEF PublicInv

LEMMA PublicStart == PublicFormsInit => PublicInv
<1> SUFFICES ASSUME PublicFormsInit PROVE PublicInv
  OBVIOUS
<1>1. attempt \in [PublicAttempt -> AttemptState] /\ \A t \in PublicAttempt : Stage(t) = "new"
  BY DEF PublicFormsInit, Stage
<1>2. PublicFormsTypeOK
  BY <1>1 DEF PublicFormsInit, PublicFormsTypeOK
<1>3. SubmissionsByCreated /\ AnswerTrue /\ CommitInv
  BY <1>1 DEF PublicFormsInit, SubmissionsByCreated, AnswerTrue, CommitInv
<1> QED
  BY <1>2, <1>3 DEF PublicInv

LEMMA PublicStep == PublicInv /\ [PublicFormsNext]_publicFormVars => PublicInv'
<1> SUFFICES ASSUME PublicInv, [PublicFormsNext]_publicFormVars PROVE PublicInv'
  OBVIOUS
<1>1. CASE UNCHANGED publicFormVars
  BY <1>1
  DEF publicFormVars, PublicInv, PublicFormsTypeOK, SubmissionsByCreated, AnswerTrue, Stage, Of,
      CommitInv, Unopposed, Opposed
<1>2. CASE PublicFormsNext
  BY <1>2, AttemptMoves, AttemptStep, PublicCommitStep DEF PublicInv
<1> QED
  BY <1>1, <1>2

(* An attempt is told what happened to it. *)
THEOREM AnswersAlwaysTrue == PublicFormsSpec => []AnswerTrue
<1>1. PublicInv => AnswerTrue
  BY DEF PublicInv
<1> QED
  BY <1>1, PublicStart, PublicStep, PTL DEF PublicFormsSpec

(* A step of an attempt that submits nothing is no step of the ledger, or tells *)
(* what the ledger says.                                                        *)
LEMMA AttemptRefines ==
  ASSUME PublicInv, NEW t \in PublicAttempt, NEW new, Moves(t, new)
  PROVE  Once!Next \/ UNCHANGED Once!submitVars
<1> USE DEF Moves
<1> DEFINE contents == [x \in PublicAttempt |-> attempt[x].content]
           told == [x \in PublicAttempt |-> Told(Stage(x))]
<1>1. /\ attempt' \in [PublicAttempt -> AttemptState]
      /\ attempt'[t] = new
      /\ \A o \in PublicAttempt \ {t} : attempt'[o] = attempt[o]
  BY DEF PublicInv, PublicFormsTypeOK
<1>2. contents' = contents
  BY <1>1
<1>3. told[t] = IF Stage(t) \in {"new", "look"} THEN "nothing" ELSE "looked"
  BY DEF Told
<1>4. told' = [told EXCEPT ![t] = Told(new.stage)]
  BY <1>1 DEF Stage
<1>5. attempt[t].content = contents[t]
  OBVIOUS
<1>6. CASE Told(new.stage) = told[t]
  <2>1. told' = told
    BY <1>4, <1>6
  <2> QED
    BY <1>2, <2>1 DEF Once!submitVars
<1>7. CASE Told(new.stage) # told[t]
  <2>1. Once!Tell(t, told[t], Told(new.stage))
    BY <1>2, <1>4 DEF Once!Tell
  <2>2. CASE new.stage = "replay"
    <3>1. Once!KeyTaken(t)
      BY <2>2 DEF Once!KeyTaken, Of
    <3>2. told[t] = "nothing" /\ Told(new.stage) = "replay"
      BY <1>3, <2>2 DEF Looks, Told, Answered
    <3> QED
      BY <2>1, <3>1, <3>2 DEF Once!Replay, Once!Next
  <2>3. CASE new.stage = "form"
    <3>1. Stage(t) = "look" /\ told[t] = "nothing" /\ Told(new.stage) = "looked"
      BY <1>3, <1>7, <2>3 DEF Looks, Told, Answered
    <3>2. ~Once!KeyTaken(t)
      BY <2>3, <3>1 DEF Once!KeyTaken, Of, Looks
    <3> QED
      BY <2>1, <3>1, <3>2 DEF Once!Look, Once!Next
  <2>4. CASE new.stage = "failed"
    <3>1. Told(new.stage) = "failed" /\ told[t] \in {"nothing", "looked"}
      BY <1>3, <2>4 DEF Told, Answered
    <3> QED
      BY <2>1, <3>1 DEF Once!Fail, Once!Next
  <2>5. CASE new.stage = "taken"
    <3>1. Once!DayTaken(t)
      BY <2>5 DEF Once!DayTaken, SubmittedToday, Of
    <3>2. told[t] = "looked" /\ Told(new.stage) = "taken"
      BY <1>3, <2>5 DEF Looks, Told, Answered
    <3> QED
      BY <2>1, <3>1, <3>2 DEF Once!RefuseSecond, Once!Next
  <2>6. CASE new.stage = "refused"
    <3>1. told[t] = "looked" /\ Told(new.stage) = "refused"
      BY <1>3, <2>6 DEF Looks, Told, Answered
    <3> QED
      BY <2>1, <3>1 DEF Once!TurnAway, Once!Next
  <2>7. new.stage \in {"form", "replay", "taken", "refused", "failed"}
    <3>1. CASE Stage(t) \in {"new", "look"}
      BY <1>3, <1>7, <3>1 DEF Looks, Told, Answered
    <3>2. CASE Stage(t) \notin {"new", "look"}
      BY <1>3, <1>7, <3>2 DEF Looks, Told, Answered
    <3> QED
      BY <3>1, <3>2
  <2> QED
    BY <2>2, <2>3, <2>4, <2>5, <2>6, <2>7
<1> QED
  BY <1>6, <1>7

(* A commit enters the submission where the ledger is free for it. *)
LEMMA CommitRefines ==
  ASSUME PublicInv, NEW t \in PublicAttempt, Commit(t)
  PROVE  Once!Accept(t)
<1> DEFINE contents == [x \in PublicAttempt |-> attempt[x].content]
           told == [x \in PublicAttempt |-> Told(Stage(x))]
           c == attempt[t].content
<1>1. /\ attempt' \in [PublicAttempt -> AttemptState]
      /\ attempt'[t].stage = "created" /\ attempt'[t].content = c
      /\ \A o \in PublicAttempt \ {t} : attempt'[o] = attempt[o]
      /\ submissions' = submissions \cup {[key |-> c.key, user |-> c.user, duty |-> c.duty, by |-> t]}
  BY CommitIs DEF PublicInv
<1>2. contents' = contents /\ contents[t] = c
  BY <1>1
<1>3. told[t] = "looked"
  BY DEF Commit, Told, Answered
<1>4. told' = [told EXCEPT ![t] = "created"]
  BY <1>1 DEF Stage, Told, Answered
<1>5. Unopposed(t)
  BY DEF PublicInv, CommitInv, Commit
<1>6. ~Once!KeyTaken(t) /\ ~Once!DayTaken(t)
  BY <1>5 DEF Unopposed, Opposed, Once!KeyTaken, Once!DayTaken
<1> QED
  BY <1>1, <1>2, <1>3, <1>4, <1>6 DEF Once!Accept, Once!Tell

(***************************************************************************)
(* However the transactions of submitPublicForm overlap, wait and fail,     *)
(* they implement the ledger: an insert waits for those it would conflict   *)
(* with, so what was inserted can be committed, and each answer holds of    *)
(* what is committed when it is given.                                      *)
(***************************************************************************)
THEOREM SubmitOnceRefined == PublicFormsSpec => SubmitOnceSpec
<1>1. PublicFormsInit => Once!Init
  <2> SUFFICES ASSUME PublicFormsInit PROVE Once!Init
    OBVIOUS
  <2>1. /\ attempt \in [PublicAttempt -> AttemptState] /\ \A t \in PublicAttempt : Stage(t) = "new"
        /\ submissions = {}
    BY DEF PublicFormsInit, Stage
  <2>2. \A t \in PublicAttempt : attempt[t].content \in [key : Key, user : Respondent, duty : Duty]
    BY <2>1 DEF AttemptState, Content
  <2> QED
    BY <2>1, <2>2 DEF Once!Init, Told, Answered
<1>2. PublicInv /\ [PublicFormsNext]_publicFormVars => [Once!Next]_Once!submitVars
  <2> SUFFICES ASSUME PublicInv, [PublicFormsNext]_publicFormVars
               PROVE  Once!Next \/ UNCHANGED Once!submitVars
    OBVIOUS
  <2>1. CASE UNCHANGED publicFormVars
    BY <2>1 DEF publicFormVars, Once!submitVars, Stage
  <2>2. CASE PublicFormsNext
    <3>1. PICK t \in PublicAttempt : Commit(t) \/ \E new : Moves(t, new)
      BY <2>2, AttemptMoves DEF PublicInv
    <3>2. CASE Commit(t)
      BY <3>2, CommitRefines DEF Once!Next
    <3>3. CASE \E new : Moves(t, new)
      BY <3>3, AttemptRefines
    <3> QED
      BY <3>1, <3>2, <3>3
  <2> QED
    BY <2>1, <2>2
<1> QED
  BY <1>1, <1>2, PublicStart, PublicStep, PTL DEF PublicFormsSpec, SubmitOnceSpec, Once!Spec

(***************************************************************************)
(* So there are never two submissions with one key, nor two of one user for *)
(* one duty of the day: the ledger has none.                                *)
(***************************************************************************)
THEOREM SubmissionsEnteredOnce == PublicFormsSpec => []Once!EnteredOnce
<1>1. Once!Init => Once!EnteredOnce
  BY DEF Once!Init, Once!EnteredOnce
<1>2. Once!EnteredOnce /\ [Once!Next]_Once!submitVars => Once!EnteredOnce'
  <2> SUFFICES ASSUME Once!EnteredOnce, [Once!Next]_Once!submitVars PROVE Once!EnteredOnce'
    OBVIOUS
  <2>1. CASE submissions' = submissions
    BY <2>1 DEF Once!EnteredOnce
  <2>2. ASSUME NEW t \in PublicAttempt, Once!Accept(t)
        PROVE  Once!EnteredOnce'
    BY <2>2 DEF Once!Accept, Once!KeyTaken, Once!DayTaken, Once!EnteredOnce
  <2> QED
    BY <2>1, <2>2
    DEF Once!Next, Once!Replay, Once!Look, Once!RefuseSecond, Once!TurnAway, Once!Fail, Once!submitVars
<1> QED
  BY <1>1, <1>2, SubmitOnceRefined, PTL DEF SubmitOnceSpec, Once!Spec

-----------------------------------------------------------------------------
(* Places in a list *)

LEMMA OffsetsType == Offsets \subseteq Nat /\ 0 \in Offsets
<1>1. ASSUME NEW page \in 1..MaxPage PROVE (page - 1) * PageLimit \in Nat
  <2>1. page - 1 \in Nat /\ PageLimit \in Nat
    BY PagesAssumption
  <2>2. \A a, b \in Nat : a * b \in Nat
    OBVIOUS
  <2> QED
    BY <2>1, <2>2
<1>2. 1 \in 1..MaxPage /\ (1 - 1) * PageLimit = 0
  BY PagesAssumption
<1> QED
  BY <1>1, <1>2 DEF Offsets

LEMMA PlaceGrows ==
  ASSUME NEW rows, NEW more, IsFiniteSet(more), rows \subseteq more, NEW x
  PROVE  Place(x, rows) \in Nat /\ Place(x, more) \in Nat /\ Place(x, rows) <= Place(x, more)
<1> DEFINE before == {y \in rows : Rank[y] < Rank[x]}
           then == {y \in more : Rank[y] < Rank[x]}
<1>1. IsFiniteSet(then)
  BY FS_Subset
<1>2. IsFiniteSet(before) /\ Cardinality(before) <= Cardinality(then)
  BY <1>1, FS_Subset
<1>3. Cardinality(before) \in Nat /\ Cardinality(then) \in Nat
  BY <1>1, <1>2, FS_CardinalityType
<1> QED
  BY <1>2, <1>3 DEF Place

LEMMA PlaceInside ==
  ASSUME NEW rows, IsFiniteSet(rows), rows \subseteq DOMAIN Rank, NEW x \in rows
  PROVE  Place(x, rows) \in Nat /\ Cardinality(rows) \in Nat /\ Place(x, rows) < Cardinality(rows)
<1> DEFINE before == {y \in rows : Rank[y] < Rank[x]}
<1>1. Rank[x] \in Nat
  BY PagesAssumption
<1>2. before \subseteq rows \ {x}
  BY <1>1
<1>3. IsFiniteSet(rows \ {x}) /\ Cardinality(rows \ {x}) = Cardinality(rows) - 1
  BY FS_RemoveElement
<1>4. IsFiniteSet(before) /\ Cardinality(before) <= Cardinality(rows \ {x})
  BY <1>2, <1>3, FS_Subset
<1>5. Cardinality(before) \in Nat /\ Cardinality(rows) \in Nat
  BY <1>4, FS_CardinalityType
<1> QED
  BY <1>3, <1>4, <1>5 DEF Place

(* A row that is not on a page, but not before it either, is behind it. *)
LEMMA NotOnPage ==
  ASSUME NEW rows, IsFiniteSet(rows), NEW offset \in Nat, NEW x \in rows,
         offset <= Place(x, rows), x \notin Page(rows, offset)
  PROVE  offset + PageLimit <= Place(x, rows)
<1>1. Place(x, rows) \in Nat
  BY PlaceGrows
<1> QED
  BY <1>1, PagesAssumption DEF Page

-----------------------------------------------------------------------------
(* Registers *)

(* A request brings columns of its own; one that has begun its delete has found *)
(* all there are, unless another has committed since.                           *)
ReplaceInv ==
  \A r \in RegisterRequest :
    /\ \A c \in work[r].brings : c.by = r
    /\ Awaits(r, "wait") \/ Awaits(r, "create") => columns \subseteq work[r].found \/ r \in overlapped

RegisterInv == RegisterTypeOK /\ ReplaceInv /\ MappingsOfOneRequest

LEMMA MappingsType ==
  ASSUME NEW by \in RegisterRequest \cup {First}, NEW m \in Mappings(by)
  PROVE  m \subseteq Column /\ \A c \in m : c.by = by
<1>1. PICK n \in Choice : m = {[item |-> c.item, isKey |-> c.isKey, by |-> by] : c \in n}
  BY DEF Mappings
<1>2. n \subseteq [item : Item, isKey : BOOLEAN]
  BY RegisterConstantsAssumption
<1> QED
  BY <1>1, <1>2 DEF Column

LEMMA NewWorkType ==
  /\ NewWork \in WorkState /\ NewWork.stage = "new" /\ NewWork.brings = {}
  /\ [NewWork EXCEPT !.stage = "over"] \in WorkState
  /\ [NewWork EXCEPT !.stage = "over"].stage = "over"
  /\ [NewWork EXCEPT !.stage = "over"].brings = {}
BY OffsetsType DEF NewWork, WorkState

(* A step of one request that leaves the columns. *)
LEMMA WorkStep ==
  ASSUME RegisterInv, NEW r \in RegisterRequest, NEW new \in WorkState,
         work' = [work EXCEPT ![r] = new],
         UNCHANGED <<columns, labels, answered, overlapped, moved>>,
         \A c \in new.brings : c.by = r,
         new.stage \in {"wait", "create"} => columns \subseteq new.found \/ r \in overlapped
  PROVE  RegisterInv'
<1>1. RegisterTypeOK /\ ReplaceInv /\ MappingsOfOneRequest
  BY DEF RegisterInv
<1>2. /\ work' \in [RegisterRequest -> WorkState]
      /\ work'[r] = new
      /\ \A o \in RegisterRequest \ {r} : work'[o] = work[o]
  BY <1>1 DEF RegisterTypeOK
<1>3. RegisterTypeOK'
  BY <1>1, <1>2 DEF RegisterTypeOK
<1>4. ReplaceInv'
  BY <1>1, <1>2 DEF ReplaceInv, Awaits
<1>5. MappingsOfOneRequest'
  BY <1>1 DEF MappingsOfOneRequest
<1> QED
  BY <1>3, <1>4, <1>5 DEF RegisterInv

LEMMA ReplaceStep ==
  ASSUME RegisterInv, NEW r \in RegisterRequest,
         (\E m \in Mappings(r) : CheckQuestions(r, m)) \/ DestroyBegin(r) \/ DestroyEnd(r)
  PROVE  RegisterInv'
<1>1. /\ RegisterTypeOK /\ ReplaceInv
      /\ work \in [RegisterRequest -> WorkState] /\ columns \subseteq Column
  BY DEF RegisterInv, RegisterTypeOK
<1>0. \A c \in work[r].brings : c.by = r
  BY <1>1 DEF ReplaceInv
<1>2. ASSUME NEW m \in Mappings(r), CheckQuestions(r, m) PROVE RegisterInv'
  <2> DEFINE new == [NewWork EXCEPT !.stage = "destroy", !.brings = m]
  <2>1. new \in WorkState /\ new.stage = "destroy" /\ \A c \in new.brings : c.by = r
    BY MappingsType, OffsetsType DEF NewWork, WorkState
  <2>2. work' = [work EXCEPT ![r] = new] /\ UNCHANGED <<columns, labels, answered, overlapped, moved>>
    BY <1>2 DEF CheckQuestions
  <2> HIDE DEF new
  <2> QED
    BY <2>1, <2>2, WorkStep
<1>3. CASE DestroyBegin(r)
  <2> DEFINE new == [work[r] EXCEPT !.stage = "wait", !.found = Destroyed(r)]
  <2>1. new \in WorkState /\ new.stage = "wait" /\ new.found = columns /\ new.brings = work[r].brings
    BY <1>1 DEF WorkState, Destroyed
  <2>2. work' = [work EXCEPT ![r] = new] /\ UNCHANGED <<columns, labels, answered, overlapped, moved>>
    BY <1>1, <1>3 DEF DestroyBegin
  <2> HIDE DEF new
  <2> QED
    BY <1>0, <2>1, <2>2, WorkStep
<1>4. CASE DestroyEnd(r)
  <2> DEFINE new == [work[r] EXCEPT !.stage = "create", !.found = @ \cap columns]
  <2>1. /\ new \in WorkState /\ new.stage = "create" /\ new.found = work[r].found \cap columns
        /\ new.brings = work[r].brings
    BY <1>1 DEF WorkState
  <2>2. work' = [work EXCEPT ![r] = new] /\ UNCHANGED <<columns, labels, answered, overlapped, moved>>
    BY <1>1, <1>4 DEF DestroyEnd
  <2>3. columns \subseteq work[r].found \/ r \in overlapped
    BY <1>1, <1>4 DEF ReplaceInv, DestroyEnd
  <2> HIDE DEF new
  <2> QED
    BY <1>0, <2>1, <2>2, <2>3, WorkStep
<1> QED
  BY <1>2, <1>3, <1>4

(* The columns a replacement leaves beside its own are there only if another    *)
(* committed after it had begun.                                                *)
LEMMA CreateStep ==
  ASSUME RegisterInv, NEW r \in RegisterRequest, CreateAndCommit(r)
  PROVE  RegisterInv'
<1> DEFINE over == [NewWork EXCEPT !.stage = "over"]
           stay == columns \ work[r].found
<1>1. RegisterTypeOK /\ ReplaceInv /\ MappingsOfOneRequest
  BY DEF RegisterInv
<1>2. over \in WorkState /\ over.stage = "over" /\ over.brings = {}
  BY NewWorkType
<1> HIDE DEF over
<1>3. /\ work' \in [RegisterRequest -> WorkState]
      /\ work'[r] = over
      /\ \A o \in RegisterRequest \ {r} : work'[o] = work[o]
  BY <1>1, <1>2 DEF CreateAndCommit, RegisterTypeOK, over
<1>4. /\ columns' = columns \/ columns' = stay \cup work[r].brings
      /\ overlapped' = overlapped \cup {o \in RegisterRequest \ {r} : Awaits(o, "wait") \/ Awaits(o, "create")}
      /\ labels' = labels /\ answered' = answered /\ moved' = moved
  BY DEF CreateAndCommit
<1>5. RegisterTypeOK'
  BY <1>1, <1>3, <1>4 DEF RegisterTypeOK, WorkState
<1>6. ReplaceInv'
  BY <1>1, <1>2, <1>3, <1>4 DEF ReplaceInv, Awaits
<1>7. MappingsOfOneRequest'
  <2>1. /\ \A c \in work[r].brings : c.by = r
        /\ stay = {} \/ r \in overlapped
    BY <1>1 DEF ReplaceInv, CreateAndCommit
  <2> QED
    BY <1>1, <1>4, <2>1 DEF MappingsOfOneRequest
<1> QED
  BY <1>5, <1>6, <1>7 DEF RegisterInv

LEMMA ListStep ==
  ASSUME RegisterInv, NEW r \in RegisterRequest,
         \/ \E offset \in Offsets : LoadRegister(r, offset)
         \/ CountRows(r) \/ ListRows(r) \/ ListAnswers(r) \/ RegisterRequestFails(r)
  PROVE  RegisterInv'
<1>1. /\ RegisterTypeOK /\ ReplaceInv
      /\ work \in [RegisterRequest -> WorkState] /\ columns \subseteq Column
      /\ labels \in [Item -> Label \cup {NoLabel}] /\ DOMAIN answered \subseteq Entry
  BY DEF RegisterInv, RegisterTypeOK
<1>0. \A c \in work[r].brings : c.by = r
  BY <1>1 DEF ReplaceInv
<1>2. ASSUME NEW offset \in Offsets, LoadRegister(r, offset) PROVE RegisterInv'
  <2> DEFINE headings == {[item |-> c.item, isKey |-> c.isKey, label |-> labels[c.item]] : c \in columns}
             new == [NewWork EXCEPT !.stage = "count", !.offset = offset, !.headings = headings]
  <2>1. headings \subseteq Heading
    BY <1>1 DEF Heading, Column
  <2>2. work' = [work EXCEPT ![r] = new] /\ UNCHANGED <<columns, labels, answered, overlapped, moved>>
    BY <1>2 DEF LoadRegister
  <2> HIDE DEF headings
  <2>3. new \in WorkState /\ new.stage = "count" /\ new.brings = {}
    BY <2>1 DEF NewWork, WorkState
  <2> HIDE DEF new
  <2> QED
    BY <2>2, <2>3, WorkStep
<1>6. CASE CountRows(r)
  <2> DEFINE all == AllVisible(r)
             new == [work[r] EXCEPT !.stage = "list", !.there = DOMAIN answered, !.counted = all]
  <2>1. work' = [work EXCEPT ![r] = new] /\ UNCHANGED <<columns, labels, answered, overlapped, moved>>
    BY <1>1, <1>6 DEF CountRows
  <2>2. all \subseteq Entry
    BY <1>1 DEF AllVisible
  <2> HIDE DEF all
  <2>3. new \in WorkState /\ new.stage = "list" /\ new.brings = work[r].brings
    BY <1>1, <2>2 DEF WorkState
  <2> HIDE DEF new
  <2> QED
    BY <1>0, <2>1, <2>3, WorkStep
<1>3. CASE ListRows(r)
  <2> DEFINE rows == Page(AllVisible(r), work[r].offset)
             new == [work[r] EXCEPT !.stage = "answers", !.rows = rows]
  <2>1. work' = [work EXCEPT ![r] = new] /\ UNCHANGED <<columns, labels, answered, overlapped, moved>>
    BY <1>1, <1>3 DEF ListRows
  <2>2. rows \subseteq Entry
    BY <1>1 DEF Page, AllVisible
  <2> HIDE DEF rows
  <2>3. new \in WorkState /\ new.stage = "answers" /\ new.brings = work[r].brings
    BY <1>1, <2>2 DEF WorkState
  <2> HIDE DEF new
  <2> QED
    BY <1>0, <2>1, <2>3, WorkStep
<1>4. CASE ListAnswers(r)
  <2> DEFINE shown == {s \in work[r].rows \X work[r].headings : Resolves(s[1], s[2])}
             new == [work[r] EXCEPT !.stage = "listed", !.shown = shown]
  <2>1. work' = [work EXCEPT ![r] = new] /\ UNCHANGED <<columns, labels, answered, overlapped, moved>>
    BY <1>1, <1>4 DEF ListAnswers
  <2>2. work[r].rows \subseteq Entry /\ work[r].headings \subseteq Heading
    BY <1>1 DEF WorkState
  <2>3. shown \subseteq Entry \X Heading
    BY <2>2
  <2> HIDE DEF shown
  <2>4. new \in WorkState /\ new.stage = "listed" /\ new.brings = work[r].brings
    BY <1>1, <2>3 DEF WorkState
  <2> HIDE DEF new
  <2> QED
    BY <1>0, <2>1, <2>4, WorkStep
<1>5. CASE RegisterRequestFails(r)
  <2> DEFINE over == [NewWork EXCEPT !.stage = "over"]
  <2>1. over \in WorkState /\ over.stage = "over" /\ over.brings = {}
    BY NewWorkType
  <2>2. work' = [work EXCEPT ![r] = over] /\ UNCHANGED <<columns, labels, answered, overlapped, moved>>
    BY <1>5 DEF RegisterRequestFails
  <2> HIDE DEF over
  <2> QED
    BY <2>1, <2>2, WorkStep
<1> QED
  BY <1>2, <1>3, <1>4, <1>5, <1>6

LEMMA FormSideStep ==
  ASSUME RegisterInv,
         \/ \E e \in Entry, items \in SUBSET Item : SubmissionArrives(e, items)
         \/ \E i \in Item, label \in Label \cup {NoLabel} : ChangeLabel(i, label)
  PROVE  RegisterInv'
<1>1. RegisterTypeOK /\ ReplaceInv /\ MappingsOfOneRequest
  BY DEF RegisterInv
<1>2. ASSUME NEW e \in Entry, NEW items \in SUBSET Item, SubmissionArrives(e, items)
      PROVE  RegisterInv'
  <2>1. /\ columns' = columns /\ labels' = labels /\ work' = work /\ overlapped' = overlapped /\ moved' = moved
        /\ DOMAIN answered' \subseteq Entry /\ \A x \in DOMAIN answered' : answered'[x] \subseteq Item
    BY <1>1, <1>2 DEF SubmissionArrives, RegisterTypeOK
  <2> QED
    BY <1>1, <2>1 DEF RegisterInv, RegisterTypeOK, ReplaceInv, MappingsOfOneRequest, Awaits
<1>3. ASSUME NEW i \in Item, NEW label \in Label \cup {NoLabel}, ChangeLabel(i, label)
      PROVE  RegisterInv'
  <2>1. /\ columns' = columns /\ answered' = answered /\ work' = work /\ overlapped' = overlapped
        /\ labels' \in [Item -> Label \cup {NoLabel}] /\ moved' \subseteq RegisterRequest
    BY <1>1, <1>3 DEF ChangeLabel, RegisterTypeOK
  <2> QED
    BY <1>1, <2>1 DEF RegisterInv, RegisterTypeOK, ReplaceInv, MappingsOfOneRequest, Awaits
<1> QED
  BY <1>2, <1>3

LEMMA RegisterStart == RegisterInit => RegisterInv
<1> SUFFICES ASSUME RegisterInit PROVE RegisterInv
  OBVIOUS
<1>1. columns \subseteq Column /\ \A c \in columns : c.by = First
  BY MappingsType DEF RegisterInit
<1>2. \A r \in RegisterRequest : work[r] = NewWork
  BY DEF RegisterInit
<1>3. RegisterTypeOK
  BY <1>1, NewWorkType DEF RegisterInit, RegisterTypeOK
<1>4. ReplaceInv
  BY <1>2, NewWorkType DEF ReplaceInv, Awaits
<1>5. MappingsOfOneRequest
  BY <1>1 DEF MappingsOfOneRequest
<1> QED
  BY <1>3, <1>4, <1>5 DEF RegisterInv

LEMMA RegisterStep == RegisterInv /\ [RegisterNext]_registerVars => RegisterInv'
<1> SUFFICES ASSUME RegisterInv, [RegisterNext]_registerVars PROVE RegisterInv'
  OBVIOUS
<1>1. CASE UNCHANGED registerVars
  BY <1>1 DEF registerVars, RegisterInv, RegisterTypeOK, ReplaceInv, MappingsOfOneRequest, Awaits
<1> QED
  BY <1>1, ReplaceStep, CreateStep, ListStep, FormSideStep DEF RegisterNext

(* The columns of a register are those of one replacement, or of replacements   *)
(* whose transactions overlapped.                                               *)
THEOREM MappingsAlwaysOfOneRequest == RegisterSpec => []MappingsOfOneRequest
<1>1. RegisterInv => MappingsOfOneRequest
  BY DEF RegisterInv
<1> QED
  BY <1>1, RegisterStart, RegisterStep, PTL DEF RegisterSpec

(* What a listing has counted and found is what is visible, and what it shows   *)
(* is what the columns resolve to, as long as no key was changed.               *)
CountedRight(r) ==
  /\ work[r].there \subseteq DOMAIN answered
  /\ work[r].counted = {e \in work[r].there : Visible(r, e)}

ListedRight(r) ==
  /\ work[r].rows \subseteq AllVisible(r)
  /\ \A e \in work[r].counted :
       /\ work[r].offset <= Place(e, work[r].counted)
       /\ Place(e, AllVisible(r)) < work[r].offset + PageLimit
       => e \in work[r].rows

ShownRight(r) ==
  \A e \in work[r].rows, h \in work[r].headings : <<e, h>> \in work[r].shown <=> Resolves(e, h)

ListingOf(r) ==
  r \notin moved =>
    /\ work[r].stage \in {"list", "answers", "listed"} => CountedRight(r)
    /\ work[r].stage \in {"answers", "listed"} => ListedRight(r)
    /\ work[r].stage = "listed" => ShownRight(r)

ListingInv == \A r \in RegisterRequest : ListingOf(r)

LEMMA ListedFromInv == ListingInv => ListedEntryShows
<1> SUFFICES ASSUME ListingInv, NEW r \in RegisterRequest, Awaits(r, "listed"), r \notin moved
             PROVE  LET keys == {h \in work[r].headings : h.isKey}
                        listed == work[r].rows
                        counted == work[r].counted
                    IN
                    /\ \A e \in listed :
                         \E h \in IF keys = {} THEN work[r].headings ELSE keys : <<e, h>> \in work[r].shown
                    /\ \A e \in work[r].there : (\E h \in keys : Resolves(e, h)) => e \in counted
                    /\ listed \cap work[r].there \subseteq counted
                    /\ \A e \in counted :
                         /\ work[r].offset <= Place(e, counted)
                         /\ Place(e, AllVisible(r)) < work[r].offset + PageLimit
                         => e \in listed
  BY DEF ListedEntryShows
<1> DEFINE keys == {h \in work[r].headings : h.isKey}
<1>1. CountedRight(r) /\ ListedRight(r) /\ ShownRight(r)
  BY DEF ListingInv, ListingOf, Awaits
<1>2. \A e : Visible(r, e) <=> IF keys # {} THEN \E h \in keys : Resolves(e, h)
                                ELSE \E h \in work[r].headings : h.item \in answered[e]
  BY DEF Visible, KeyHeadings, Resolves
<1>3. ASSUME NEW e \in work[r].rows
      PROVE  \E h \in IF keys = {} THEN work[r].headings ELSE keys : <<e, h>> \in work[r].shown
  <2>1. Visible(r, e)
    BY <1>1 DEF ListedRight, AllVisible
  <2>2. PICK h \in IF keys = {} THEN work[r].headings ELSE keys : Resolves(e, h)
    BY <1>2, <2>1 DEF Resolves
  <2> QED
    BY <1>1, <2>2 DEF ShownRight
<1>4. ASSUME NEW e \in work[r].there, NEW h \in keys, Resolves(e, h) PROVE e \in work[r].counted
  BY <1>1, <1>2, <1>4 DEF CountedRight
<1>5. work[r].rows \cap work[r].there \subseteq work[r].counted
  BY <1>1 DEF CountedRight, ListedRight, AllVisible
<1> QED
  BY <1>1, <1>3, <1>4, <1>5 DEF ListedRight

(* What a listing has stays right while submissions arrive.                     *)
LEMMA ListingStays ==
  ASSUME RegisterTypeOK, RegisterTypeOK', NEW r \in RegisterRequest, ListingOf(r),
         work'[r] = work[r], labels' = labels, moved' = moved,
         DOMAIN answered \subseteq DOMAIN answered', \A x \in DOMAIN answered : answered'[x] = answered[x]
  PROVE  ListingOf(r)'
<1>1. \A x \in DOMAIN answered : Visible(r, x)' <=> Visible(r, x)
  BY DEF Visible, KeyHeadings, AnswersLabel
<1>2. \A x \in DOMAIN answered : \A h : Resolves(x, h)' <=> Resolves(x, h)
  BY DEF Resolves, AnswersLabel
<1>3. AllVisible(r) \subseteq AllVisible(r)' /\ IsFiniteSet(AllVisible(r)')
  <2>1. AllVisible(r)' \subseteq Entry
    BY DEF AllVisible, RegisterTypeOK
  <2> QED
    BY <1>1, <2>1, FS_Subset, RegisterConstantsAssumption DEF AllVisible
<1>4. ASSUME CountedRight(r) PROVE CountedRight(r)'
  BY <1>1, <1>4 DEF CountedRight
<1>5. ASSUME ListedRight(r) PROVE ListedRight(r)'
  <2>1. work'[r].rows \subseteq AllVisible(r)'
    BY <1>3, <1>5 DEF ListedRight
  <2>2. ASSUME NEW e \in work[r].counted, work[r].offset <= Place(e, work[r].counted),
               Place(e, AllVisible(r))' < work[r].offset + PageLimit
        PROVE  e \in work[r].rows
    <3>1. /\ Place(e, AllVisible(r)) \in Nat /\ Place(e, AllVisible(r))' \in Nat
          /\ Place(e, AllVisible(r)) <= Place(e, AllVisible(r))'
      <4> DEFINE more == AllVisible(r)'
      <4>1. Place(e, AllVisible(r))' = Place(e, more)
        BY DEF Place
      <4> QED
        BY <1>3, <4>1, PlaceGrows
    <3>2. work[r].offset \in Nat /\ PageLimit \in Nat
      BY OffsetsType, PagesAssumption DEF RegisterTypeOK, WorkState
    <3> QED
      BY <1>5, <2>2, <3>1, <3>2 DEF ListedRight
  <2>3. \A e : Place(e, work[r].counted)' = Place(e, work'[r].counted)
    BY DEF Place
  <2> QED
    BY <2>1, <2>2, <2>3 DEF ListedRight
<1>6. ASSUME ListedRight(r), ShownRight(r) PROVE ShownRight(r)'
  BY <1>2, <1>6 DEF ListedRight, ShownRight, AllVisible
<1> QED
  BY <1>4, <1>5, <1>6 DEF ListingOf

(* A step of a request that has not counted leaves what others have.            *)
LEMMA OtherListing ==
  ASSUME RegisterTypeOK, RegisterTypeOK', ListingInv, NEW r \in RegisterRequest,
         UNCHANGED <<labels, answered, moved>>,
         \A o \in RegisterRequest \ {r} : work'[o] = work[o],
         ListingOf(r)'
  PROVE  ListingInv'
<1> SUFFICES ASSUME NEW o \in RegisterRequest \ {r} PROVE ListingOf(o)'
  BY DEF ListingInv
<1> QED
  BY ListingStays DEF ListingInv

LEMMA CountRowsListing ==
  ASSUME RegisterTypeOK, RegisterTypeOK', ListingInv, NEW r \in RegisterRequest, CountRows(r)
  PROVE  ListingInv'
<1>1. /\ \A o \in RegisterRequest \ {r} : work'[o] = work[o]
      /\ work'[r].stage = "list" /\ work'[r].there = DOMAIN answered
      /\ work'[r].counted = AllVisible(r) /\ work'[r].headings = work[r].headings
      /\ UNCHANGED <<labels, answered, moved>>
  BY DEF CountRows, RegisterTypeOK, WorkState
<1>2. \A e : Visible(r, e)' <=> Visible(r, e)
  BY <1>1 DEF Visible, KeyHeadings, AnswersLabel
<1>3. CountedRight(r)'
  BY <1>1, <1>2 DEF CountedRight, AllVisible
<1>4. ListingOf(r)'
  BY <1>1, <1>3 DEF ListingOf
<1> QED
  BY <1>1, <1>4, OtherListing

(* A counted submission that is not on the page found is before or behind it.   *)
LEMMA ListRowsListing ==
  ASSUME RegisterTypeOK, RegisterTypeOK', ListingInv, NEW r \in RegisterRequest, ListRows(r)
  PROVE  ListingInv'
<1> DEFINE all == AllVisible(r)
<1>1. /\ \A o \in RegisterRequest \ {r} : work'[o] = work[o]
      /\ work'[r].stage = "answers" /\ work'[r].rows = Page(all, work[r].offset)
      /\ work'[r].headings = work[r].headings /\ work'[r].offset = work[r].offset
      /\ work'[r].there = work[r].there /\ work'[r].counted = work[r].counted
      /\ UNCHANGED <<labels, answered, moved>> /\ Awaits(r, "list")
  BY DEF ListRows, RegisterTypeOK, WorkState
<1>2. \A e : Visible(r, e)' <=> Visible(r, e)
  BY <1>1 DEF Visible, KeyHeadings, AnswersLabel
<1>3. AllVisible(r)' = all
  BY <1>1, <1>2 DEF AllVisible
<1>4. ASSUME r \notin moved PROVE CountedRight(r)' /\ ListedRight(r)'
  <2>1. CountedRight(r)
    BY <1>1, <1>4 DEF ListingInv, ListingOf, Awaits
  <2>2. CountedRight(r)'
    BY <1>1, <1>2, <2>1 DEF CountedRight
  <2>3. work[r].counted \subseteq all /\ IsFiniteSet(all)
    BY <2>1, FS_Subset, RegisterConstantsAssumption DEF CountedRight, AllVisible, RegisterTypeOK
  <2>4. work[r].offset \in Nat /\ PageLimit \in Nat
    BY OffsetsType, PagesAssumption DEF RegisterTypeOK, WorkState
  <2>5. ASSUME NEW e \in work[r].counted, work[r].offset <= Place(e, work[r].counted),
               Place(e, all) < work[r].offset + PageLimit
        PROVE  e \in work'[r].rows
    <3>1. /\ Place(e, work[r].counted) \in Nat /\ Place(e, all) \in Nat
          /\ Place(e, work[r].counted) <= Place(e, all)
      BY <2>3, PlaceGrows
    <3> QED
      BY <1>1, <2>3, <2>4, <2>5, <3>1 DEF Page
  <2>6. \A e : Place(e, work[r].counted)' = Place(e, work[r].counted) /\ Place(e, AllVisible(r))' = Place(e, all)
    BY <1>1, <1>3 DEF Place
  <2>7. work'[r].rows \subseteq AllVisible(r)'
    BY <1>1, <1>3 DEF Page
  <2> QED
    BY <1>1, <2>2, <2>5, <2>6, <2>7 DEF ListedRight
<1>5. ListingOf(r)'
  BY <1>1, <1>4 DEF ListingOf
<1> QED
  BY <1>1, <1>5, OtherListing

(* What shows is what was visible. *)
LEMMA ListAnswersListing ==
  ASSUME RegisterTypeOK, RegisterTypeOK', ListingInv, NEW r \in RegisterRequest, ListAnswers(r)
  PROVE  ListingInv'
<1>1. /\ \A o \in RegisterRequest \ {r} : work'[o] = work[o]
      /\ work'[r].stage = "listed" /\ work'[r].rows = work[r].rows
      /\ work'[r].headings = work[r].headings /\ work'[r].offset = work[r].offset
      /\ work'[r].there = work[r].there /\ work'[r].counted = work[r].counted
      /\ work'[r].shown = {s \in work[r].rows \X work[r].headings : Resolves(s[1], s[2])}
      /\ UNCHANGED <<labels, answered, moved>> /\ Awaits(r, "answers")
  BY DEF ListAnswers, RegisterTypeOK, WorkState
<1>2. \A e : Visible(r, e)' <=> Visible(r, e)
  BY <1>1 DEF Visible, KeyHeadings, AnswersLabel
<1>3. \A e, h : Resolves(e, h)' <=> Resolves(e, h)
  BY <1>1 DEF Resolves, AnswersLabel
<1>4. AllVisible(r)' = AllVisible(r)
  BY <1>1, <1>2 DEF AllVisible
<1>5. ShownRight(r)'
  BY <1>1, <1>3 DEF ShownRight
<1>6. ASSUME r \notin moved PROVE CountedRight(r)' /\ ListedRight(r)'
  <2>1. CountedRight(r) /\ ListedRight(r)
    BY <1>1, <1>6 DEF ListingInv, ListingOf, Awaits
  <2>2. \A e : /\ Place(e, work[r].counted)' = Place(e, work[r].counted)
               /\ Place(e, AllVisible(r))' = Place(e, AllVisible(r))
    BY <1>1, <1>4 DEF Place
  <2>3. CountedRight(r)'
    BY <1>1, <1>2, <2>1 DEF CountedRight
  <2>4. ListedRight(r)'
    BY <1>1, <1>4, <2>1, <2>2 DEF ListedRight
  <2> QED
    BY <2>3, <2>4
<1>7. ListingOf(r)'
  BY <1>1, <1>5, <1>6 DEF ListingOf
<1> QED
  BY <1>1, <1>7, OtherListing

LEMMA FormSideListing ==
  ASSUME RegisterTypeOK, RegisterTypeOK', ListingInv,
         \/ \E e \in Entry, items \in SUBSET Item : SubmissionArrives(e, items)
         \/ \E i \in Item, label \in Label \cup {NoLabel} : ChangeLabel(i, label)
  PROVE  ListingInv'
<1>1. ASSUME NEW e \in Entry, NEW items \in SUBSET Item, SubmissionArrives(e, items) PROVE ListingInv'
  <2>1. /\ UNCHANGED <<labels, work, moved>> /\ DOMAIN answered \subseteq DOMAIN answered'
        /\ \A x \in DOMAIN answered : answered'[x] = answered[x]
    BY <1>1 DEF SubmissionArrives
  <2> QED
    BY <2>1, ListingStays DEF ListingInv
<1>2. ASSUME NEW i \in Item, NEW label \in Label \cup {NoLabel}, ChangeLabel(i, label) PROVE ListingInv'
  <2>1. /\ work' = work /\ moved \subseteq moved'
        /\ \A o \in RegisterRequest : work[o].stage \in {"list", "answers", "listed"} => o \in moved'
    BY <1>2 DEF ChangeLabel
  <2> QED
    BY <2>1 DEF ListingInv, ListingOf
<1> QED
  BY <1>1, <1>2

LEMMA ListingStep == RegisterTypeOK /\ RegisterTypeOK' /\ ListingInv /\ [RegisterNext]_registerVars => ListingInv'
<1> SUFFICES ASSUME RegisterTypeOK, RegisterTypeOK', ListingInv, [RegisterNext]_registerVars PROVE ListingInv'
  OBVIOUS
<1>1. CASE UNCHANGED registerVars
  BY <1>1, ListingStays DEF registerVars, ListingInv
<1>2. ASSUME NEW r \in RegisterRequest,
             \/ \E m \in Mappings(r) : CheckQuestions(r, m)
             \/ DestroyBegin(r) \/ DestroyEnd(r) \/ CreateAndCommit(r) \/ RegisterRequestFails(r)
             \/ \E offset \in Offsets : LoadRegister(r, offset)
      PROVE  ListingInv'
  <2> DEFINE moves(new) == /\ work' = [work EXCEPT ![r] = new]
                           /\ new.stage \notin {"list", "answers", "listed"}
                           /\ UNCHANGED <<labels, answered, moved>>
  <2>1. PICK new : moves(new)
    <3>1. \A x, y, z : [NewWork EXCEPT !.stage = "destroy", !.brings = x].stage = "destroy"
                       /\ [NewWork EXCEPT !.stage = "count", !.offset = z, !.headings = y].stage = "count"
                       /\ [NewWork EXCEPT !.stage = "over"].stage = "over"
      BY DEF NewWork
    <3>2. ASSUME NEW m, CheckQuestions(r, m) PROVE \E new : moves(new)
      BY <3>1, <3>2 DEF CheckQuestions
    <3>3. ASSUME NEW offset, LoadRegister(r, offset) PROVE \E new : moves(new)
      BY <3>1, <3>3 DEF LoadRegister
    <3>4. CASE CreateAndCommit(r) \/ RegisterRequestFails(r)
      BY <3>1, <3>4 DEF CreateAndCommit, RegisterRequestFails
    <3>5. CASE DestroyBegin(r) \/ DestroyEnd(r)
      <4>1. work[r] \in WorkState
        BY DEF RegisterTypeOK
      <4>2. \A x : /\ [work[r] EXCEPT !.stage = "wait", !.found = x].stage = "wait"
                   /\ [work[r] EXCEPT !.stage = "create", !.found = x].stage = "create"
        BY <4>1 DEF WorkState
      <4>3. \/ /\ work' = [work EXCEPT ![r] = [work[r] EXCEPT !.stage = "wait", !.found = Destroyed(r)]]
               /\ UNCHANGED <<labels, answered, moved>>
            \/ /\ work' = [work EXCEPT ![r] = [work[r] EXCEPT !.stage = "create",
                                                             !.found = work[r].found \cap columns]]
               /\ UNCHANGED <<labels, answered, moved>>
        BY <3>5 DEF DestroyBegin, DestroyEnd, RegisterTypeOK
      <4> QED
        BY <4>2, <4>3
    <3> QED
      BY <1>2, <3>2, <3>3, <3>4, <3>5
  <2>2. /\ work'[r].stage \notin {"list", "answers", "listed"}
        /\ \A o \in RegisterRequest \ {r} : work'[o] = work[o]
        /\ UNCHANGED <<labels, answered, moved>>
    BY <2>1 DEF RegisterTypeOK
  <2>3. ListingOf(r)'
    BY <2>2 DEF ListingOf
  <2> QED
    BY <2>2, <2>3, OtherListing
<1> QED
  BY <1>1, <1>2, CountRowsListing, ListRowsListing, ListAnswersListing, FormSideListing DEF RegisterNext

(* A listed submission shows a value where it should; the count and the page    *)
(* agree, but for what arrives between them.                                    *)
THEOREM ListedAlwaysShow == RegisterSpec => []ListedEntryShows
<1>1. RegisterInit => ListingInv
  BY NewWorkType DEF RegisterInit, ListingInv, ListingOf
<1>2. RegisterInv => RegisterTypeOK
  BY DEF RegisterInv
<1>3. ListingInv => ListedEntryShows
  BY ListedFromInv
<1> QED
  BY <1>1, <1>2, <1>3, RegisterStart, RegisterStep, ListingStep, PTL DEF RegisterSpec

-----------------------------------------------------------------------------
(* Reports *)

(* The figures a report has are those it should, and so is the page of a        *)
(* history; what it still asks is of its kind.                                  *)
Outside(rep, f) ==
  Place(f, rep.before) < rep.offset \/ Place(f, Written(rep.of)) >= rep.offset + PageLimit

Bracketed(rep) ==
  /\ rep.open \subseteq Queries(rep.kind)
  /\ rep.stage = "done" => rep.open = {}
  /\ rep.kind = "summary" => rep.of = Filler
  /\ rep.before \subseteq Written(rep.of)
  /\ \A query \in (Queries(rep.kind) \cap FigureName) \ rep.open :
       /\ rep.figure[query] \subseteq Written(rep.of)
       /\ \A f \in rep.before :
            f \in rep.figure[query] \/ (rep.kind = "history" /\ query = "rows" /\ Outside(rep, f))
  /\ rep.kind = "summary" /\ "participation" \notin rep.open =>
       /\ rep.submitters \subseteq rep.active
       /\ \A f \in rep.before : FillerOf[f] \in rep.active => FillerOf[f] \in rep.submitters

ReportInv == FormReportTypeOK /\ (report.stage \in {"count", "queries", "done"} => Bracketed(report))

LEMMA QueriesOf ==
  /\ Queries("history") = {"count", "rows"}
  /\ Queries("users") = {"rows"}
  /\ Queries("summary") = {"totals", "groups", "forms", "participation"}
  /\ Queries("export") = {"rows", "columns"}
  /\ \A kind \in ReportKind : Queries(kind) \subseteq UNION {Queries(k) : k \in ReportKind}
<1>1. /\ Queries("history") = {"count", "rows"}
      /\ Queries("users") = {"rows"}
      /\ Queries("summary") = {"totals", "groups", "forms", "participation"}
      /\ Queries("export") = {"rows", "columns"}
  BY DEF Queries
<1> QED
  BY <1>1

LEMMA NewReportType ==
  /\ NewReport \in ReportState /\ NewReport.stage = "new"
  /\ [NewReport EXCEPT !.stage = "over"] \in ReportState
  /\ [NewReport EXCEPT !.stage = "over"].stage = "over"
BY OffsetsType DEF NewReport, ReportState, ReportKind

LEMMA WrittenType ==
  ASSUME FormReportTypeOK, NEW by
  PROVE  /\ Written(by) \subseteq Fills /\ Fills \subseteq Fill /\ (by = Filler => Written(by) = Fills)
         /\ IsFiniteSet(Written(by))
<1>1. Written(by) \subseteq Fills /\ Fills \subseteq Fill /\ (by = Filler => Written(by) = Fills)
  BY FormReportConstantsAssumption DEF FormReportTypeOK, Written, Filler
<1> QED
  BY <1>1, FS_Subset, FormReportConstantsAssumption

LEMMA CrewType == Crew \subseteq Filler /\ \A offset : Page(Crew, offset) \subseteq Filler
BY FormReportConstantsAssumption DEF Filler, Page

LEMMA BeginReportStep ==
  ASSUME ReportInv, NEW kind \in ReportKind, NEW by \in SUBSET Filler, NEW offset \in Offsets,
         BeginReport(kind, by, offset), kind = "summary" => by = Filler
  PROVE  ReportInv'
<1> DEFINE new == [NewReport EXCEPT
                     !.stage = IF kind = "export" THEN "count" ELSE "queries",
                     !.kind = kind, !.open = Queries(kind), !.of = by, !.offset = offset,
                     !.before = Written(by)]
<1>1. report' = new /\ UNCHANGED recordVars
  BY DEF BeginReport
<1>2. Written(by) \subseteq Fill /\ Queries(kind) \subseteq UNION {Queries(k) : k \in ReportKind}
  BY WrittenType, QueriesOf DEF ReportInv
<1>3. new \in ReportState
  BY <1>2 DEF NewReport, ReportState
<1>4. /\ new.stage # "done" /\ new.kind = kind /\ new.open = Queries(kind) /\ new.of = by
      /\ new.before = Written(by)
  BY DEF NewReport
<1> HIDE DEF new
<1>5. Written(by)' = Written(by) /\ Fills' = Fills
  BY <1>1 DEF recordVars, Written, Fills
<1>6. FormReportTypeOK'
  BY <1>1, <1>3 DEF ReportInv, FormReportTypeOK, recordVars, Fills
<1>7. Bracketed(report)'
  BY <1>1, <1>4, <1>5, QueriesOf DEF Bracketed, Written, Fills
<1> QED
  BY <1>6, <1>7 DEF ReportInv

(* A query is answered: what the others gave stays. *)
LEMMA AnswerStep ==
  ASSUME ReportInv, NEW query, NEW new \in ReportState, Answers(query, new),
         new.kind = report.kind, new.of = report.of, new.offset = report.offset, new.before = report.before,
         \A q \in FigureName \ {query} : new.figure[q] = report.figure[q],
         query \in FigureName =>
           /\ new.figure[query] \subseteq Written(report.of)
           /\ \A f \in report.before :
                \/ f \in new.figure[query]
                \/ report.kind = "history" /\ query = "rows" /\ Outside(report, f),
         query # "participation" => new.submitters = report.submitters /\ new.active = report.active,
         query = "participation" =>
           /\ new.submitters \subseteq new.active
           /\ \A f \in report.before : FillerOf[f] \in new.active => FillerOf[f] \in new.submitters
  PROVE  ReportInv'
<1> DEFINE last == [new EXCEPT !.open = report.open \ {query},
                               !.stage = IF report.open = {query} THEN "done" ELSE "queries"]
<1>1. report' = last /\ UNCHANGED recordVars /\ report.stage = "queries"
  BY DEF Answers
<1>2. FormReportTypeOK /\ Bracketed(report)
  BY <1>1 DEF ReportInv
<1>3. report \in ReportState
  BY <1>2 DEF FormReportTypeOK
<1>4. last \in ReportState
  BY <1>3 DEF ReportState
<1>5. /\ last.open = report.open \ {query} /\ (last.stage = "done" => last.open = {})
      /\ last.kind = report.kind /\ last.of = report.of /\ last.before = report.before
      /\ last.offset = report.offset /\ last.figure = new.figure
      /\ last.submitters = new.submitters /\ last.active = new.active
  BY DEF ReportState
<1> HIDE DEF last
<1>6. Written(report.of) = Written(report'.of) /\ Fills' = Fills
  BY <1>1, <1>5 DEF recordVars, Written, Fills
<1>7. FormReportTypeOK'
  BY <1>1, <1>2, <1>4 DEF FormReportTypeOK, recordVars, Fills
<1>8. \A q \in (Queries(last.kind) \cap FigureName) \ last.open :
        /\ last.figure[q] \subseteq Written(report.of)
        /\ \A f \in last.before :
             f \in last.figure[q] \/ (last.kind = "history" /\ q = "rows" /\ Outside(report, f))
  BY <1>2, <1>5 DEF Bracketed
<1>9. last.kind = "summary" /\ "participation" \notin last.open =>
        /\ last.submitters \subseteq last.active
        /\ \A f \in last.before : FillerOf[f] \in last.active => FillerOf[f] \in last.submitters
  BY <1>2, <1>5 DEF Bracketed
<1>10. \A f : Outside(last, f) <=> Outside(report, f)
  BY <1>5 DEF Outside
<1>11. Bracketed(last)
  BY <1>2, <1>5, <1>8, <1>9, <1>10 DEF Bracketed
<1>12. Bracketed(last) => Bracketed(report)'
  BY <1>1 DEF Bracketed, Outside, Written, Fills, recordVars
<1> QED
  BY <1>7, <1>11, <1>12 DEF ReportInv

LEMMA FigureStep ==
  ASSUME ReportInv, NEW query \in FigureName, Figure(query)
  PROVE  ReportInv'
<1> DEFINE rows == IF query = "forms" THEN ByForm ELSE Written(report.of)
           new == [report EXCEPT !.figure[query] = rows]
<1>1. Answers(query, new) /\ report.stage = "queries" /\ query \in report.open
  BY DEF Figure, Answers
<1>2. FormReportTypeOK /\ report \in ReportState /\ Bracketed(report)
  BY <1>1 DEF ReportInv, FormReportTypeOK
<1>3. query = "forms" => report.of = Filler
  <2>1. report.kind \in ReportKind /\ query \in Queries(report.kind)
    BY <1>1, <1>2 DEF ReportState, Bracketed
  <2>2. query = "forms" => report.kind = "summary"
    BY <2>1, QueriesOf DEF ReportKind
  <2> QED
    BY <1>2, <2>2 DEF Bracketed
<1>4. rows = Written(report.of) /\ rows \subseteq Fill
  BY <1>2, <1>3, WrittenType DEF ByForm
<1> HIDE DEF rows
<1>5. report.figure \in [FigureName -> SUBSET Fill]
  BY <1>2 DEF ReportState
<1>6. new = [report EXCEPT !.figure = [report.figure EXCEPT ![query] = rows]]
  BY <1>2 DEF ReportState
<1>7. [report.figure EXCEPT ![query] = rows] \in [FigureName -> SUBSET Fill]
  BY <1>4, <1>5
<1>8. new \in ReportState
  BY <1>2, <1>6, <1>7 DEF ReportState
<1>9. /\ new.kind = report.kind /\ new.of = report.of /\ new.before = report.before /\ new.offset = report.offset
      /\ new.figure = [report.figure EXCEPT ![query] = rows]
      /\ new.submitters = report.submitters /\ new.active = report.active
  BY <1>2, <1>6 DEF ReportState
<1> HIDE DEF new
<1>10. /\ \A q \in FigureName \ {query} : new.figure[q] = report.figure[q]
       /\ new.figure[query] = rows
  BY <1>5, <1>9
<1>11. report.before \subseteq rows /\ query # "participation"
  BY <1>2, <1>4 DEF Bracketed, FigureName
<1> QED
  BY <1>1, <1>4, <1>8, <1>9, <1>10, <1>11, AnswerStep

(* What was there when the report began, and is not on the page it reads, is    *)
(* outside of it.                                                               *)
LEMMA RowsFoundType ==
  ASSUME FormReportTypeOK
  PROVE  /\ RowsFound \subseteq Written(report.of) /\ RowsFound \subseteq Fills /\ RowsFound \subseteq Fill
         /\ \A f \in report.before :
              report.before \subseteq Written(report.of) =>
                f \in RowsFound \/ (report.kind = "history" /\ Outside(report, f))
<1> DEFINE written == Written(report.of)
<1>1. written \subseteq Fills /\ Fills \subseteq Fill /\ IsFiniteSet(written)
  BY WrittenType
<1>2. report.offset \in Nat /\ PageLimit \in Nat
  BY OffsetsType, PagesAssumption DEF FormReportTypeOK, ReportState
<1>3. RowsFound \subseteq written
  BY DEF RowsFound, Page
<1>4. ASSUME NEW f \in report.before, report.before \subseteq written, f \notin RowsFound
      PROVE  report.kind = "history" /\ Outside(report, f)
  <2>1. report.kind = "history" /\ f \notin Page(written, report.offset)
    BY <1>4 DEF RowsFound
  <2>2. /\ Place(f, report.before) \in Nat /\ Place(f, written) \in Nat
        /\ Place(f, report.before) <= Place(f, written)
    BY <1>1, <1>4, PlaceGrows
  <2>3. Place(f, written) < report.offset \/ Place(f, written) >= report.offset + PageLimit
    BY <1>2, <1>4, <2>1, <2>2 DEF Page
  <2> QED
    BY <1>2, <2>1, <2>2, <2>3 DEF Outside
<1> QED
  BY <1>1, <1>3, <1>4

LEMMA ReadRowsStep ==
  ASSUME ReportInv, ReadRows
  PROVE  ReportInv'
<1> DEFINE rows == RowsFound
           loaded == UNION {{<<f, q, prompts[q]>> : q \in {p \in Asking : Loads(f, p)}} : f \in rows}
           new == [report EXCEPT !.figure["rows"] = rows, !.loaded = loaded]
<1>1. Answers("rows", new) /\ report.stage = "queries"
  BY DEF ReadRows, Answers
<1>2. FormReportTypeOK /\ report \in ReportState /\ Bracketed(report)
  BY <1>1 DEF ReportInv, FormReportTypeOK
<1>3. rows \subseteq Fill /\ rows \subseteq Written(report.of)
  BY <1>2, RowsFoundType
<1>4. loaded \subseteq Fill \X Asking \X Prompt
  <2> SUFFICES ASSUME NEW f \in rows, NEW q \in Asking PROVE <<f, q, prompts[q]>> \in Fill \X Asking \X Prompt
    OBVIOUS
  <2> QED
    BY <1>2, <1>3 DEF FormReportTypeOK
<1> HIDE DEF loaded
<1>5. report.figure \in [FigureName -> SUBSET Fill] /\ "rows" \in FigureName
  BY <1>2 DEF ReportState, FigureName
<1>6. new = [report EXCEPT !.figure = [report.figure EXCEPT !["rows"] = rows], !.loaded = loaded]
  BY <1>2 DEF ReportState
<1>7. [report.figure EXCEPT !["rows"] = rows] \in [FigureName -> SUBSET Fill]
  BY <1>3, <1>5
<1>8. new \in ReportState
  BY <1>2, <1>4, <1>6, <1>7 DEF ReportState
<1>9. /\ new.kind = report.kind /\ new.of = report.of /\ new.before = report.before /\ new.offset = report.offset
      /\ new.figure = [report.figure EXCEPT !["rows"] = rows]
      /\ new.submitters = report.submitters /\ new.active = report.active
  BY <1>2, <1>6 DEF ReportState
<1> HIDE DEF new
<1>10. /\ \A q \in FigureName \ {"rows"} : new.figure[q] = report.figure[q]
       /\ new.figure["rows"] = rows
  BY <1>5, <1>9
<1>11. \A f \in report.before : f \in rows \/ (report.kind = "history" /\ Outside(report, f))
  BY <1>2, RowsFoundType DEF Bracketed
<1> QED
  BY <1>1, <1>3, <1>8, <1>9, <1>10, <1>11, AnswerStep

(* Those with a submission are counted among the users. *)
LEMMA ParticipationStep ==
  ASSUME ReportInv, Participation \/ ReadColumns
  PROVE  ReportInv'
<1>1. report.stage = "queries"
  BY DEF Participation, ReadColumns, Answers
<1>2. FormReportTypeOK /\ report \in ReportState /\ Bracketed(report)
  BY <1>1 DEF ReportInv, FormReportTypeOK
<1>3. CASE Participation
  <2> DEFINE new == [report EXCEPT !.active = roster \cap Crew, !.submitters = Submitters]
  <2>1. /\ roster \subseteq Filler /\ Submitters \subseteq roster \cap Crew
        /\ \A f \in report.before : FillerOf[f] \in roster \cap Crew => FillerOf[f] \in Submitters
    BY <1>2 DEF FormReportTypeOK, Submitters, Bracketed, Written
  <2>2. new \in ReportState
    BY <1>2, <2>1 DEF ReportState
  <2>3. /\ new.kind = report.kind /\ new.of = report.of /\ new.before = report.before
        /\ new.offset = report.offset /\ new.figure = report.figure
        /\ new.submitters = Submitters /\ new.active = roster \cap Crew
    BY <1>2, <2>1 DEF ReportState
  <2>4. Answers("participation", new)
    BY <1>3 DEF Participation
  <2> HIDE DEF new
  <2> QED
    BY <2>1, <2>2, <2>3, <2>4, AnswerStep DEF FigureName
<1>4. CASE ReadColumns
  <2> DEFINE new == [report EXCEPT !.columns = ColumnPrompts]
  <2>1. ColumnPrompts \subseteq Prompt
    BY <1>2 DEF FormReportTypeOK, ColumnPrompts
  <2>2. new \in ReportState
    BY <1>2, <2>1 DEF ReportState
  <2>3. /\ new.kind = report.kind /\ new.of = report.of /\ new.before = report.before
        /\ new.offset = report.offset /\ new.figure = report.figure
        /\ new.submitters = report.submitters /\ new.active = report.active
    BY <1>2 DEF ReportState
  <2>4. Answers("columns", new)
    BY <1>4 DEF ReadColumns
  <2> HIDE DEF new
  <2> QED
    BY <2>2, <2>3, <2>4, AnswerStep DEF FigureName
<1> QED
  BY <1>3, <1>4

LEMMA ExportStep ==
  ASSUME ReportInv, CountExport \/ ReportFails
  PROVE  ReportInv'
<1> DEFINE over == [NewReport EXCEPT !.stage = "over"]
           go == [report EXCEPT !.stage = "queries"]
<1>1. /\ report' = over \/ (report' = go /\ report.stage = "count")
      /\ UNCHANGED recordVars
  BY DEF CountExport, ReportFails
<1>2. FormReportTypeOK /\ report \in ReportState
  BY DEF ReportInv, FormReportTypeOK
<1>3. over \in ReportState /\ over.stage = "over"
  BY NewReportType
<1>4. /\ go \in ReportState /\ go.stage = "queries" /\ go.open = report.open /\ go.kind = report.kind
      /\ go.of = report.of /\ go.before = report.before /\ go.figure = report.figure /\ go.offset = report.offset
      /\ go.submitters = report.submitters /\ go.active = report.active
  BY <1>2 DEF ReportState
<1> HIDE DEF over, go
<1>5. Fills' = Fills
  BY <1>1 DEF recordVars, Fills
<1>6. FormReportTypeOK'
  BY <1>1, <1>2, <1>3, <1>4 DEF FormReportTypeOK, recordVars, Fills
<1>7. CASE report' = over
  BY <1>3, <1>6, <1>7 DEF ReportInv
<1>8. CASE report' = go /\ report.stage = "count"
  <2>1. Bracketed(report)
    BY <1>8 DEF ReportInv
  <2>2. Bracketed(report)'
    BY <1>4, <1>5, <1>8, <2>1 DEF Bracketed, Outside, Written
  <2> QED
    BY <1>6, <2>2 DEF ReportInv
<1> QED
  BY <1>1, <1>7, <1>8

(* What others do adds submissions at most. *)
LEMMA MeanwhileStep ==
  ASSUME ReportInv,
         \/ \E f \in Fill, answers \in SUBSET Asking : SubmissionCommits(f, answers)
         \/ \E q \in Asking : QuestionDeleted(q) \/ \E p \in Prompt : PromptChanged(q, p)
         \/ \E s \in Sheet : FormPublished(s)
         \/ \E u \in Filler : StatusChanged(u)
  PROVE  ReportInv'
<1>1. FormReportTypeOK /\ report \in ReportState
  BY DEF ReportInv, FormReportTypeOK
<1>2. /\ report' = report \/ \E qs \in SUBSET Asking : report' = [report EXCEPT !.touched = @ \cup qs]
      /\ Fills \subseteq Fills'
      /\ Fills' \subseteq Fill /\ filled' \in [Fills' -> SUBSET Asking]
      /\ inUse' \subseteq Asking /\ prompts' \in [Asking -> Prompt] /\ current' \in Sheet
      /\ roster' \subseteq Filler
  <2>1. ASSUME NEW f \in Fill, NEW answers \in SUBSET Asking, SubmissionCommits(f, answers)
        PROVE  /\ UNCHANGED <<inUse, prompts, current, roster, report>>
               /\ Fills' = Fills \cup {f} /\ filled' \in [Fills' -> SUBSET Asking]
    BY <1>1, <2>1 DEF SubmissionCommits, FormReportTypeOK, Fills
  <2>2. ASSUME NEW f \in Fill, NEW answers \in SUBSET Asking, SubmissionCommits(f, answers) PROVE <1>2!:
    BY <1>1, <2>1, <2>2 DEF FormReportTypeOK
  <2>3. ASSUME NEW q \in Asking, QuestionDeleted(q) PROVE <1>2!:
    BY <1>1, <2>3 DEF QuestionDeleted, Touch, FormReportTypeOK, Fills
  <2>4. ASSUME NEW q \in Asking, NEW p \in Prompt, PromptChanged(q, p) PROVE <1>2!:
    BY <1>1, <2>4 DEF PromptChanged, Touch, FormReportTypeOK, Fills
  <2>5. ASSUME NEW s \in Sheet, FormPublished(s) PROVE <1>2!:
    BY <1>1, <2>5 DEF FormPublished, Touch, FormReportTypeOK, Fills
  <2>6. ASSUME NEW u \in Filler, StatusChanged(u) PROVE <1>2!:
    BY <1>1, <2>6 DEF StatusChanged, FormReportTypeOK, Fills
  <2> QED
    BY <2>2, <2>3, <2>4, <2>5, <2>6
<1>3. /\ report' \in ReportState /\ report'.stage = report.stage /\ report'.open = report.open
      /\ report'.kind = report.kind /\ report'.of = report.of /\ report'.before = report.before
      /\ report'.figure = report.figure /\ report'.offset = report.offset
      /\ report'.submitters = report.submitters /\ report'.active = report.active
  BY <1>1, <1>2 DEF ReportState
<1>4. FormReportTypeOK'
  BY <1>2, <1>3 DEF FormReportTypeOK
<1>5. Written(report.of) \subseteq Written(report.of)'
  BY <1>2, <1>3 DEF Written
<1>7. \A f : Outside(report, f) => Outside(report, f)'
  <2> DEFINE later == Written(report.of)'
  <2> SUFFICES ASSUME NEW f, Outside(report, f) PROVE Outside(report, f)'
    OBVIOUS
  <2>1. IsFiniteSet(later)
    BY <1>2, FS_Subset, FormReportConstantsAssumption DEF Written
  <2>2. /\ Place(f, Written(report.of)) \in Nat /\ Place(f, later) \in Nat
        /\ Place(f, Written(report.of)) <= Place(f, later)
    BY <1>5, <2>1, PlaceGrows
  <2>3. report.offset \in Nat /\ PageLimit \in Nat
    BY <1>1, OffsetsType, PagesAssumption DEF ReportState
  <2>4. /\ Place(f, Written(report.of))' = Place(f, later)
        /\ Place(f, report.before)' = Place(f, report.before)
    BY <1>3 DEF Place
  <2> QED
    BY <1>3, <2>2, <2>3, <2>4 DEF Outside
<1>6. Bracketed(report) => Bracketed(report)'
  BY <1>3, <1>5, <1>7 DEF Bracketed
<1> QED
  BY <1>3, <1>4, <1>6 DEF ReportInv

LEMMA ReportStart == FormReportInit => ReportInv
<1> SUFFICES ASSUME FormReportInit PROVE ReportInv
  OBVIOUS
<1>1. Fills = {} /\ filled \in [Fills -> SUBSET Asking]
  BY DEF FormReportInit, Fills
<1>2. FormReportTypeOK
  BY <1>1, NewReportType DEF FormReportInit, FormReportTypeOK
<1> QED
  BY <1>2, NewReportType DEF FormReportInit, ReportInv

LEMMA ReportStep == ReportInv /\ [FormReportNext]_formReportVars => ReportInv'
<1> SUFFICES ASSUME ReportInv, [FormReportNext]_formReportVars PROVE ReportInv'
  OBVIOUS
<1>1. CASE UNCHANGED formReportVars
  <2>1. Fills' = Fills
    BY <1>1 DEF formReportVars, Fills
  <2> QED
    BY <1>1, <2>1 DEF formReportVars, ReportInv, FormReportTypeOK, Bracketed, Outside, Written
<1>2. CASE BeginSummary \/ BeginExport
  BY <1>2, CrewType, OffsetsType, BeginReportStep DEF BeginSummary, BeginExport, ReportKind
<1>3. ASSUME NEW u \in Filler, NEW offset \in Offsets, BeginHistory(u, offset) PROVE ReportInv'
  BY <1>3, BeginReportStep DEF BeginHistory, ReportKind
<1>4. ASSUME NEW offset \in Offsets, BeginUsers(offset) PROVE ReportInv'
  BY <1>4, CrewType, OffsetsType, BeginReportStep DEF BeginUsers, ReportKind
<1> QED
  BY <1>1, <1>2, <1>3, <1>4, FigureStep, ReadRowsStep, ParticipationStep, ExportStep, MeanwhileStep
     DEF FormReportNext

(* The figures of a report differ at most by what was submitted while it ran,   *)
(* and the page of a history lacks nothing but what is outside of it.           *)
THEOREM ReportsAlwaysBracketed == FormReportSpec => []ReportsBracketed
<1>1. ReportInv => ReportsBracketed
  <2> SUFFICES ASSUME ReportInv, report.stage = "done" PROVE ReportsBracketed
    BY DEF ReportsBracketed
  <2>1. Bracketed(report) /\ report.open = {}
    BY DEF ReportInv, Bracketed
  <2> QED
    BY <2>1 DEF Bracketed, Outside, ReportsBracketed
<1> QED
  BY <1>1, ReportStart, ReportStep, PTL DEF FormReportSpec

(* The rows an export has have the answers that matter, and the sheet their     *)
(* columns.                                                                     *)
RowsShow(rep) ==
  \A f \in rep.figure["rows"] : \A q \in filled[f] \ rep.touched :
    q \in inUse => <<f, q, prompts[q]>> \in rep.loaded

ColumnsShow(rep) == \A q \in Asking \ rep.touched : Columned(q) => prompts[q] \in rep.columns

Exporting(rep) ==
  /\ rep.open \subseteq {"rows", "columns"}
  /\ "rows" \notin rep.open => RowsShow(rep)
  /\ "columns" \notin rep.open => ColumnsShow(rep)
  /\ Cardinality(rep.before) <= ExportCap

ExportInv ==
  /\ IsFiniteSet(Fills)
  /\ report.stage = "count" => report.open = {"rows", "columns"}
  /\ report.stage \in {"queries", "done"} /\ report.kind = "export" => Exporting(report)

LEMMA BeginShows ==
  ASSUME ExportInv, NEW kind \in ReportKind, NEW by, NEW offset, BeginReport(kind, by, offset)
  PROVE  ExportInv'
<1> DEFINE new == [NewReport EXCEPT
                     !.stage = IF kind = "export" THEN "count" ELSE "queries",
                     !.kind = kind, !.open = Queries(kind), !.of = by, !.offset = offset,
                     !.before = Written(by)]
<1>1. report' = new /\ Fills' = Fills
  BY DEF BeginReport, recordVars, Fills
<1>2. /\ new.kind = kind /\ new.open = Queries(kind)
      /\ new.stage = IF kind = "export" THEN "count" ELSE "queries"
  BY DEF NewReport
<1> HIDE DEF new
<1> QED
  BY <1>1, <1>2, QueriesOf DEF ExportInv

(* The limit is judged on what there is when it is counted. *)
LEMMA CountShows ==
  ASSUME ReportInv, ExportInv, CountExport
  PROVE  ExportInv'
<1> DEFINE over == [NewReport EXCEPT !.stage = "over"]
           go == [report EXCEPT !.stage = "queries"]
<1>1. /\ report' = over \/ (report' = go /\ ~Refused(Written(report.of)))
      /\ Fills' = Fills /\ report.stage = "count"
  BY DEF CountExport, recordVars, Fills
<1>2. over.stage = "over"
  BY NewReportType
<1>3. /\ FormReportTypeOK /\ report \in ReportState
      /\ report.before \subseteq Written(report.of) /\ IsFiniteSet(Written(report.of))
  BY <1>1, WrittenType DEF ReportInv, FormReportTypeOK, Bracketed
<1>4. go.open = report.open /\ go.kind = report.kind /\ go.before = report.before /\ go.stage = "queries"
  BY <1>3 DEF ReportState
<1> HIDE DEF over, go
<1>5. CASE report' = over
  BY <1>1, <1>2, <1>5 DEF ExportInv
<1>6. CASE report' = go /\ ~Refused(Written(report.of))
  <2>1. /\ Cardinality(report.before) <= Cardinality(Written(report.of))
        /\ Cardinality(report.before) \in Nat /\ Cardinality(Written(report.of)) \in Nat
    BY <1>3, FS_Subset, FS_CardinalityType
  <2>2. Cardinality(Written(report.of)) <= ExportCap
    BY <1>6, <2>1, FormReportConstantsAssumption DEF Refused
  <2>3. Cardinality(report.before) <= ExportCap
    BY <2>1, <2>2, FormReportConstantsAssumption
  <2>4. report.open = {"rows", "columns"}
    BY <1>1 DEF ExportInv
  <2> QED
    BY <1>1, <1>4, <1>6, <2>3, <2>4 DEF ExportInv, Exporting
<1> QED
  BY <1>1, <1>5, <1>6

(* A query of an export is answered: the other one stays. *)
LEMMA AnswerShows ==
  ASSUME ReportInv, ExportInv, NEW query, NEW new \in ReportState, Answers(query, new),
         new.kind = report.kind, new.before = report.before, new.touched = report.touched,
         query # "rows" => new.figure["rows"] = report.figure["rows"] /\ new.loaded = report.loaded,
         query # "columns" => new.columns = report.columns,
         report.kind = "export" =>
           /\ query = "rows" => RowsShow(new)
           /\ query = "columns" => ColumnsShow(new)
  PROVE  ExportInv'
<1> DEFINE last == [new EXCEPT !.open = report.open \ {query},
                               !.stage = IF report.open = {query} THEN "done" ELSE "queries"]
<1>1. report' = last /\ UNCHANGED recordVars /\ report.stage = "queries" /\ query \in report.open
  BY DEF Answers
<1>2. /\ last.open = report.open \ {query} /\ last.stage \in {"queries", "done"} /\ last.kind = report.kind
      /\ last.before = report.before /\ last.touched = report.touched /\ last.figure = new.figure
      /\ last.loaded = new.loaded /\ last.columns = new.columns
  BY DEF ReportState
<1> HIDE DEF last
<1>3. Fills' = Fills
  BY <1>1 DEF recordVars, Fills
<1>4. ASSUME report.kind = "export" PROVE Exporting(last)
  <2>1. Exporting(report)
    BY <1>1, <1>4 DEF ExportInv
  <2>2. "rows" \notin last.open => RowsShow(last)
    BY <1>2, <1>4, <2>1 DEF Exporting, RowsShow
  <2>3. "columns" \notin last.open => ColumnsShow(last)
    BY <1>2, <1>4, <2>1 DEF Exporting, ColumnsShow
  <2> QED
    BY <1>2, <2>1, <2>2, <2>3 DEF Exporting
<1>5. Exporting(last) => Exporting(report)'
  BY <1>1 DEF Exporting, RowsShow, ColumnsShow, Columned, recordVars
<1> QED
  BY <1>1, <1>2, <1>3, <1>4, <1>5 DEF ExportInv

(* Those of other reports *)
LEMMA OtherShows ==
  ASSUME ReportInv, ExportInv, NEW query, query \notin {"rows", "columns"}, NEW new \in ReportState,
         Answers(query, new), new.kind = report.kind
  PROVE  ExportInv'
<1>1. report.stage = "queries" /\ query \in report.open /\ Fills' = Fills
  BY DEF Answers, recordVars, Fills
<1>2. report'.kind = report.kind /\ report'.stage \in {"queries", "done"}
  BY DEF Answers, ReportState
<1>3. report.kind # "export"
  BY <1>1 DEF ExportInv, Exporting
<1> QED
  BY <1>1, <1>2, <1>3 DEF ExportInv

LEMMA FigureShows ==
  ASSUME ReportInv, ExportInv, (\E query \in FigureName : Figure(query)) \/ Participation
  PROVE  ExportInv'
<1>1. FormReportTypeOK /\ report \in ReportState
  BY DEF ReportInv, FormReportTypeOK
<1>2. ASSUME NEW query \in FigureName, Figure(query) PROVE ExportInv'
  <2> DEFINE rows == IF query = "forms" THEN ByForm ELSE Written(report.of)
             new == [report EXCEPT !.figure[query] = rows]
  <2>1. Answers(query, new) /\ query \notin {"rows", "columns"}
    BY <1>2 DEF Figure, FigureName
  <2>2. rows \subseteq Fill
    BY <1>1, WrittenType DEF ByForm
  <2> HIDE DEF rows
  <2>3. new \in ReportState /\ new.kind = report.kind
    BY <1>1, <2>2 DEF ReportState
  <2> HIDE DEF new
  <2> QED
    BY <2>1, <2>3, OtherShows
<1>3. CASE Participation
  <2> DEFINE new == [report EXCEPT !.active = roster \cap Crew, !.submitters = Submitters]
  <2>1. Answers("participation", new)
    BY <1>3 DEF Participation
  <2>2. roster \subseteq Filler /\ Submitters \subseteq roster
    BY <1>1 DEF FormReportTypeOK, Submitters
  <2>3. new \in ReportState /\ new.kind = report.kind
    BY <1>1, <2>2 DEF ReportState
  <2> HIDE DEF new
  <2> QED
    BY <2>1, <2>3, OtherShows
<1> QED
  BY <1>2, <1>3

LEMMA ReadShows ==
  ASSUME ReportInv, ExportInv, ReadRows \/ ReadColumns
  PROVE  ExportInv'
<1>1. FormReportTypeOK /\ report \in ReportState
  BY DEF ReportInv, FormReportTypeOK
<1>2. CASE ReadRows
  <2> DEFINE rows == RowsFound
             loaded == UNION {{<<f, q, prompts[q]>> : q \in {p \in Asking : Loads(f, p)}} : f \in rows}
             new == [report EXCEPT !.figure["rows"] = rows, !.loaded = loaded]
  <2>1. rows \subseteq Fills /\ rows \subseteq Fill
    BY <1>1, RowsFoundType
  <2>2. loaded \in SUBSET (Fill \X Asking \X Prompt)
    BY <1>1, <2>1 DEF FormReportTypeOK
  <2>3. \A f \in rows : \A q \in filled[f] : q \in inUse => <<f, q, prompts[q]>> \in loaded
    BY <1>1, <2>1 DEF FormReportTypeOK, Loads
  <2>4. Answers("rows", new)
    BY <1>2 DEF ReadRows
  <2> HIDE DEF rows, loaded
  <2>5. /\ new \in ReportState /\ new.kind = report.kind /\ new.before = report.before
        /\ new.touched = report.touched /\ new.columns = report.columns
        /\ new.figure["rows"] = rows /\ new.loaded = loaded
    BY <1>1, <2>1, <2>2 DEF ReportState, FigureName
  <2> HIDE DEF new
  <2>6. RowsShow(new)
    BY <2>3, <2>5 DEF RowsShow
  <2> QED
    BY <2>4, <2>5, <2>6, AnswerShows
<1>3. CASE ReadColumns
  <2> DEFINE new == [report EXCEPT !.columns = ColumnPrompts]
  <2>1. ColumnPrompts \subseteq Prompt /\ \A q \in Asking : Columned(q) => prompts[q] \in ColumnPrompts
    BY <1>1 DEF FormReportTypeOK, ColumnPrompts
  <2>2. Answers("columns", new)
    BY <1>3 DEF ReadColumns
  <2>3. /\ new \in ReportState /\ new.kind = report.kind /\ new.before = report.before
        /\ new.touched = report.touched /\ new.columns = ColumnPrompts
        /\ new.figure = report.figure /\ new.loaded = report.loaded
    BY <1>1, <2>1 DEF ReportState
  <2> HIDE DEF new
  <2>4. ColumnsShow(new)
    BY <2>1, <2>3 DEF ColumnsShow
  <2> QED
    BY <2>2, <2>3, <2>4, AnswerShows
<1> QED
  BY <1>2, <1>3

(* What others do changes what a report shows of the questions it touches.      *)
Meanwhile(qs) ==
  /\ report.stage # "new" => report' = [report EXCEPT !.touched = report.touched \cup qs]
  /\ report.stage = "new" => report' = report
  /\ \A q \in Asking \ qs :
       /\ prompts'[q] = prompts[q]
       /\ q \in inUse' => q \in inUse
       /\ q \in inUse' /\ SheetOf[q] = current' => q \in inUse /\ SheetOf[q] = current
  /\ IsFiniteSet(Fills')
  /\ Fills \subseteq Fills'
  /\ \A f \in Fills : filled'[f] = filled[f]

LEMMA MeanwhileTouches ==
  ASSUME ReportInv, ExportInv,
         \/ \E f \in Fill, answers \in SUBSET Asking : SubmissionCommits(f, answers)
         \/ \E q \in Asking : QuestionDeleted(q) \/ \E p \in Prompt : PromptChanged(q, p)
         \/ \E s \in Sheet : FormPublished(s)
         \/ \E u \in Filler : StatusChanged(u)
  PROVE  \E qs \in SUBSET Asking : Meanwhile(qs)
<1>1. FormReportTypeOK /\ report \in ReportState /\ IsFiniteSet(Fills)
  BY DEF ReportInv, FormReportTypeOK, ExportInv
<1>2. report = [report EXCEPT !.touched = report.touched \cup {}]
  BY <1>1 DEF ReportState
<1>3. ASSUME NEW f \in Fill, NEW answers \in SUBSET Asking, SubmissionCommits(f, answers)
      PROVE  Meanwhile({})
  <2>1. Fills' = Fills \cup {f} /\ \A g \in Fills : filled'[g] = filled[g]
    BY <1>3 DEF SubmissionCommits, Fills
  <2>2. IsFiniteSet(Fills')
    BY <1>1, <2>1, FS_AddElement
  <2> QED
    BY <1>2, <1>3, <2>1, <2>2 DEF SubmissionCommits, Meanwhile
<1>4. ASSUME NEW q \in Asking, QuestionDeleted(q) PROVE Meanwhile({q})
  <2>1. Fills' = Fills
    BY <1>4 DEF QuestionDeleted, Fills
  <2> QED
    BY <1>1, <1>4, <2>1 DEF QuestionDeleted, Touch, Meanwhile
<1>5. ASSUME NEW q \in Asking, NEW p \in Prompt, PromptChanged(q, p) PROVE Meanwhile({q})
  <2>1. Fills' = Fills /\ \A x \in Asking \ {q} : prompts'[x] = prompts[x]
    BY <1>1, <1>5 DEF PromptChanged, Fills, FormReportTypeOK
  <2> QED
    BY <1>1, <1>5, <2>1 DEF PromptChanged, Touch, Meanwhile
<1>6. ASSUME NEW s \in Sheet, FormPublished(s) PROVE Meanwhile({q \in Asking : SheetOf[q] \in {s, current}})
  <2>1. Fills' = Fills
    BY <1>6 DEF FormPublished, Fills
  <2> QED
    BY <1>1, <1>6, <2>1 DEF FormPublished, Touch, Meanwhile
<1>7. ASSUME NEW u \in Filler, StatusChanged(u) PROVE Meanwhile({})
  <2>1. Fills' = Fills
    BY <1>7 DEF StatusChanged, Fills
  <2> QED
    BY <1>1, <1>2, <1>7, <2>1 DEF StatusChanged, Meanwhile
<1> QED
  BY <1>3, <1>4, <1>5, <1>6, <1>7

LEMMA MeanwhileShows ==
  ASSUME ReportInv, ExportInv, NEW qs \in SUBSET Asking, Meanwhile(qs)
  PROVE  ExportInv'
<1>1. FormReportTypeOK /\ report \in ReportState
  BY DEF ReportInv, FormReportTypeOK
<1>2. /\ \A q \in Asking \ qs :
           /\ prompts'[q] = prompts[q]
           /\ q \in inUse' => q \in inUse
           /\ q \in inUse' /\ SheetOf[q] = current' => q \in inUse /\ SheetOf[q] = current
      /\ IsFiniteSet(Fills') /\ \A f \in Fills : filled'[f] = filled[f]
  BY DEF Meanwhile
<1>3. /\ report'.stage = report.stage /\ report'.open = report.open /\ report'.kind = report.kind
      /\ report'.before = report.before /\ report'.figure = report.figure
      /\ report'.loaded = report.loaded /\ report'.columns = report.columns
      /\ report.stage # "new" => report'.touched = report.touched \cup qs
  BY <1>1 DEF ReportState, Meanwhile
<1>4. ASSUME report.stage \in {"queries", "done"}, report.kind = "export"
      PROVE  Exporting(report)'
  <2>1. Exporting(report) /\ Bracketed(report)
    BY <1>4 DEF ExportInv, ReportInv
  <2>2. report'.touched = report.touched \cup qs
    BY <1>3, <1>4
  <2>3. "rows" \notin report.open => report.figure["rows"] \subseteq Fills
    BY <1>1, <1>4, <2>1, WrittenType, QueriesOf DEF Bracketed, FigureName
  <2>4. "rows" \notin report'.open => RowsShow(report)'
    <3> SUFFICES ASSUME "rows" \notin report.open, NEW f \in report.figure["rows"],
                        NEW q \in filled'[f] \ report'.touched, q \in inUse'
                 PROVE  <<f, q, prompts'[q]>> \in report.loaded
      BY <1>3 DEF RowsShow
    <3>1. f \in Fills /\ filled'[f] = filled[f] /\ q \in Asking \ qs
      BY <1>1, <1>2, <2>2, <2>3 DEF FormReportTypeOK
    <3>2. q \in inUse /\ prompts'[q] = prompts[q] /\ q \in filled[f] \ report.touched
      BY <1>2, <2>2, <3>1
    <3> QED
      BY <2>1, <3>2 DEF Exporting, RowsShow
  <2>5. "columns" \notin report'.open => ColumnsShow(report)'
    <3> SUFFICES ASSUME "columns" \notin report.open, NEW q \in Asking \ report'.touched,
                        q \in inUse', SheetOf[q] = current'
                 PROVE  prompts'[q] \in report.columns
      BY <1>3 DEF ColumnsShow, Columned
    <3>1. q \in Asking \ qs /\ q \in Asking \ report.touched
      BY <2>2
    <3>2. Columned(q) /\ prompts'[q] = prompts[q]
      BY <1>2, <3>1 DEF Columned
    <3> QED
      BY <2>1, <3>1, <3>2 DEF Exporting, ColumnsShow
  <2> QED
    BY <1>3, <2>1, <2>4, <2>5 DEF Exporting
<1> QED
  BY <1>2, <1>3, <1>4 DEF ExportInv

LEMMA ShowsStep == ReportInv /\ ExportInv /\ [FormReportNext]_formReportVars => ExportInv'
<1> SUFFICES ASSUME ReportInv, ExportInv, [FormReportNext]_formReportVars PROVE ExportInv'
  OBVIOUS
<1>1. CASE UNCHANGED formReportVars
  BY <1>1 DEF formReportVars, ExportInv, Exporting, RowsShow, ColumnsShow, Columned, Fills
<1>2. CASE BeginSummary \/ BeginExport
  BY <1>2, BeginShows DEF BeginSummary, BeginExport, ReportKind
<1>3. ASSUME NEW u \in Filler, NEW offset \in Offsets, BeginHistory(u, offset) PROVE ExportInv'
  BY <1>3, BeginShows DEF BeginHistory, ReportKind
<1>5. ASSUME NEW offset \in Offsets, BeginUsers(offset) PROVE ExportInv'
  BY <1>5, BeginShows DEF BeginUsers, ReportKind
<1>4. CASE ReportFails
  <2>1. report'.stage = "over" /\ Fills' = Fills
    BY <1>4, NewReportType DEF ReportFails, recordVars, Fills
  <2> QED
    BY <2>1 DEF ExportInv
<1> QED
  BY <1>1, <1>2, <1>3, <1>4, <1>5, CountShows, FigureShows, ReadShows, MeanwhileTouches, MeanwhileShows
     DEF FormReportNext

(* An export shows what it lists, and lists no more than the limit. *)
THEOREM ExportsAlwaysShow == FormReportSpec => []ExportShows
<1>1. FormReportInit => ExportInv
  <2> SUFFICES ASSUME FormReportInit PROVE ExportInv
    OBVIOUS
  <2>1. Fills = {} /\ report.stage = "new"
    BY NewReportType DEF FormReportInit, Fills
  <2> QED
    BY <2>1, FS_EmptySet DEF ExportInv
<1>2. ReportInv /\ ExportInv => ExportShows
  <2> SUFFICES ASSUME ReportInv, ExportInv, report.stage = "done", report.kind = "export" PROVE ExportShows
    BY DEF ExportShows
  <2>1. FormReportTypeOK /\ Bracketed(report) /\ Exporting(report)
    BY DEF ReportInv, ExportInv
  <2>2. report.open = {} /\ report.before \subseteq Fills /\ report.figure["rows"] \subseteq Fills
    BY <2>1, WrittenType, QueriesOf DEF Bracketed, FigureName
  <2>3. ASSUME NEW f \in report.figure["rows"], NEW q \in filled[f] \ report.touched, Columned(q)
        PROVE  prompts[q] \in report.columns /\ Cell(f, prompts[q]) # {}
    <3>1. q \in Asking
      BY <2>1, <2>2 DEF FormReportTypeOK
    <3> QED
      BY <2>1, <2>2, <2>3, <3>1 DEF Exporting, RowsShow, ColumnsShow, Columned, Cell
  <2>4. Cardinality(report.figure["rows"] \cap report.before) <= ExportCap
    <3>1. IsFiniteSet(report.before)
      BY <2>2, FS_Subset DEF ExportInv
    <3>2. /\ Cardinality(report.figure["rows"] \cap report.before) <= Cardinality(report.before)
          /\ Cardinality(report.figure["rows"] \cap report.before) \in Nat
          /\ Cardinality(report.before) \in Nat
      BY <3>1, FS_Subset, FS_CardinalityType
    <3> QED
      BY <2>1, <3>2, FormReportConstantsAssumption DEF Exporting
  <2> QED
    BY <2>3, <2>4 DEF ExportShows
<1> QED
  BY <1>1, <1>2, ReportStart, ReportStep, ShowsStep, PTL DEF FormReportSpec

-----------------------------------------------------------------------------
(* Reports of the fleet *)

FleetState ==
  [stage : {"new", "queries", "done", "over"},
   kind : {"none", "summary", "sla", "divisions", "lobby", "device", "incidents", "autoheal", "health",
           "lobbyHealth", "logs"},
   left : Seq(FleetQuery),
   devices : SUBSET FleetDevice,
   scope : SUBSET FleetLobby,
   divisions : SUBSET FleetDivision,
   offset : Nat,
   figure : [FleetQuery -> SUBSET (LogEntry \cup FleetDevice \cup HealCommand)],
   begun : SUBSET (LogEntry \cup HealCommand),
   seen : SUBSET (LogEntry \cup HealCommand),
   moved : SUBSET FleetDevice]

FleetTypeOK ==
  /\ placed \in [FleetDevice -> FleetLobby \cup {Gone}]
  /\ logPlace \in [LogEntry -> FleetLobby \cup {Gone}]
  /\ heals \in [HealCommand -> {"absent", "waiting", "settled"}]
  /\ fleetReport \in FleetState

(* The rows of the page have been read. *)
RowsRead == fleetReport.left \in {<<"incidents">>, <<"healCount">>, <<>>}

(* Where a row that no page has listed is at least *)
Bound == IF RowsRead THEN fleetReport.offset + PageLimit ELSE fleetReport.offset

PlanFollowed ==
  /\ fleetReport.stage = "queries" <=> fleetReport.left # <<>>
  /\ fleetReport.kind = "incidents" =>
       fleetReport.left \in {<<"rows", "incidents">>, <<"incidents">>, <<>>}
  /\ fleetReport.kind = "autoheal" =>
       fleetReport.left \in {<<"commands", "healRows", "healCount">>, <<"healRows", "healCount">>,
                             <<"healCount">>, <<>>}

(* What was there at the beginning is still there, and is behind the pages read *)
(* unless it was on one of them; then the total goes beyond them.               *)
NoneSkipped ==
  /\ fleetReport.begun \subseteq Listing
  /\ \A x \in fleetReport.begun \ fleetReport.seen : Bound <= Place(x, Listing)
  /\ fleetReport.left = <<>> /\ ~(fleetReport.begun \subseteq fleetReport.seen) =>
       Total \in Nat /\ fleetReport.offset + PageLimit < Total

PagesInv ==
  fleetReport.stage \in {"queries", "done"} =>
    /\ PlanFollowed
    /\ HasPages /\ ~FirstRead /\ Steady => NoneSkipped

LEMMA NewFleetType ==
  /\ NewFleetReport \in FleetState /\ NewFleetReport.stage = "new"
  /\ [NewFleetReport EXCEPT !.stage = "over"] \in FleetState
  /\ [NewFleetReport EXCEPT !.stage = "over"].stage = "over"
<1>1. <<>> \in Seq(FleetQuery)
  OBVIOUS
<1>2. NewFleetReport \in FleetState
  BY <1>1 DEF NewFleetReport, FleetState
<1>3. NewFleetReport.stage = "new"
  BY DEF NewFleetReport
<1>4. [NewFleetReport EXCEPT !.stage = "over"] \in FleetState
  BY <1>2 DEF FleetState
<1>5. [NewFleetReport EXCEPT !.stage = "over"].stage = "over"
  BY <1>2 DEF FleetState
<1> QED
  BY <1>2, <1>3, <1>4, <1>5

(* The plans that matter, and what is left of them *)
LEMMA PlansDiffer ==
  /\ <<"rows", "incidents">> # <<"incidents">> /\ <<"rows", "incidents">> # <<>>
  /\ <<"incidents">> # <<>>
  /\ Head(<<"rows", "incidents">>) = "rows" /\ Tail(<<"rows", "incidents">>) = <<"incidents">>
  /\ Head(<<"incidents">>) = "incidents" /\ Tail(<<"incidents">>) = <<>>
  /\ <<"commands", "healRows", "healCount">> # <<>>
  /\ <<"commands", "healRows", "healCount">> \notin {<<"healRows", "healCount">>, <<"healCount">>}
  /\ <<"healRows", "healCount">> # <<>> /\ <<"healRows", "healCount">> # <<"healCount">>
  /\ <<"healCount">> # <<>>
  /\ Head(<<"commands", "healRows", "healCount">>) = "commands"
  /\ Tail(<<"commands", "healRows", "healCount">>) = <<"healRows", "healCount">>
  /\ Head(<<"healRows", "healCount">>) = "healRows"
  /\ Tail(<<"healRows", "healCount">>) = <<"healCount">>
  /\ Head(<<"healCount">>) = "healCount" /\ Tail(<<"healCount">>) = <<>>
<1>1. <<"rows", "incidents">> # <<"incidents">> /\ <<"rows", "incidents">> # <<>> /\ <<"incidents">> # <<>>
  OBVIOUS
<1>2. <<"commands", "healRows", "healCount">> # <<>> /\ <<"healRows", "healCount">> # <<>> /\ <<"healCount">> # <<>>
  OBVIOUS
<1>3. /\ <<"commands", "healRows", "healCount">> \notin {<<"healRows", "healCount">>, <<"healCount">>}
      /\ <<"healRows", "healCount">> # <<"healCount">>
  OBVIOUS
<1>4. /\ Head(<<"rows", "incidents">>) = "rows" /\ Tail(<<"rows", "incidents">>) = <<"incidents">>
      /\ Head(<<"incidents">>) = "incidents" /\ Tail(<<"incidents">>) = <<>>
  OBVIOUS
<1>5. /\ Head(<<"commands", "healRows", "healCount">>) = "commands"
      /\ Head(<<"healRows", "healCount">>) = "healRows"
      /\ Head(<<"healCount">>) = "healCount"
  OBVIOUS
<1>6. Tail(<<"commands", "healRows", "healCount">>) = <<"healRows", "healCount">>
  OBVIOUS
<1>7. Tail(<<"healRows", "healCount">>) = <<"healCount">> /\ Tail(<<"healCount">>) = <<>>
  OBVIOUS
<1> QED
  BY <1>1, <1>2, <1>3, <1>4, <1>5, <1>6, <1>7

LEMMA PlanType ==
  ASSUME NEW kind
  PROVE  /\ kind \in {"summary", "sla", "divisions", "lobby", "device", "incidents", "autoheal", "health",
                      "lobbyHealth", "logs"} => Plan(kind) \in Seq(FleetQuery) /\ Plan(kind) # <<>>
         /\ Plan("incidents") = <<"rows", "incidents">>
         /\ Plan("autoheal") = <<"commands", "healRows", "healCount">>
<1>1. Plan("incidents") = <<"rows", "incidents">> /\ Plan("autoheal") = <<"commands", "healRows", "healCount">>
  BY DEF Plan
<1>2. Plan("sla") \in Seq(FleetQuery) /\ Plan("lobby") \in Seq(FleetQuery) /\ Plan("device") \in Seq(FleetQuery)
  BY DEF Plan, FleetQuery
<1>3. /\ Plan("divisions") \in Seq(FleetQuery) /\ Plan("health") \in Seq(FleetQuery)
      /\ Plan("lobbyHealth") \in Seq(FleetQuery) /\ Plan("logs") \in Seq(FleetQuery)
  BY DEF Plan, FleetQuery
<1>4. Plan("summary") \in Seq(FleetQuery)
  BY DEF Plan, FleetQuery
<1>5. Plan("incidents") \in Seq(FleetQuery) /\ Plan("autoheal") \in Seq(FleetQuery)
  BY DEF Plan, FleetQuery
<1>6. /\ Plan("summary") # <<>> /\ Plan("sla") # <<>> /\ Plan("divisions") # <<>> /\ Plan("lobby") # <<>>
      /\ Plan("device") # <<>> /\ Plan("health") # <<>> /\ Plan("lobbyHealth") # <<>>
      /\ Plan("logs") # <<>>
      /\ Plan("incidents") # <<>> /\ Plan("autoheal") # <<>>
  BY DEF Plan
<1> QED
  BY <1>1, <1>2, <1>3, <1>4, <1>5, <1>6

LEMMA BeginFleetStep ==
  ASSUME FleetTypeOK,
         NEW kind \in {"summary", "sla", "divisions", "lobby", "device", "incidents", "autoheal", "health",
                       "lobbyHealth", "logs"},
         NEW devices \in SUBSET FleetDevice, NEW divisions \in SUBSET FleetDivision, NEW scope \in SUBSET FleetLobby,
         BeginFleet(kind, devices, divisions, scope)
  PROVE  FleetTypeOK' /\ PagesInv'
<1> DEFINE new == [NewFleetReport EXCEPT !.stage = "queries", !.kind = kind, !.left = Plan(kind),
                                         !.devices = devices, !.divisions = divisions, !.scope = scope]
           over == [NewFleetReport EXCEPT !.stage = "over"]
<1>1. (fleetReport' = over \/ fleetReport' = new) /\ UNCHANGED fleetRecords
  BY DEF BeginFleet
<1>2. over \in FleetState /\ over.stage = "over"
  BY NewFleetType
<1>3. Plan(kind) \in Seq(FleetQuery) /\ Plan(kind) # <<>>
  BY PlanType
<1>4. /\ new \in FleetState /\ new.stage = "queries" /\ new.kind = kind /\ new.left = Plan(kind)
      /\ new.offset = 0
  BY <1>3 DEF NewFleetReport, FleetState
<1> HIDE DEF new, over
<1>5. FleetTypeOK'
  BY <1>1, <1>2, <1>4 DEF FleetTypeOK, fleetRecords
<1>6. CASE fleetReport' = over
  BY <1>2, <1>5, <1>6 DEF PagesInv
<1>7. CASE fleetReport' = new
  <2>1. PlanFollowed'
    BY <1>3, <1>4, <1>7, PlanType DEF PlanFollowed
  <2>2. FirstRead'
    BY <1>4, <1>7 DEF FirstRead
  <2> QED
    BY <1>5, <2>1, <2>2 DEF PagesInv
<1> QED
  BY <1>1, <1>6, <1>7

LEMMA BeginsStep ==
  ASSUME FleetTypeOK, NEW role, NEW own \in FleetDivision,
         \/ \E kind \in {"summary", "sla", "divisions", "incidents", "autoheal"} :
              \E wanted \in FleetDivision \cup {"any"} : BeginScoped(kind, role, own, wanted)
         \/ BeginHealth(role, own)
         \/ \E kind \in {"lobby", "lobbyHealth"}, l \in FleetLobby : BeginLobby(kind, role, own, l)
         \/ \E kind \in {"device", "logs"}, d \in FleetDevice : BeginDevice(kind, role, own, d)
  PROVE  FleetTypeOK' /\ PagesInv'
<1>1. ASSUME NEW divisions PROVE LobbiesOf(divisions) \subseteq FleetLobby /\ ScopeLobbies(role, divisions) \subseteq FleetLobby
  BY DEF LobbiesOf, ScopeLobbies
<1>2. ASSUME NEW wanted \in FleetDivision \cup {"any"} PROVE ScopeDivisions(role, own, wanted) \subseteq FleetDivision
  BY DEF ScopeDivisions
<1>3. ASSUME NEW kind \in {"summary", "sla", "divisions", "incidents", "autoheal"},
             NEW wanted \in FleetDivision \cup {"any"}, BeginScoped(kind, role, own, wanted)
      PROVE  FleetTypeOK' /\ PagesInv'
  BY <1>1, <1>2, <1>3, BeginFleetStep DEF BeginScoped
<1>4. CASE BeginHealth(role, own)
  BY <1>1, <1>4, BeginFleetStep DEF BeginHealth
<1>5. ASSUME NEW kind \in {"lobby", "lobbyHealth"}, NEW l \in FleetLobby, BeginLobby(kind, role, own, l)
      PROVE  FleetTypeOK' /\ PagesInv'
  <2>1. {LobbyDivision[l]} \cap ScopeDivisions(role, own, "any") \in SUBSET FleetDivision
    BY <1>2
  <2> QED
    BY <1>5, <2>1, BeginFleetStep DEF BeginLobby
<1>6. ASSUME NEW kind \in {"device", "logs"}, NEW d \in FleetDevice, BeginDevice(kind, role, own, d)
      PROVE  FleetTypeOK' /\ PagesInv'
  <2>1. {LobbyDivision[placed[d]]} \cap ScopeDivisions(role, own, "any") \in SUBSET FleetDivision
    BY <1>2
  <2> QED
    BY <1>6, <2>1, BeginFleetStep DEF BeginDevice
<1> QED
  BY <1>3, <1>4, <1>5, <1>6

LEMMA ListingFinite ==
  /\ IsFiniteSet(Listing)
  /\ Listing \subseteq DOMAIN Rank
  /\ Listing \subseteq LogEntry \cup HealCommand
  /\ fleetReport.kind = "incidents" =>
       Listing = {x \in LogEntry : logPlace[x] \in fleetReport.scope /\ LoggedOf[x] \in fleetReport.devices}
  /\ fleetReport.kind = "autoheal" =>
       Listing = {x \in HealCommand : /\ HealedOf[x] \in fleetReport.devices
                                      /\ placed[HealedOf[x]] \in fleetReport.scope
                                      /\ heals[x] \in {"waiting", "settled"}}
<1>1. fleetReport.kind = "incidents" =>
        Listing = {x \in LogEntry : logPlace[x] \in fleetReport.scope /\ LoggedOf[x] \in fleetReport.devices}
  BY DEF Listing, LogsIn
<1>2. fleetReport.kind = "autoheal" =>
        Listing = {x \in HealCommand : /\ HealedOf[x] \in fleetReport.devices
                                       /\ placed[HealedOf[x]] \in fleetReport.scope
                                       /\ heals[x] \in {"waiting", "settled"}}
  BY DEF Listing, HealsIn, DevicesIn
<1>3. Listing \subseteq LogEntry \/ Listing \subseteq HealCommand
  BY DEF Listing, LogsIn, HealsIn
<1>4. IsFiniteSet(Listing)
  BY <1>3, FS_Subset, FleetConstantsAssumption
<1> QED
  BY <1>1, <1>2, <1>3, <1>4, FleetConstantsAssumption

(* A query of a report is answered. *)
LEMMA AskStep ==
  ASSUME FleetTypeOK, PagesInv, FleetAsk
  PROVE  FleetTypeOK' /\ PagesInv'
<1> DEFINE query == Head(fleetReport.left)
           answer == FleetAnswer(query)
           first == HasPages /\ FirstRead
           rows == HasPages /\ query \in {"rows", "healRows"}
           new == [fleetReport EXCEPT !.left = Tail(@), !.figure[query] = answer,
                                      !.begun = IF first THEN Listing ELSE @,
                                      !.seen = IF rows THEN @ \cup answer ELSE @,
                                      !.stage = IF Len(fleetReport.left) = 1 THEN "done" ELSE @]
<1>1. fleetReport' = new /\ UNCHANGED fleetRecords /\ fleetReport.stage = "queries"
  BY DEF FleetAsk
<1>2. fleetReport \in FleetState
  BY DEF FleetTypeOK
<1>3. /\ fleetReport.left # <<>> /\ query \in FleetQuery /\ Tail(fleetReport.left) \in Seq(FleetQuery)
      /\ Len(fleetReport.left) = 1 <=> Tail(fleetReport.left) = <<>>
  <2>1. fleetReport.left \in Seq(FleetQuery) /\ fleetReport.left # <<>>
    BY <1>1, <1>2 DEF FleetState, PagesInv, PlanFollowed
  <2>2. /\ query \in FleetQuery /\ Tail(fleetReport.left) \in Seq(FleetQuery)
        /\ Len(Tail(fleetReport.left)) = Len(fleetReport.left) - 1
    BY <2>1, HeadTailProperties
  <2>3. Len(fleetReport.left) = 1 <=> Len(Tail(fleetReport.left)) = 0
    BY <2>1, <2>2, LenProperties
  <2>4. Len(Tail(fleetReport.left)) = 0 <=> Tail(fleetReport.left) = <<>>
    BY <2>2, EmptySeq
  <2> QED
    BY <2>1, <2>2, <2>3, <2>4
<1>4. answer \subseteq LogEntry \cup FleetDevice \cup HealCommand
  BY <1>2, <1>3 DEF FleetState, FleetAnswer, FleetQuery, LogsIn, CountedLogs, HealsIn, DevicesIn, Page
<1>5. /\ query \in {"rows", "healRows"} => answer \subseteq LogEntry \cup HealCommand
      /\ fleetReport.kind = "incidents" /\ query = "rows" => answer = Page(Listing, fleetReport.offset)
      /\ fleetReport.kind = "incidents" /\ query = "incidents" => answer = Listing
      /\ fleetReport.kind = "autoheal" /\ query = "healRows" => answer = Page(Listing, fleetReport.offset)
      /\ fleetReport.kind = "autoheal" /\ query = "healCount" => answer = Listing
  BY DEF FleetAnswer, Listing, LogsIn, CountedLogs, HealsIn, Page
<1>6. Listing \subseteq LogEntry \cup HealCommand /\ IsFiniteSet(Listing) /\ Listing \subseteq DOMAIN Rank
  BY ListingFinite
<1> HIDE DEF answer
<1>7. /\ new \in FleetState
      /\ new.kind = fleetReport.kind /\ new.left = Tail(fleetReport.left)
      /\ new.devices = fleetReport.devices /\ new.offset = fleetReport.offset
      /\ new.scope = fleetReport.scope /\ new.moved = fleetReport.moved
      /\ new.stage = IF Len(fleetReport.left) = 1 THEN "done" ELSE "queries"
      /\ new.figure = [fleetReport.figure EXCEPT ![query] = answer]
      /\ new.begun = IF first THEN Listing ELSE fleetReport.begun
      /\ new.seen = IF rows THEN fleetReport.seen \cup answer ELSE fleetReport.seen
  BY <1>1, <1>2, <1>3, <1>4, <1>5, <1>6 DEF FleetState
<1> HIDE DEF new
<1>8. FleetTypeOK'
  BY <1>1, <1>7 DEF FleetTypeOK, fleetRecords
<1>9. PlanFollowed
  BY <1>1 DEF PagesInv
<1>10. PlanFollowed'
  <2>1. fleetReport'.stage = "queries" <=> fleetReport'.left # <<>>
    BY <1>1, <1>3, <1>7
  <2>2. fleetReport.kind = "incidents" => Tail(fleetReport.left) \in {<<"incidents">>, <<>>}
    BY <1>3, <1>9, PlansDiffer DEF PlanFollowed
  <2>3. fleetReport.kind = "autoheal" =>
          Tail(fleetReport.left) \in {<<"healRows", "healCount">>, <<"healCount">>, <<>>}
    BY <1>3, <1>9, PlansDiffer DEF PlanFollowed
  <2> QED
    BY <1>1, <1>7, <2>1, <2>2, <2>3 DEF PlanFollowed
<1>11. /\ Listing' = Listing /\ HasPages' = HasPages
       /\ fleetReport'.offset = fleetReport.offset /\ fleetReport'.kind = fleetReport.kind
  BY <1>1, <1>7 DEF Listing, LogsIn, HealsIn, DevicesIn, HasPages, fleetRecords
<1>12. Steady' => Steady
  BY <1>1, <1>7 DEF Steady, fleetRecords
<1>13. ASSUME HasPages, Steady, first => fleetReport.left = Plan(fleetReport.kind) /\ fleetReport.offset = 0
       PROVE  NoneSkipped'
  <2>1. /\ fleetReport.offset \in Nat /\ PageLimit \in Nat /\ fleetReport.kind \in {"incidents", "autoheal"}
        /\ \A x : Place(x, Listing) \in Nat
    BY <1>2, <1>6, <1>13, PagesAssumption, PlaceGrows DEF FleetState, HasPages
  <2>2. ~first => NoneSkipped
    BY <1>1, <1>12, <1>13 DEF PagesInv
(* Before the rows are read, and after *)
  <2>3. ASSUME NEW x \in fleetReport'.begun \ fleetReport'.seen
        PROVE  /\ x \in Listing
               /\ ~RowsRead => fleetReport.offset <= Place(x, Listing)
               /\ RowsRead => fleetReport.offset + PageLimit <= Place(x, Listing)
    <3>1. CASE first
      <4>1. ~RowsRead /\ fleetReport.offset = 0 /\ x \in Listing
        BY <1>1, <1>7, <1>13, <2>1, <2>3, <3>1, PlanType, PlansDiffer DEF RowsRead
      <4> QED
        BY <2>1, <4>1
    <3>2. CASE ~first
      <4>1. x \in fleetReport.begun \ fleetReport.seen
        BY <1>1, <1>7, <2>3, <3>2
      <4> QED
        BY <2>2, <3>2, <4>1 DEF NoneSkipped, Bound
    <3> QED
      BY <3>1, <3>2
  <2>4. rows <=> RowsRead' /\ ~RowsRead
    BY <1>1, <1>3, <1>7, <1>9, <1>13, <2>1, PlansDiffer DEF PlanFollowed, RowsRead
  <2>5. RowsRead => RowsRead'
    BY <1>1, <1>3, <1>7, <1>9, <1>13, <2>1, PlansDiffer DEF PlanFollowed, RowsRead
  <2>6. ASSUME NEW x \in fleetReport'.begun \ fleetReport'.seen
        PROVE  Bound' <= Place(x, Listing)
    <3>1. CASE rows
      <4>1. answer = Page(Listing, fleetReport.offset)
        BY <1>5, <1>9, <1>13, <2>1, <3>1, <1>3, PlansDiffer DEF PlanFollowed
      <4>2. x \notin Page(Listing, fleetReport.offset)
        BY <1>1, <1>7, <2>6, <3>1, <4>1
      <4>3. x \in Listing /\ fleetReport.offset <= Place(x, Listing)
        BY <2>3, <2>4, <2>6, <3>1
      <4>4. fleetReport.offset + PageLimit <= Place(x, Listing)
        BY <1>6, <2>1, <4>2, <4>3, NotOnPage
      <4> QED
        BY <1>11, <2>4, <3>1, <4>4 DEF Bound
    <3>2. CASE ~rows
      <4>1. RowsRead' <=> RowsRead
        BY <2>4, <2>5, <3>2
      <4>2. CASE RowsRead
        BY <1>11, <2>3, <2>6, <4>1, <4>2 DEF Bound
      <4>3. CASE ~RowsRead
        BY <1>11, <2>3, <2>6, <4>1, <4>3 DEF Bound
      <4> QED
        BY <4>2, <4>3
    <3> QED
      BY <3>1, <3>2
  <2>7. fleetReport'.begun \subseteq Listing
    BY <1>1, <1>7, <2>2 DEF NoneSkipped
  <2>8. ASSUME fleetReport'.left = <<>>, NEW x \in fleetReport'.begun \ fleetReport'.seen
        PROVE  Total' \in Nat /\ fleetReport.offset + PageLimit < Total'
    <3>1. query = IF fleetReport.kind = "incidents" THEN "incidents" ELSE "healCount"
      BY <1>1, <1>3, <1>7, <1>9, <2>1, <2>8, PlansDiffer DEF PlanFollowed
    <3>2. Total' = Cardinality(Listing)
      <4>1. answer = Listing
        BY <1>5, <2>1, <3>1
      <4>2. fleetReport'.figure[query] = answer
        BY <1>1, <1>2, <1>3, <1>7 DEF FleetState
      <4> QED
        BY <1>11, <3>1, <4>1, <4>2 DEF Total
    <3>3. Bound' = fleetReport.offset + PageLimit
      BY <1>11, <2>8 DEF Bound, RowsRead
    <3>4. x \in Listing
      BY <2>3, <2>8
    <3>5. Place(x, Listing) < Cardinality(Listing) /\ Cardinality(Listing) \in Nat
      BY <1>6, <3>4, PlaceInside
    <3>6. Bound' <= Place(x, Listing)
      BY <2>6, <2>8
    <3> QED
      BY <2>1, <3>2, <3>3, <3>5, <3>6
  <2>9. fleetReport'.left = <<>> /\ ~(fleetReport'.begun \subseteq fleetReport'.seen) =>
          Total' \in Nat /\ fleetReport'.offset + PageLimit < Total'
    BY <1>11, <2>8
  <2> QED
    BY <1>11, <2>6, <2>7, <2>9 DEF NoneSkipped
<1>14. first => fleetReport.left = Plan(fleetReport.kind) /\ fleetReport.offset = 0
  BY DEF FirstRead
<1> QED
  BY <1>8, <1>10, <1>11, <1>12, <1>13, <1>14 DEF PagesInv

LEMMA TurnStep ==
  ASSUME FleetTypeOK, PagesInv, TurnPage
  PROVE  FleetTypeOK' /\ PagesInv'
<1> DEFINE plan == Plan(fleetReport.kind)
           offset == fleetReport.offset + PageLimit
           new == [fleetReport EXCEPT !.stage = "queries", !.left = plan, !.offset = offset]
<1>1. fleetReport' = new /\ UNCHANGED fleetRecords /\ fleetReport.stage = "done" /\ HasPages
  BY DEF TurnPage
<1>2. fleetReport \in FleetState /\ PageLimit \in Nat \ {0}
  BY PagesAssumption DEF FleetTypeOK
<1>3. plan \in Seq(FleetQuery) /\ plan # <<>>
  BY <1>1, PlanType DEF HasPages
<1>10. offset \in Nat
  BY <1>2 DEF FleetState
<1> HIDE DEF plan, offset
<1>4. /\ new \in FleetState
      /\ new.kind = fleetReport.kind /\ new.left = plan
      /\ new.devices = fleetReport.devices /\ new.offset = offset
      /\ new.scope = fleetReport.scope /\ new.moved = fleetReport.moved /\ new.stage = "queries"
      /\ new.begun = fleetReport.begun /\ new.seen = fleetReport.seen
  BY <1>2, <1>3, <1>10 DEF FleetState
<1> HIDE DEF new
<1> USE DEF plan, offset
<1>5. FleetTypeOK'
  BY <1>1, <1>4 DEF FleetTypeOK, fleetRecords
<1>6. PlanFollowed'
  BY <1>1, <1>3, <1>4, PlanType DEF PlanFollowed, HasPages
<1>7. fleetReport.left = <<>> /\ ~FirstRead
  BY <1>1, <1>3 DEF PagesInv, PlanFollowed, FirstRead
<1>8. Listing' = Listing /\ (Steady' => Steady)
  BY <1>1, <1>4 DEF Listing, LogsIn, HealsIn, DevicesIn, Steady, fleetRecords
<1>9. ASSUME Steady' PROVE NoneSkipped'
  <2>1. NoneSkipped
    BY <1>1, <1>7, <1>8, <1>9 DEF PagesInv
  <2>2. Bound = fleetReport.offset + PageLimit
    BY <1>7 DEF Bound, RowsRead
  <2>3. ~RowsRead'
    BY <1>1, <1>4, PlanType, PlansDiffer DEF RowsRead, HasPages
  <2>4. Bound' = fleetReport.offset + PageLimit
    BY <1>1, <1>4, <2>3 DEF Bound
  <2> QED
    BY <1>1, <1>3, <1>4, <1>8, <2>1, <2>2, <2>4 DEF NoneSkipped
<1> QED
  BY <1>5, <1>6, <1>9 DEF PagesInv

(* What others do: what is listed stays, unless a device was moved or deleted. *)
FleetMeanwhile ==
  /\ \E changed \in SUBSET FleetDevice :
       fleetReport' = [fleetReport EXCEPT !.moved = fleetReport.moved \cup changed]
  /\ placed' \in [FleetDevice -> FleetLobby \cup {Gone}]
  /\ logPlace' \in [LogEntry -> FleetLobby \cup {Gone}]
  /\ heals' \in [HealCommand -> {"absent", "waiting", "settled"}]
  /\ \A d \in FleetDevice : placed[d] = Gone => placed'[d] = Gone
  /\ \/ UNCHANGED placed
     \/ \E d \in fleetReport'.moved : placed'[d] = Gone
     \/ UNCHANGED logPlace /\ fleetReport'.moved # {}
  /\ \A x \in LogEntry :
       logPlace'[x] = logPlace[x] \/ logPlace[x] = Gone \/ \E d \in fleetReport'.moved : placed'[d] = Gone
  /\ \A x \in HealCommand :
       heals[x] \in {"waiting", "settled"} => heals'[x] \in {"waiting", "settled"} \/ fleetReport'.moved # {}

LEMMA FleetMeanwhileIs ==
  ASSUME FleetTypeOK,
         \/ \E x \in LogEntry : LogWritten(x)
         \/ \E x \in HealCommand : HealQueued(x) \/ HealSettled(x)
         \/ \E d \in FleetDevice : DeviceDeleted(d) \/ \E l \in FleetLobby : DeviceMoved(d, l)
  PROVE  FleetMeanwhile
<1>1. /\ placed \in [FleetDevice -> FleetLobby \cup {Gone}]
      /\ logPlace \in [LogEntry -> FleetLobby \cup {Gone}]
      /\ heals \in [HealCommand -> {"absent", "waiting", "settled"}]
      /\ LoggedOf \in [LogEntry -> FleetDevice] /\ HealedOf \in [HealCommand -> FleetDevice]
      /\ Gone \notin FleetLobby
  BY FleetConstantsAssumption DEF FleetTypeOK
<1>2. fleetReport = [fleetReport EXCEPT !.moved = fleetReport.moved \cup {}]
  BY DEF FleetTypeOK, FleetState
<1>3. ASSUME NEW x \in LogEntry, LogWritten(x) PROVE FleetMeanwhile
  BY <1>1, <1>2, <1>3 DEF LogWritten, FleetMeanwhile
<1>4. ASSUME NEW x \in HealCommand, HealQueued(x) \/ HealSettled(x) PROVE FleetMeanwhile
  BY <1>1, <1>2, <1>4 DEF HealQueued, HealSettled, FleetMeanwhile
<1>5. ASSUME NEW d \in FleetDevice, fleetReport' = [fleetReport EXCEPT !.moved = @ \cup {d}]
      PROVE  d \in fleetReport'.moved /\ \E changed \in SUBSET FleetDevice :
               fleetReport' = [fleetReport EXCEPT !.moved = fleetReport.moved \cup changed]
  BY <1>5 DEF FleetTypeOK, FleetState
<1>6. ASSUME NEW d \in FleetDevice, DeviceDeleted(d) PROVE FleetMeanwhile
  <2>1. placed'[d] = Gone /\ d \in fleetReport'.moved
    BY <1>1, <1>5, <1>6 DEF DeviceDeleted
  <2> QED
    BY <1>1, <1>5, <1>6, <2>1 DEF DeviceDeleted, FleetMeanwhile
<1>7. ASSUME NEW d \in FleetDevice, NEW l \in FleetLobby, DeviceMoved(d, l) PROVE FleetMeanwhile
  <2>1. d \in fleetReport'.moved
    BY <1>5, <1>7 DEF DeviceMoved
  <2> QED
    BY <1>1, <1>5, <1>7, <2>1 DEF DeviceMoved, FleetMeanwhile
<1> QED
  BY <1>3, <1>4, <1>6, <1>7

LEMMA FleetChangeStep ==
  ASSUME FleetTypeOK, PagesInv, FleetMeanwhile
  PROVE  FleetTypeOK' /\ PagesInv'
<1> PICK changed \in SUBSET FleetDevice :
      fleetReport' = [fleetReport EXCEPT !.moved = fleetReport.moved \cup changed]
  BY DEF FleetMeanwhile
<1>1. fleetReport \in FleetState
  BY DEF FleetTypeOK
<1>2. /\ fleetReport' \in FleetState /\ fleetReport'.stage = fleetReport.stage /\ fleetReport'.kind = fleetReport.kind
      /\ fleetReport'.left = fleetReport.left /\ fleetReport'.devices = fleetReport.devices
      /\ fleetReport'.scope = fleetReport.scope /\ fleetReport'.figure = fleetReport.figure
      /\ fleetReport'.offset = fleetReport.offset /\ fleetReport'.begun = fleetReport.begun
      /\ fleetReport'.seen = fleetReport.seen
      /\ fleetReport'.moved = fleetReport.moved \cup changed
  BY <1>1 DEF FleetState
<1>3. FleetTypeOK'
  BY <1>2 DEF FleetTypeOK, FleetMeanwhile
<1>4. /\ PlanFollowed' <=> PlanFollowed
      /\ HasPages' <=> HasPages
      /\ FirstRead' <=> FirstRead
      /\ Bound' = Bound /\ Total' = Total
  BY <1>2 DEF PlanFollowed, HasPages, FirstRead, Bound, RowsRead, Total
<1>5. Gone \notin fleetReport.scope
  BY <1>1, FleetConstantsAssumption DEF FleetState
<1>6. ASSUME HasPages, Steady' PROVE Steady /\ Listing \subseteq Listing'
  <2>1. CASE fleetReport.kind = "incidents"
    <3>1. ~\E d \in fleetReport'.moved : placed'[d] = Gone
      BY <1>2, <1>6, <2>1 DEF Steady
    <3>2. Steady
      BY <1>1, <1>2, <2>1, <3>1 DEF Steady, FleetMeanwhile, FleetState
    <3>3. \A x \in LogEntry : logPlace[x] \in fleetReport.scope => logPlace'[x] = logPlace[x]
      BY <1>5, <3>1 DEF FleetMeanwhile
    <3> QED
      BY <1>2, <2>1, <3>2, <3>3, ListingFinite DEF Listing, LogsIn
  <2>2. CASE fleetReport.kind = "autoheal"
    <3>1. fleetReport'.moved = {}
      BY <1>2, <1>6, <2>2 DEF Steady
    <3>2. Steady
      BY <1>2, <2>2, <3>1 DEF Steady
    <3>3. UNCHANGED placed
      BY <3>1 DEF FleetMeanwhile
    <3>4. \A x \in HealCommand : heals[x] \in {"waiting", "settled"} => heals'[x] \in {"waiting", "settled"}
      BY <3>1 DEF FleetMeanwhile
    <3> QED
      BY <1>2, <2>2, <3>2, <3>3, <3>4 DEF Listing, HealsIn, DevicesIn
  <2> QED
    BY <1>6, <2>1, <2>2 DEF HasPages
<1>7. ASSUME HasPages, Steady', NoneSkipped PROVE NoneSkipped'
  <2>1. Listing \subseteq Listing'
    BY <1>6, <1>7
  <2>2. IsFiniteSet(Listing')
    <3>1. Listing' \subseteq LogEntry \/ Listing' \subseteq HealCommand
      BY DEF Listing, LogsIn, HealsIn
    <3> QED
      BY <3>1, FS_Subset, FleetConstantsAssumption
  <2>3. Bound \in Nat
    BY <1>1, PagesAssumption DEF Bound, FleetState
  <2>4. ASSUME NEW x \in fleetReport.begun \ fleetReport.seen PROVE Bound <= Place(x, Listing')
    <3>1. /\ Place(x, Listing) \in Nat /\ Place(x, Listing') \in Nat
          /\ Place(x, Listing) <= Place(x, Listing')
      BY <2>1, <2>2, PlaceGrows
    <3>2. Bound <= Place(x, Listing)
      BY <1>7, <2>4 DEF NoneSkipped
    <3> QED
      BY <2>3, <3>1, <3>2
  <2>5. fleetReport.begun \subseteq Listing'
    BY <1>7, <2>1 DEF NoneSkipped
  <2>6. \A x : Place(x, Listing)' = Place(x, Listing')
    BY DEF Place
  <2> QED
    BY <1>2, <1>4, <1>7, <2>4, <2>5, <2>6 DEF NoneSkipped
<1> QED
  BY <1>2, <1>3, <1>4, <1>6, <1>7 DEF PagesInv

(* Between pages that are read one by one nothing is lost, of incidents unless a *)
(* device was deleted, of recovery commands unless one was moved or deleted.     *)
THEOREM PagesAlwaysCover == FleetSpec => []PagesCover
<1>1. FleetInit => FleetTypeOK /\ PagesInv
  BY NewFleetType DEF FleetInit, FleetTypeOK, PagesInv
<1>2. FleetTypeOK /\ PagesInv /\ [FleetNext]_fleetVars => FleetTypeOK' /\ PagesInv'
  <2> SUFFICES ASSUME FleetTypeOK, PagesInv, [FleetNext]_fleetVars PROVE FleetTypeOK' /\ PagesInv'
    OBVIOUS
  <2>1. CASE UNCHANGED fleetVars
    <3>1. FleetTypeOK' /\ (PlanFollowed' <=> PlanFollowed) /\ (HasPages' <=> HasPages)
          /\ (FirstRead' <=> FirstRead) /\ (Steady' <=> Steady) /\ fleetReport' = fleetReport
      BY <2>1 DEF fleetVars, FleetTypeOK, PlanFollowed, HasPages, FirstRead, Steady
    <3>2. NoneSkipped' <=> NoneSkipped
      BY <2>1 DEF fleetVars, NoneSkipped, Listing, LogsIn, HealsIn, DevicesIn, Bound, RowsRead, Total, Place
    <3> QED
      BY <3>1, <3>2 DEF PagesInv
  <2>2. CASE FleetFails
    <3>1. FleetTypeOK' /\ fleetReport'.stage = "over"
      BY <2>2, NewFleetType DEF FleetFails, FleetTypeOK, fleetRecords
    <3> QED
      BY <3>1 DEF PagesInv
  <2> QED
    BY <2>1, <2>2, BeginsStep, AskStep, TurnStep, FleetMeanwhileIs, FleetChangeStep DEF FleetNext
<1>3. FleetTypeOK /\ PagesInv => PagesCover
  <2> SUFFICES ASSUME FleetTypeOK, PagesInv, fleetReport.stage = "done", HasPages, Steady,
                      Total <= fleetReport.offset + PageLimit
               PROVE  fleetReport.begun \subseteq fleetReport.seen
    BY DEF PagesCover
  <2>1. fleetReport.left = <<>> /\ ~FirstRead
    BY PlanType, PlansDiffer DEF PagesInv, PlanFollowed, FirstRead, HasPages
  <2>2. fleetReport.offset + PageLimit \in Nat
    BY PagesAssumption DEF FleetTypeOK, FleetState
  <2>3. ~(fleetReport.begun \subseteq fleetReport.seen) => Total \in Nat /\ fleetReport.offset + PageLimit < Total
    BY <2>1 DEF PagesInv, NoneSkipped
  <2> QED
    BY <2>2, <2>3
<1> QED
  BY <1>1, <1>2, <1>3, PTL DEF FleetSpec

=============================================================================
