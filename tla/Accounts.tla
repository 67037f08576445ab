------------------------------ MODULE Accounts ------------------------------
(***************************************************************************)
(* A user's account (users.controller.js, auth.controller.js, s3Avatar.js,  *)
(* rekognitionFace.js): its approval, the links that reset its password,    *)
(* its avatar and its face.                                                 *)
(*                                                                          *)
(* One account is followed.  A request loads the row and updates it in a    *)
(* second query, after a hash, an upload or a mail; the pictures are in an  *)
(* object store and a face collection, which no transaction spans.  Tokens, *)
(* objects and faces are new for each request and bear its name.  Profile   *)
(* changes touch nothing that is followed here; passwords are not.          *)
(***************************************************************************)
EXTENDS FiniteSets

CONSTANTS
  UserRequest,  \* requests, each made once
  Original,     \* the token, the avatar or the face an account may start with
  Nobody

ASSUME AccountConstantsAssumption ==
  /\ Nobody \notin UserRequest
  /\ Original \notin UserRequest
  /\ Nobody # Original

VARIABLES
  account,    \* the row: status, password_reset_token_hash, profile_image_key
  face,       \* rekognition_face_id of the face profile
  objects,    \* avatars in the object store
  collection, \* faces in the collection
  request,    \* the requests
  mailed,     \* tokens whose link was sent
  spent,      \* history: tokens that have reset the password
  early,      \* history: requests in flight when the account was first judged,
              \* or a token spent
  torn,       \* history: pictures taken from their store while the row had them
  named       \* history: the row's avatar is a key that a request has named

accountVars ==
  <<account, face, objects, collection, request, mailed, spent, early, torn, named>>

(* Also the names of tokens. *)
Picture == UserRequest \cup {Original, Nobody}

Status == {"NONE", "PENDING_APPROVAL", "ACTIVE", "INACTIVE"}

Account == [status : Status, token : Picture, avatar : Picture]

Operation == {"approve", "reject", "deactivate", "forgot", "reset", "avatar", "clear", "name", "enroll"}

(* A request: what it does, what it waits for, and what it knows of the row:
   the token it resets, the picture it found, or the avatar it names. *)
RequestState ==
  [operation : Operation \cup {"none"},
   stage : {"new", "write", "mail", "store", "remove", "index", "over"},
   known : Picture]

(* An account not judged has no link; one that is not there has nothing. *)
StartsWith(a) ==
  /\ {a.token, a.avatar} \subseteq {Nobody, Original}
  /\ a.status = "NONE" => {a.token, a.avatar} = {Nobody}
  /\ a.status = "PENDING_APPROVAL" => a.token = Nobody

AccountInit ==
  /\ account \in {a \in Account : StartsWith(a)}
  /\ face \in IF account.status = "NONE" THEN {Nobody} ELSE {Nobody, Original}
  /\ objects = {account.avatar} \ {Nobody}
  /\ collection = {face} \ {Nobody}
  /\ request = [r \in UserRequest |-> [operation |-> "none", stage |-> "new", known |-> Nobody]]
  /\ mailed = {account.token} \ {Nobody}
  /\ spent = {}
  /\ early = {}
  /\ torn = {}
  /\ named = FALSE

At(r, operation, stage) == request[r].operation = operation /\ request[r].stage = stage

UnderWay(r) == request[r].stage \notin {"new", "over"}

Turn(r, stage) == request' = [request EXCEPT ![r].stage = stage]

(* The row is loaded by a request that was not made before. *)
Begin(r, operation, stage, known) ==
  /\ request[r].stage = "new"
  /\ account.status # "NONE"
  /\ request' = [request EXCEPT ![r] = [operation |-> operation, stage |-> stage, known |-> known]]
  /\ UNCHANGED <<account, face, objects, collection, mailed, spent, early, torn, named>>

(* signup, createUser: a second account of that name is refused by an index. *)
Register(status) ==
  /\ account.status = "NONE"
  /\ account' = [account EXCEPT !.status = status]
  /\ UNCHANGED <<face, objects, collection, request, mailed, spent, early, torn, named>>

-----------------------------------------------------------------------------
(* Approval *)

(* Mutant of FindPendingUser: any account is found. *)
FindPendingUserUnchecked(r, operation) == Begin(r, operation, "write", Nobody)

(* findPendingUserForAdmin *)
FindPendingUser(r, operation) ==
  /\ account.status = "PENDING_APPROVAL"
  /\ Begin(r, operation, "write", Nobody)

FindUserToDeactivate(r) ==
  /\ account.status # "INACTIVE"
  /\ Begin(r, "deactivate", "write", Nobody)

(* approveUser, rejectUser, deactivateUser: the status is written, whatever it
   is by now. *)
WriteStatus(r, operation, status) ==
  /\ At(r, operation, "write")
  /\ account' = [account EXCEPT !.status = status]
  /\ early' = IF account.status = "PENDING_APPROVAL"
                THEN early \cup {q \in UserRequest : UnderWay(q)} ELSE early
  /\ Turn(r, "over")
  /\ UNCHANGED <<face, objects, collection, mailed, spent, torn, named>>

ApproveUser(r) == WriteStatus(r, "approve", "ACTIVE")

RejectUser(r) == WriteStatus(r, "reject", "INACTIVE")

DeactivateUser(r) == WriteStatus(r, "deactivate", "INACTIVE")

-----------------------------------------------------------------------------
(* Passwords *)

ForgotPassword(r) ==
  /\ account.status = "ACTIVE"
  /\ Begin(r, "forgot", "write", Nobody)

(* The token takes the place of an earlier one. *)
WriteToken(r) ==
  /\ At(r, "forgot", "write")
  /\ account' = [account EXCEPT !.token = r]
  /\ Turn(r, "mail")
  /\ UNCHANGED <<face, objects, collection, mailed, spent, early, torn, named>>

MailLink(r) ==
  /\ At(r, "forgot", "mail")
  /\ mailed' = mailed \cup {r}
  /\ Turn(r, "over")
  /\ UNCHANGED <<account, face, objects, collection, spent, early, torn, named>>

(* Somebody opens a link; the row is looked up by its token, which may also
   have expired. *)
ResetPassword(r, t) ==
  /\ t \in mailed
  /\ account.token = t
  /\ account.status = "ACTIVE"
  /\ Begin(r, "reset", "write", t)

(* Mutant of TokenAfterReset: the token stays until it expires. *)
TokenAfterResetKept == account.token

TokenAfterReset == Nobody

WritePassword(r) ==
  LET t == request[r].known IN
  /\ At(r, "reset", "write")
  /\ account' = [account EXCEPT !.token = TokenAfterReset]
  /\ spent' = spent \cup {t}
  /\ early' = early \cup {q \in UserRequest : UnderWay(q) /\ request[q].known = t}
  /\ Turn(r, "over")
  /\ UNCHANGED <<face, objects, collection, mailed, torn, named>>

-----------------------------------------------------------------------------
(* Pictures *)

(* A picture leaves its store while the row still has it. *)
Tear(kind, picture, inRow) ==
  torn' = IF picture = inRow THEN torn \cup {<<kind, picture>>} ELSE torn

(* uploadMyAvatar, uploadUserAvatar: saveAvatarForUser stores the object ... *)
UploadAvatar(r) == Begin(r, "avatar", "store", account.avatar)

StoreAvatar(r) ==
  /\ At(r, "avatar", "store")
  /\ objects' = objects \cup {r}
  /\ Turn(r, "write")
  /\ UNCHANGED <<account, face, collection, mailed, spent, early, torn, named>>

(* ... makes it the avatar, and ... *)
WriteAvatar(r) ==
  /\ At(r, "avatar", "write")
  /\ account' = [account EXCEPT !.avatar = r]
  /\ named' = FALSE
  /\ Turn(r, IF request[r].known = Nobody THEN "over" ELSE "remove")
  /\ UNCHANGED <<face, objects, collection, mailed, spent, early, torn>>

(* Mutant of Superseded: what the row has now. *)
SupersededNow(r) == account.avatar

(* The avatar the request found when it loaded the row. *)
Superseded(r) == request[r].known

(* ... deletes the one it found. *)
RemovePrevious(r) ==
  /\ At(r, "avatar", "remove")
  /\ objects' = objects \ {Superseded(r)}
  /\ Turn(r, "over")
  /\ UNCHANGED <<account, face, collection, mailed, spent, early, torn, named>>

(* updateUser with profile_image_key null: the object is deleted first ... *)
ClearAvatar(r) ==
  /\ account.avatar # Nobody
  /\ Begin(r, "clear", "remove", account.avatar)

RemoveAvatar(r) ==
  /\ At(r, "clear", "remove")
  /\ objects' = objects \ {request[r].known}
  /\ Tear("avatar", request[r].known, account.avatar)
  /\ Turn(r, "write")
  /\ UNCHANGED <<account, face, collection, mailed, spent, early, named>>

(* ... and the key is cleared, whichever it is by now. *)
WriteCleared(r) ==
  /\ At(r, "clear", "write")
  /\ account' = [account EXCEPT !.avatar = Nobody]
  /\ named' = FALSE
  /\ Turn(r, "over")
  /\ UNCHANGED <<face, objects, collection, mailed, spent, early, torn>>

(* A key somebody may know: that of an upload once it is written or given up, or
   "Original", also where nothing is stored under it. *)
KnownKey(key) == key \in UserRequest => At(key, "avatar", "remove") \/ At(key, "avatar", "over")

(* updateUser with any other profile_image_key: nothing checks it, and no object
   is deleted, also where it is empty and clears the row. *)
NameAvatar(r, key) ==
  /\ KnownKey(key)
  /\ key # account.avatar
  /\ Begin(r, "name", "write", key)

WriteNamed(r) ==
  /\ At(r, "name", "write")
  /\ account' = [account EXCEPT !.avatar = request[r].known]
  /\ named' = (request[r].known # Nobody)
  /\ Turn(r, "over")
  /\ UNCHANGED <<face, objects, collection, mailed, spent, early, torn>>

(* enrollMyFace: the face found is taken from the collection; an error of the
   collection is caught here, and ends the request later. *)
EnrollFace(r) == Begin(r, "enroll", "remove", face)

RemoveFace(r, removed) ==
  /\ At(r, "enroll", "remove")
  /\ collection' = IF removed THEN collection \ {request[r].known} ELSE collection
  /\ IF removed THEN Tear("face", request[r].known, face) ELSE torn' = torn
  /\ Turn(r, "index")
  /\ UNCHANGED <<account, face, objects, mailed, spent, early, named>>

IndexFace(r) ==
  /\ At(r, "enroll", "index")
  /\ collection' = collection \cup {r}
  /\ Turn(r, "write")
  /\ UNCHANGED <<account, face, objects, mailed, spent, early, torn, named>>

(* The profile that was found is updated; a second one of the user is refused. *)
WriteFace(r) ==
  /\ At(r, "enroll", "write")
  /\ face' = IF request[r].known = Nobody /\ face # Nobody THEN face ELSE r
  /\ Turn(r, "over")
  /\ UNCHANGED <<account, objects, collection, mailed, spent, early, torn, named>>

(* A query, the mail or a store fails, and the request ends. *)
UserRequestFails(r) ==
  /\ UnderWay(r)
  /\ Turn(r, "over")
  /\ UNCHANGED <<account, face, objects, collection, mailed, spent, early, torn, named>>

-----------------------------------------------------------------------------

AccountNext ==
  \/ \E status \in {"PENDING_APPROVAL", "ACTIVE"} : Register(status)
  \/ \E r \in UserRequest :
       \/ \E operation \in {"approve", "reject"} : FindPendingUser(r, operation)
       \/ FindUserToDeactivate(r)
       \/ ApproveUser(r) \/ RejectUser(r) \/ DeactivateUser(r)
       \/ ForgotPassword(r) \/ WriteToken(r) \/ MailLink(r)
       \/ \E t \in Picture : ResetPassword(r, t)
       \/ WritePassword(r)
       \/ UploadAvatar(r) \/ StoreAvatar(r) \/ WriteAvatar(r) \/ RemovePrevious(r)
       \/ ClearAvatar(r) \/ RemoveAvatar(r) \/ WriteCleared(r)
       \/ \E key \in Picture : NameAvatar(r, key)
       \/ WriteNamed(r)
       \/ EnrollFace(r) \/ IndexFace(r) \/ WriteFace(r)
       \/ \E removed \in BOOLEAN : RemoveFace(r, removed)
       \/ UserRequestFails(r)

AccountSpec == AccountInit /\ [][AccountNext]_accountVars

-----------------------------------------------------------------------------
(* Properties *)

AccountTypeOK ==
  /\ account \in Account
  /\ face \in Picture
  /\ objects \subseteq Picture \ {Nobody}
  /\ collection \subseteq Picture \ {Nobody}
  /\ request \in [UserRequest -> RequestState]
  /\ mailed \subseteq Picture
  /\ spent \subseteq Picture
  /\ early \subseteq UserRequest
  /\ torn \subseteq {"avatar", "face"} \X Picture
  /\ named \in BOOLEAN

(***************************************************************************)
(* An account that was rejected or deactivated stays so: only an approval   *)
(* that was already in flight when the account was first judged undoes it.  *)
(***************************************************************************)
DecisionStands ==
  [][account.status = "INACTIVE" /\ account'.status # "INACTIVE" =>
       \E r \in early : At(r, "approve", "write") /\ request'[r].stage = "over"]_accountVars

(***************************************************************************)
(* A mailed link resets the password once: a request that holds a token     *)
(* already spent was in flight when it was spent.                           *)
(***************************************************************************)
LinkUsedOnce == \A r \in UserRequest : At(r, "reset", "write") /\ request[r].known \in spent => r \in early

(***************************************************************************)
(* However uploads, removals and enrolments overlap or fail, the row names  *)
(* an avatar and a face that exist.  Excepted are a picture that a removal  *)
(* or an enrolment has deleted before it writes the row, and a key that an  *)
(* administrator has put into the row by its name (updateUser writes what   *)
(* the body holds), for as long as the row has it.                          *)
(***************************************************************************)
PicturesKept ==
  /\ \/ account.avatar \in objects \cup {Nobody}
     \/ <<"avatar", account.avatar>> \in torn
     \/ named
  /\ face \in collection \cup {Nobody} \/ <<"face", face>> \in torn

=============================================================================
