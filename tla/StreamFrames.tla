---------------------------- MODULE StreamFrames ----------------------------
(***************************************************************************)
(* The streams of a Raspberry Pi agent as the server keeps and relays them  *)
(* (src/modules/monitoring/monitoring.service.js): frames that the agent    *)
(* uploads over HTTP and viewers poll, and the JSON column "meta" of the    *)
(* device, which every writer loads and writes back whole.  One device is   *)
(* followed.                                                                *)
(***************************************************************************)
CONSTANTS
  Camera,   \* streams of the device
  Upload,   \* frames, each uploaded once
  Enrol,    \* registrations of the agent
  NoFrame

ASSUME FrameConstantsAssumption ==
  /\ NoFrame \notin Upload \cup Enrol
  /\ Upload \cap Enrol = {}

VARIABLES
  file,     \* the frame file of each camera
  meta,     \* devices.meta: the last upload of each camera, the last registration
  upload,   \* handlers that write meta: uploads and registrations
  viewer    \* the MJPEG loop of a viewer of each camera

frameVars == <<file, meta, upload, viewer>>

Writer == Upload \cup Enrol

(* fs.writeFile empties the file and then fills it; each changes its mtime. *)
Contents == (Upload \X {"empty", "filled"}) \cup {<<NoFrame, "missing">>}

Meta == [frames : [Camera -> Upload \cup {NoFrame}], agent : Enrol \cup {NoFrame}]

NoMeta == [frames |-> [c \in Camera |-> NoFrame], agent |-> NoFrame]

(* A writer of meta, with the copy it loaded; "overtaken" is history: meta
   has been written since. *)
NoUpload == [stage |-> "new", camera |-> NoFrame, copy |-> NoMeta, overtaken |-> FALSE]

(* What a viewer knows: the state of the file at its last stat, that of the
   last frame it pushed, the frame it has read, and the last one pushed. *)
NoView == [stage |-> "stat", seen |-> <<NoFrame, "missing">>, last |-> <<NoFrame, "missing">>,
           buffer |-> NoFrame, shown |-> NoFrame]

FrameInit ==
  /\ file = [c \in Camera |-> <<NoFrame, "missing">>]
  /\ meta = NoMeta
  /\ upload = [u \in Writer |-> NoUpload]
  /\ viewer = [c \in Camera |-> NoView]

-----------------------------------------------------------------------------
(* storeStreamFrame loads the device. *)
UploadStart(u, c) ==
  /\ upload[u].stage = "new"
  /\ upload' = [upload EXCEPT ![u] = [@ EXCEPT !.stage = "open", !.camera = c, !.copy = meta]]
  /\ UNCHANGED <<file, meta, viewer>>

UploadOpen(u) ==
  /\ upload[u].stage = "open"
  /\ file' = [file EXCEPT ![upload[u].camera] = <<u, "empty">>]
  /\ upload' = [upload EXCEPT ![u].stage = "fill"]
  /\ UNCHANGED <<meta, viewer>>

UploadFill(u) ==
  /\ upload[u].stage = "fill"
  /\ file' = [file EXCEPT ![upload[u].camera] = <<u, "filled">>]
  /\ upload' = [upload EXCEPT ![u].stage = "record"]
  /\ UNCHANGED <<meta, viewer>>

(* registerAgent and registerMonitoringDevice load the device. *)
EnrolStart(e) ==
  /\ upload[e].stage = "new"
  /\ upload' = [upload EXCEPT ![e] = [@ EXCEPT !.stage = "record", !.copy = meta]]
  /\ UNCHANGED <<file, meta, viewer>>

(* Mutant of Amended: the frames of the other cameras are not spread into
   the new value. *)
AmendedFramesOnly(w) ==
  IF w \in Upload
    THEN [upload[w].copy EXCEPT !.frames = [c \in Camera |-> IF c = upload[w].camera THEN w ELSE NoFrame]]
    ELSE [upload[w].copy EXCEPT !.agent = w]

(* The new value of meta: the copy, with the writer's own entry. *)
Amended(w) ==
  IF w \in Upload THEN [upload[w].copy EXCEPT !.frames[upload[w].camera] = w]
                  ELSE [upload[w].copy EXCEPT !.agent = w]

Record(w) ==
  /\ upload[w].stage = "record"
  /\ meta' = Amended(w)
  /\ upload' = [x \in Writer |->
                  IF x = w THEN [NoUpload EXCEPT !.stage = "done"]
                  ELSE IF upload[x].stage \in {"open", "fill", "record"}
                         THEN [upload[x] EXCEPT !.overtaken = TRUE]
                         ELSE upload[x]]
  /\ UNCHANGED <<file, viewer>>

(* streamLiveMjpegForUser: the loop looks at the mtime of the file ... *)
ViewerStat(c) ==
  /\ viewer[c].stage = "stat"
  /\ file[c] # viewer[c].last
  /\ viewer' = [viewer EXCEPT ![c] = [@ EXCEPT !.stage = "read", !.seen = file[c]]]
  /\ UNCHANGED <<file, meta, upload>>

(* ... reads it, and skips it when it is empty ... *)
ViewerRead(c) ==
  /\ viewer[c].stage = "read"
  /\ viewer' = [viewer EXCEPT ![c] = IF file[c][2] = "filled"
                                       THEN [@ EXCEPT !.stage = "push", !.buffer = file[c][1]]
                                       ELSE [@ EXCEPT !.stage = "stat"]]
  /\ UNCHANGED <<file, meta, upload>>

(* Mutant of StampPushed: the file is looked at again after it was read. *)
StampPushedAgain(c) == file[c]

(* The mtime a viewer remembers is that of before the read. *)
StampPushed(c) == viewer[c].seen

(* ... and pushes what it has read. *)
ViewerPush(c) ==
  /\ viewer[c].stage = "push"
  /\ viewer' = [viewer EXCEPT ![c] = [@ EXCEPT !.stage = "stat", !.last = StampPushed(c),
                                                !.shown = viewer[c].buffer, !.buffer = NoFrame]]
  /\ UNCHANGED <<file, meta, upload>>

-----------------------------------------------------------------------------

UploadStep(u) == UploadOpen(u) \/ UploadFill(u) \/ Record(u)

ViewerStep(c) == ViewerStat(c) \/ ViewerRead(c) \/ ViewerPush(c)

FrameNext ==
  \/ \E u \in Upload : UploadStep(u) \/ (\E c \in Camera : UploadStart(u, c))
  \/ \E e \in Enrol : EnrolStart(e) \/ Record(e)
  \/ \E c \in Camera : ViewerStep(c)

(* File and database operations end, and the viewer's loop goes on. *)
FrameFairness ==
  /\ \A u \in Upload : WF_frameVars(UploadStep(u))
  /\ \A c \in Camera : WF_frameVars(ViewerStep(c))

FrameSpec == FrameInit /\ [][FrameNext]_frameVars /\ FrameFairness

-----------------------------------------------------------------------------
(* Properties *)

(***************************************************************************)
(* Frames are read while others are written: whatever the viewer's loop     *)
(* met, it shows the frame of the file in the end.                          *)
(***************************************************************************)
ShowsFile(c) == viewer[c].shown = file[c][1] /\ viewer[c].last = file[c]

FrameShown == \A c \in Camera : []<>(file[c][2] = "filled" => ShowsFile(c))

(***************************************************************************)
(* meta is written back whole: a writer undoes only what was written after  *)
(* it had loaded the device.                                                *)
(***************************************************************************)
MetaKept ==
  [][\A w \in Writer :
       upload[w].stage = "record" /\ upload'[w].stage = "done" /\ ~upload[w].overtaken =>
         /\ meta'.agent # meta.agent => w \in Enrol
         /\ \A c \in Camera :
              meta'.frames[c] # meta.frames[c] => w \in Upload /\ c = upload[w].camera]_frameVars

=============================================================================
