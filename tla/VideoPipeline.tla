---------------------------- MODULE VideoPipeline ----------------------------
(***************************************************************************)
(* VideoPipeline::Impl of drm_driver.cc: the application loads frames and  *)
(* keeps the metadata of the stream, the show thread recomputes where a    *)
(* frame goes when it notices a new version of the metadata, and copies    *)
(* frames to the mapped display. The two threads exchange frames through   *)
(* the double buffer of FrameBuffer, whose steps are steps of this module. *)
(*                                                                         *)
(* All frames of a video have one size; geometry is a size, that of the    *)
(* default metadata or that of the video, or some fields of each.          *)
(***************************************************************************)
EXTENDS FrameBuffer

CONSTANTS Period,       \* frames between two updates of the frame rate: 25
          PlaneFails    \* drm_set_plane() may fail

ASSUME PipelineAssumption == Period \in Nat \ {0} /\ PlaneFails \in BOOLEAN

VARIABLES size, version,    \* metadata: the fields, and the flag update() turns
          isSet,            \* is_set_frame_size
          running,
          app,              \* where the application is
          show,             \* where the show thread is
          lastVer, geometry, plane,   \* its last_ver, bounds and last_width
          drm               \* the mapped display buffer

meta == <<size, version, isSet>>
local == <<lastVer, geometry, plane>>
pvars == <<vars, meta, running, app, show, local, drm>>

\* drm_init() fails, and there is no thread, or the thread starts.
PipelineInit ==
  /\ Init
  /\ size = "default" /\ version = FALSE /\ isSet = FALSE
  /\ \/ running = FALSE /\ show = "none" /\ drm = "none"
     \/ running = TRUE /\ show = "start" /\ drm = "mapped"
  /\ app = "idle" /\ lastVer = FALSE
  /\ geometry = "none" /\ plane = "none"

Alive == show # "crashed"
AppTo(l) == app' = l
ShowTo(l) == show' = l
-----------------------------------------------------------------------------
(* load_frame() *)

LoadFrame ==
  /\ app = "idle" /\ Alive /\ latest < Frames
  /\ AppTo(IF isSet THEN "running" ELSE "size")
  /\ UNCHANGED <<vars, meta, running, show, local, drm>>

UpdateSize ==
  /\ app = "size" /\ Alive
  /\ size' = "video"
  /\ AppTo("version")
  /\ UNCHANGED <<vars, version, isSet, running, show, local, drm>>

\* The version is turned after the fields, here and after every Period frames.
UpdateVersion ==
  /\ app = "version" /\ Alive
  /\ version' = ~version
  /\ isSet' = TRUE
  /\ AppTo(IF isSet THEN "idle" ELSE "running")
  /\ UNCHANGED <<vars, size, running, show, local, drm>>

SetRunning ==
  /\ app = "running" /\ Alive
  /\ running' = TRUE
  /\ AppTo("write")
  /\ UNCHANGED <<vars, meta, show, local, drm>>

\* frame_buffer.write(), and an update after every Period frames.
WriteFrame ==
  /\ app = "write" /\ Alive
  /\ Write
  /\ AppTo(IF writer' # "idle" THEN "write" ELSE
           IF latest' % Period = 0 THEN "version" ELSE "idle")
  /\ UNCHANGED <<meta, running, show, local, drm>>
-----------------------------------------------------------------------------
(* ~Impl(): stop() *)

Stop_KeepsRunning ==
  /\ app = "idle" /\ Alive
  /\ AppTo("join")
  /\ UNCHANGED <<vars, meta, running, show, local, drm>>

Stop ==
  /\ app = "idle" /\ Alive
  /\ running' = FALSE
  /\ AppTo("join")
  /\ UNCHANGED <<vars, meta, show, local, drm>>

StopExit_NoJoin ==
  /\ app = "join" /\ Alive
  /\ drm' = "released"
  /\ AppTo("stopped")
  /\ UNCHANGED <<vars, meta, running, show, local>>

\* join() if there is a thread, then drm_exit().
StopExit ==
  /\ app = "join" /\ show \in {"none", "end"}
  /\ drm' = "released"
  /\ AppTo("stopped")
  /\ UNCHANGED <<vars, meta, running, show, local>>
-----------------------------------------------------------------------------
(* show_img() *)

\* It may read the fields while update() writes them.
ShowStart ==
  /\ show = "start"
  /\ geometry' \in {size} \cup (IF app = "size" THEN {"mixed"} ELSE {})
  /\ ShowTo("loop")
  /\ UNCHANGED <<vars, meta, running, app, lastVer, plane, drm>>

ShowLoop ==
  /\ show = "loop"
  /\ ShowTo(IF ~running THEN "end" ELSE IF version # lastVer THEN "update" ELSE "read")
  /\ UNCHANGED <<vars, meta, running, app, local, drm>>

ShowUpdate_KeepsBounds ==
  /\ show = "update"
  /\ plane' = size
  /\ ShowTo("seen")
  /\ UNCHANGED <<vars, meta, running, app, lastVer, geometry, drm>>

ShowUpdate ==
  /\ show = "update"
  /\ geometry' = size /\ plane' = size
  /\ ShowTo("seen")
  /\ UNCHANGED <<vars, meta, running, app, lastVer, drm>>

\* stop() called by the show thread joins the show thread: an exception that
\* nobody catches.
ShowPlaneFails ==
  /\ show = "update" /\ PlaneFails /\ size # plane
  /\ running' = FALSE
  /\ ShowTo("crashed")
  /\ UNCHANGED <<vars, meta, app, local, drm>>

\* The version is read once more.
ShowSeen ==
  /\ show = "seen"
  /\ lastVer' = version
  /\ ShowTo("read")
  /\ UNCHANGED <<vars, meta, running, app, geometry, plane, drm>>

\* frame_buffer.read()
ShowRead ==
  /\ show = "read"
  /\ ReadCheck \/ ReadLock \/ ReadSwap
  /\ ShowTo(IF reader' = "show" THEN "copy" ELSE "read")
  /\ UNCHANGED <<meta, running, app, local, drm>>

\* The copy to the display, then the pause.
ShowCopy ==
  /\ show = "copy"
  /\ ShowEnd
  /\ ShowTo("loop")
  /\ UNCHANGED <<meta, running, app, local, drm>>
-----------------------------------------------------------------------------
AppStep == UpdateSize \/ UpdateVersion \/ SetRunning \/ WriteFrame \/ StopExit
ShowStep == \/ ShowStart \/ ShowLoop \/ ShowUpdate \/ ShowSeen \/ ShowRead
            \/ ShowCopy \/ ShowPlaneFails
PipelineNext == LoadFrame \/ Stop \/ AppStep \/ ShowStep

PipelineSpec == PipelineInit /\ [][PipelineNext]_pvars

\* Both threads run, and the lock is free again and again; the application
\* need not load a frame nor stop.
FairPipelineSpec ==
  PipelineSpec /\ WF_pvars(AppStep) /\ WF_pvars(ShowStep) /\ SF_pvars(ShowRead)
-----------------------------------------------------------------------------
(* The types.                                                               *)
PipelineTypeOK ==
  /\ TypeOK
  /\ size \in {"default", "video"} /\ version \in BOOLEAN /\ isSet \in BOOLEAN
  /\ running \in BOOLEAN
  /\ app \in {"idle", "size", "version", "running", "write", "join", "stopped"}
  /\ show \in {"none", "start", "loop", "update", "seen", "read", "copy", "end",
               "crashed"}
  /\ lastVer \in BOOLEAN /\ geometry \in {"none", "default", "mixed", "video"}
  /\ plane \in {"none", "default", "video"}
  /\ drm \in {"none", "mapped", "released"}

(* The display is unmapped only when the show thread no longer writes to it *)
(* (stop() joins before drm_exit()).                                        *)
UnmappedAfterShow == show \in {"update", "copy"} => drm = "mapped"

(* The destructor returns, unless drm_set_plane() has failed and the show   *)
(* thread has called stop() itself (stop, 266-275).                         *)
DestructorReturns == app = "join" ~> (app = "stopped" \/ show = "crashed")

(* The last frame written reaches the screen while the pipeline runs: the   *)
(* flag the reader clears and the writer sets loses no frame (28-40).       *)
LastShown == \A n \in 1..Frames :
  latest = n ~> (reader = "show" /\ seen = n) \/ latest > n \/ ~running \/ show = "none"

(* A turned version that stays turned makes the show thread lay frames out  *)
(* by the size of the video ("检查元数据更新", check for an update of the    *)
(* metadata, 171). A second update turns it back: two updates between two   *)
(* looks of the show thread are none.                                       *)
MetadataSeen == (isSet /\ version /\ show # "none") ~> (geometry = "video" \/ ~version \/ ~running)
=============================================================================
