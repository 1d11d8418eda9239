------------------------- MODULE VideoPipelineProofs -------------------------
(***************************************************************************)
(* Proofs about FrameBuffer and VideoPipeline, for any number of frames:   *)
(* no frame is torn or changes while it is shown, the buffer implements    *)
(* LatestFrame, the steps of the pipeline are steps of the buffer, so this *)
(* holds in the pipeline too, and the display is never unmapped under the  *)
(* show thread.                                                            *)
(***************************************************************************)
EXTENDS VideoPipeline, TLAPS

\* swap_mtx belongs to the thread that is inside its locked block.
LockInv == /\ mtx = "writer" <=> writer \in {"copy", "publish"}
           /\ mtx = "reader" <=> reader = "swap"

\* Where the newest published frame is: in the back buffer when it is marked
\* updated and nobody overwrites it, in the front buffer when it is not.
DataInv == /\ buf[front] \in 0..Frames
           /\ writer = "idle" /\ updated => buf[Back] = latest
           /\ writer = "publish" => buf[Back] = latest + 1
           /\ writer # "idle" => latest < Frames
           /\ ~updated => buf[front] = latest
           /\ reader = "show" => buf[front] = seen

IInv == TypeOK /\ LockInv /\ DataInv

USE FrameAssumption DEF Slot, Back

(* Initially both buffers are empty and nothing has been published. *)
LEMMA InitStep == Init => IInv /\ L!Init
<1> SUFFICES ASSUME Init PROVE IInv /\ L!Init
  OBVIOUS
<1>1. buf \in [Slot -> {0}] /\ buf[front] = 0 /\ front = 0 BY DEF Init
<1>2. 0 \in 0..Frames OBVIOUS
<1>3. TypeOK
  <2>1. buf \in [Slot -> 0..Frames \cup {Torn}] BY <1>1, <1>2
  <2>2. latest \in 0..Frames /\ seen \in 0..Frames BY <1>2 DEF Init
  <2>3. front \in Slot /\ updated \in BOOLEAN BY DEF Init
  <2>4. QED BY <2>1, <2>2, <2>3 DEF Init, TypeOK
<1>4. LockInv BY DEF Init, LockInv
<1>5. DataInv BY <1>1, <1>2 DEF Init, DataInv
<1>6. L!Init BY <1>1 DEF Init, L!Init
<1>7. QED BY <1>3, <1>4, <1>5, <1>6 DEF IInv

(* The three steps of write(): only the last is visible, and it publishes.  *)
LEMMA WriteStep ==
  ASSUME IInv, Write
  PROVE  IInv' /\ (L!Publish \/ UNCHANGED L!vars)
<1> USE DEF IInv, TypeOK
<1>1. Back \in Slot /\ Back # front /\ buf[front] \in 0..Frames /\ latest \in 0..Frames
  BY DEF DataInv
<1>2. CASE WriteBegin
  <2>1. /\ buf' = [buf EXCEPT ![Back] = Torn] /\ latest < Frames /\ mtx = "free"
        /\ mtx' = "writer" /\ writer' = "copy" /\ writer = "idle"
        /\ UNCHANGED <<front, updated, reader, latest, seen>>
    BY <1>2 DEF WriteBegin
  <2>2. buf'[front] = buf[front] BY <1>1, <2>1
  <2>3. TypeOK' BY <1>1, <2>1
  <2>4. LockInv' BY <2>1 DEF LockInv
  <2>5. DataInv' BY <1>1, <2>1, <2>2 DEF DataInv
  <2>6. UNCHANGED L!vars BY <2>1, <2>2 DEF L!vars
  <2>7. QED BY <2>3, <2>4, <2>5, <2>6
<1>3. CASE WriteEnd
  <2>1. /\ buf' = [buf EXCEPT ![Back] = latest + 1] /\ writer = "copy"
        /\ writer' = "publish" /\ UNCHANGED <<front, updated, mtx, reader, latest, seen>>
    BY <1>3 DEF WriteEnd
  <2>2. latest < Frames BY <2>1 DEF DataInv
  <2>3. latest + 1 \in 0..Frames BY <1>1, <2>2
  <2>4. buf'[front] = buf[front] /\ buf'[Back] = latest + 1 BY <1>1, <2>1
  <2>5. TypeOK' BY <1>1, <2>1, <2>3
  <2>6. LockInv' BY <2>1 DEF LockInv
  <2>7. DataInv' BY <1>1, <2>1, <2>2, <2>4 DEF DataInv
  <2>8. UNCHANGED L!vars BY <2>1, <2>4 DEF L!vars
  <2>9. QED BY <2>5, <2>6, <2>7, <2>8
<1>4. CASE WritePublish
  <2>1. /\ updated' = TRUE /\ latest' = latest + 1 /\ mtx' = "free" /\ writer = "publish"
        /\ writer' = "idle" /\ UNCHANGED <<buf, front, reader, seen>>
    BY <1>4 DEF WritePublish
  <2>2. latest < Frames /\ buf[Back] = latest + 1 BY <2>1 DEF DataInv
  <2>3. latest' \in 0..Frames BY <1>1, <2>1, <2>2
  <2>4. TypeOK' BY <2>1, <2>3
  <2>5. LockInv' BY <2>1 DEF LockInv
  <2>6. DataInv' BY <2>1, <2>2 DEF DataInv
  <2>7. L!Publish BY <2>1 DEF L!Publish
  <2>8. QED BY <2>4, <2>5, <2>6, <2>7
<1>5. QED BY <1>2, <1>3, <1>4 DEF Write

(* The steps of read(): only the swap is visible, and it takes the newest.  *)
LEMMA ReadStep ==
  ASSUME IInv, Read
  PROVE  IInv' /\ (L!Take \/ UNCHANGED L!vars)
<1> USE DEF IInv, TypeOK
<1>1. CASE ReadCheck \/ ReadLock \/ ShowEnd
  <2>1. /\ UNCHANGED <<buf, front, updated, writer, latest>>
        /\ seen' \in {seen, buf[front]}
    BY <1>1 DEF ReadCheck, ReadLock, ShowEnd
  <2>2. buf[front] \in 0..Frames BY DEF DataInv
  <2>3. mtx' \in {"free", "writer", "reader"} /\ reader' \in {"check", "lock", "swap", "show"}
    BY <1>1 DEF ReadCheck, ReadLock, ShowEnd
  <2>4. TypeOK' BY <2>1, <2>2, <2>3
  <2>5. LockInv' BY <1>1 DEF ReadCheck, ReadLock, ShowEnd, LockInv
  <2>6. reader' = "show" => seen' = buf[front]
    BY <1>1 DEF ReadCheck, ReadLock, ShowEnd
  <2>7. DataInv' BY <2>1, <2>6 DEF DataInv
  <2>8. QED BY <2>1, <2>4, <2>5, <2>7 DEF L!vars
<1>2. CASE ReadSwap
  <2>1. /\ reader = "swap" /\ front' = IF updated THEN Back ELSE front
        /\ updated' = FALSE /\ mtx' = "free" /\ seen' = buf[front'] /\ reader' = "show"
        /\ UNCHANGED <<buf, writer, latest>>
    BY <1>2 DEF ReadSwap
  <2>2. writer = "idle" BY <2>1 DEF LockInv
  <2>3. buf[front'] = latest BY <2>1, <2>2 DEF DataInv
  <2>4. front' \in Slot BY <2>1
  <2>5. TypeOK' BY <2>1, <2>3, <2>4
  <2>6. LockInv' BY <2>1, <2>2 DEF LockInv
  <2>7. DataInv' BY <2>1, <2>2, <2>3 DEF DataInv
  <2>8. L!Take BY <2>1, <2>3 DEF L!Take
  <2>9. QED BY <2>5, <2>6, <2>7, <2>8
<1>3. QED BY <1>1, <1>2 DEF Read

(* Every step keeps the invariant and is one of LatestFrame or a stutter. *)
LEMMA Step == IInv /\ [Next]_vars => IInv' /\ [L!Next]_(L!vars)
<1> SUFFICES ASSUME IInv, [Next]_vars PROVE IInv' /\ [L!Next]_(L!vars)
  OBVIOUS
<1>1. CASE Write BY <1>1, WriteStep DEF L!Next
<1>2. CASE Read BY <1>2, ReadStep DEF L!Next
<1>3. CASE UNCHANGED vars
  BY <1>3 DEF vars, IInv, TypeOK, LockInv, DataInv, L!vars
<1>4. QED BY <1>1, <1>2, <1>3 DEF Next

(* Whatever the interleaving, and for any number of frames, the frame shown *)
(* is whole and does not change under the show thread.                      *)
THEOREM NeverTorn == Spec => []TearFree
<1>1. IInv => TearFree
  <2>1. ASSUME IInv PROVE buf[front] # Torn
    BY <2>1 DEF IInv, DataInv
  <2>2. QED BY <2>1 DEF IInv, DataInv, TearFree
<1>2. QED BY <1>1, InitStep, Step, PTL DEF Spec

(* The double buffer implements LatestFrame: every swap takes the newest    *)
(* published frame.                                                         *)
THEOREM BufferImplementsLatest == Spec => LatestSpec
<1>1. LatestSpec <=> L!Init /\ [][L!Next]_(L!vars) BY DEF LatestSpec, L!Spec
<1>2. QED BY <1>1, InitStep, Step, PTL DEF Spec
-----------------------------------------------------------------------------
(* The pipeline over the buffer. *)

HIDE FrameAssumption DEF Slot, Back

\* Once the display is gone the show thread has ended or never was.
DrmInv == /\ drm = "released" => show \in {"none", "end"}
          /\ drm = "none" => show = "none"

PInv == PipelineTypeOK /\ DrmInv

(* A step of the pipeline is one of the double buffer, or leaves it alone.  *)
LEMMA PipelineStepIsBufferStep == [PipelineNext]_pvars => [Next]_vars
<1> SUFFICES ASSUME [PipelineNext]_pvars PROVE [Next]_vars
  OBVIOUS
<1>1. CASE WriteFrame BY <1>1 DEF WriteFrame, Next
<1>2. CASE ShowRead \/ ShowCopy BY <1>2 DEF ShowRead, ShowCopy, Next, Read
<1>3. CASE UNCHANGED vars BY <1>3
<1>4. CASE UNCHANGED pvars BY <1>4 DEF pvars
<1>5. QED
  BY <1>1, <1>2, <1>3, <1>4 DEF PipelineNext, LoadFrame, Stop, AppStep, ShowStep,
     UpdateSize, UpdateVersion, SetRunning, StopExit, ShowStart, ShowLoop, ShowUpdate,
     ShowSeen, ShowPlaneFails

(* The pipeline implements the double buffer.                               *)
LEMMA PipelineIsBuffer == PipelineSpec => Spec
<1>1. PipelineInit => Init BY DEF PipelineInit
<1>2. QED BY <1>1, PipelineStepIsBufferStep, PTL DEF PipelineSpec, Spec

(* Initially the display is mapped exactly when there is a show thread.     *)
LEMMA PipelineInitStep == PipelineInit => PInv
<1> SUFFICES ASSUME PipelineInit PROVE PInv
  OBVIOUS
<1>1. TypeOK BY InitStep DEF PipelineInit, IInv
<1>2. QED BY <1>1 DEF PipelineInit, PInv, PipelineTypeOK, DrmInv

(* Every step keeps the types, and none unmaps the display under a thread   *)
(* that runs: the application unmaps it after the join.                     *)
LEMMA PipelineStep == IInv /\ PInv /\ [PipelineNext]_pvars => PInv'
<1> SUFFICES ASSUME IInv, PInv, [PipelineNext]_pvars PROVE PInv'
  OBVIOUS
<1>1. TypeOK' BY PipelineStepIsBufferStep, Step DEF IInv
<1> USE DEF PInv, PipelineTypeOK, DrmInv
<1>2. CASE LoadFrame \/ UpdateSize \/ UpdateVersion \/ SetRunning
  BY <1>1, <1>2 DEF LoadFrame, UpdateSize, UpdateVersion, SetRunning, AppTo, meta, local
<1>3. CASE WriteFrame
  BY <1>1, <1>3 DEF WriteFrame, AppTo, meta, local
<1>4. CASE Stop \/ StopExit
  BY <1>1, <1>4 DEF Stop, StopExit, AppTo, meta, local
<1>5. CASE ShowStart \/ ShowLoop \/ ShowUpdate \/ ShowPlaneFails \/ ShowSeen
  BY <1>1, <1>5 DEF ShowStart, ShowLoop, ShowUpdate, ShowPlaneFails, ShowSeen, ShowTo,
     meta, local
<1>6. CASE ShowRead \/ ShowCopy
  BY <1>1, <1>6 DEF ShowRead, ShowCopy, ShowTo, meta, local
<1>7. CASE UNCHANGED pvars
  BY <1>1, <1>7 DEF pvars, meta, local
<1>8. QED
  BY <1>2, <1>3, <1>4, <1>5, <1>6, <1>7 DEF PipelineNext, AppStep, ShowStep

(* stop() joins the show thread before drm_exit(), whatever the threads do  *)
(* and however long the video is: nothing is drawn on an unmapped display.  *)
THEOREM DisplayOutlivesShow == PipelineSpec => []UnmappedAfterShow
<1>1. PInv => UnmappedAfterShow
  BY DEF PInv, PipelineTypeOK, DrmInv, UnmappedAfterShow
<1>2. QED
  BY <1>1, PipelineIsBuffer, InitStep, Step, PipelineInitStep, PipelineStep, PTL
     DEF PipelineSpec, Spec

(* In the pipeline too no frame is torn and the frames shown are those of   *)
(* LatestFrame.                                                             *)
THEOREM PipelineShowsLatest == PipelineSpec => []TearFree /\ LatestSpec
<1>1. QED BY PipelineIsBuffer, NeverTorn, BufferImplementsLatest, PTL
=============================================================================
