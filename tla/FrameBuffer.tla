----------------------------- MODULE FrameBuffer -----------------------------
(***************************************************************************)
(* FrameDoubleBuffer of drm_driver.cc: the capture thread writes frames,   *)
(* the show thread reads the newest one and copies it to the screen while  *)
(* the next is being written. A frame is its number; the copy of a frame   *)
(* is two steps, and between them the buffer holds part of two frames.     *)
(***************************************************************************)
EXTENDS Naturals

CONSTANTS Frames,   \* frames the camera delivers (bound)
          Torn      \* the content of a buffer in the middle of a copy

ASSUME FrameAssumption == Frames \in Nat /\ Torn \notin Nat

VARIABLES buf,       \* the two matrices
          front,     \* which of them is front_buf
          updated,
          mtx,       \* swap_mtx: its owner, or "free"
          writer, reader,   \* where the two threads are
          latest,    \* frames published so far
          seen       \* the frame being shown

vars == <<buf, front, updated, mtx, writer, reader, latest, seen>>

Slot == {0, 1}
Back == 1 - front

Init ==
  /\ buf = [s \in Slot |-> 0] /\ front = 0 /\ updated = FALSE /\ mtx = "free"
  /\ writer = "idle" /\ reader = "check" /\ latest = 0 /\ seen = 0
-----------------------------------------------------------------------------
(* write() *)

WriteBegin ==
  /\ writer = "idle" /\ mtx = "free" /\ latest < Frames
  /\ mtx' = "writer"
  /\ buf' = [buf EXCEPT ![Back] = Torn]
  /\ writer' = "copy"
  /\ UNCHANGED <<front, updated, reader, latest, seen>>

WriteEnd ==
  /\ writer = "copy"
  /\ buf' = [buf EXCEPT ![Back] = latest + 1]
  /\ writer' = "publish"
  /\ UNCHANGED <<front, updated, mtx, reader, latest, seen>>

WritePublish_OnlyFirst ==
  /\ writer = "publish"
  /\ updated' = (updated \/ latest = 0)
  /\ latest' = latest + 1
  /\ mtx' = "free"
  /\ writer' = "idle"
  /\ UNCHANGED <<buf, front, reader, seen>>

WritePublish ==
  /\ writer = "publish"
  /\ updated' = TRUE
  /\ latest' = latest + 1
  /\ mtx' = "free"
  /\ writer' = "idle"
  /\ UNCHANGED <<buf, front, reader, seen>>
-----------------------------------------------------------------------------
(* read(), and the loop of show_img() that copies the frame to the screen. *)

ReadCheck ==
  /\ reader = "check"
  /\ \/ updated /\ reader' = "lock" /\ UNCHANGED seen
     \/ ~updated /\ reader' = "show" /\ seen' = buf[front]
  /\ UNCHANGED <<buf, front, updated, mtx, writer, latest>>

ReadLock_NoWait ==
  /\ reader = "lock"
  /\ mtx' = "reader"
  /\ reader' = "swap"
  /\ UNCHANGED <<buf, front, updated, writer, latest, seen>>

ReadLock ==
  /\ reader = "lock" /\ mtx = "free"
  /\ mtx' = "reader"
  /\ reader' = "swap"
  /\ UNCHANGED <<buf, front, updated, writer, latest, seen>>

ReadSwap_KeepsFlag ==
  /\ reader = "swap"
  /\ front' = IF updated THEN Back ELSE front
  /\ mtx' = "free"
  /\ seen' = buf[front']
  /\ reader' = "show"
  /\ UNCHANGED <<buf, updated, writer, latest>>

\* The flag is tested again, the buffers change roles, and front_buf is
\* returned after the lock.
ReadSwap ==
  /\ reader = "swap"
  /\ front' = IF updated THEN Back ELSE front
  /\ updated' = FALSE
  /\ mtx' = "free"
  /\ seen' = buf[front']
  /\ reader' = "show"
  /\ UNCHANGED <<buf, writer, latest>>

ShowEnd ==
  /\ reader = "show"
  /\ reader' = "check"
  /\ UNCHANGED <<buf, front, updated, mtx, writer, latest, seen>>
-----------------------------------------------------------------------------
Write == WriteBegin \/ WriteEnd \/ WritePublish
Read == ReadCheck \/ ReadLock \/ ReadSwap \/ ShowEnd
Next == Write \/ Read

Spec == Init /\ [][Next]_vars
-----------------------------------------------------------------------------
(* The types; a frame that is shown has a number, so it is a whole one.     *)
TypeOK ==
  /\ buf \in [Slot -> 0..Frames \cup {Torn}] /\ front \in Slot
  /\ updated \in BOOLEAN /\ mtx \in {"free", "writer", "reader"}
  /\ writer \in {"idle", "copy", "publish"}
  /\ reader \in {"check", "lock", "swap", "show"}
  /\ latest \in 0..Frames /\ seen \in 0..Frames

(* The frame on its way to the screen is whole and does not change while it *)
(* is shown, although read() returns it outside the lock and the next frame *)
(* is written meanwhile.                                                    *)
TearFree == buf[front] # Torn /\ (reader = "show" => buf[front] = seen)

(* The shown frames are those of LatestFrame: the newest at the moment of   *)
(* the swap, never an older one than before.                                *)
L == INSTANCE LatestFrame WITH shown <- buf[front]
LatestSpec == L!Spec
=============================================================================
