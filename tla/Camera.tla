------------------------------- MODULE Camera -------------------------------
(***************************************************************************)
(* libcamera/JordanCameraWrapper.cpp, which stands between the camera      *)
(* service and Motorola's library.  The library knows no torch and puts it *)
(* out when it focuses or takes a picture: the wrapper lights it again, at *)
(* once or from a thread that waits a second.  It also translates the      *)
(* exposure between two scales.                                            *)
(*                                                                         *)
(* The service's calls, the library's callbacks and the torch thread read  *)
(* the flash mode and write the torch's file in two steps, without a lock. *)
(***************************************************************************)
EXTENDS Integers

CONSTANTS
  Types,      \* of the camera: "soc" and "bayer"
  Requests,   \* what applications set: the scene and flash modes and the
              \* exposure, in thirds
  MaxUsers    \* holders of the one instance

ASSUME CameraAssumption ==
  /\ Types \subseteq {"soc", "bayer"} /\ MaxUsers \in Nat
  /\ \A r \in Requests : r.exposure \in -9 .. 9 /\ r.flash # "unset"

VARIABLES
  users,                       \* strong references to the instance
  mCameraType,
  mFlashMode,                  \* "unset": the empty string of a new instance
  flash_light,                 \* the torch's file: lit
  at, sees,                    \* where each thread is; what its toggle read
  changed, exitPending,        \* oldFlashMode != mFlashMode; of the thread
  picture, focus,              \* of the library: "no", "going" or, with the
                               \* torch put out, "dark"
  asking, exposure, offset,    \* the exposure passed on, the one accepted,
                               \* and mot-exposure-offset, in hundredths
  stale, overtaken             \* threads whose toggle read what changed since;
                               \* the torch was last written so

lib == <<picture, focus>>
params == <<asking, exposure, offset>>
cameraVars == <<users, mCameraType, mFlashMode, flash_light, at, sees, changed, exitPending,
          lib, params, stale, overtaken>>

Threads == {"app", "callback", "torch"}
Soc == mCameraType = "soc"
Free(t) == at[t] = "out"
Goes(t, place) == at' = [at EXCEPT ![t] = place]

CameraInit ==
  /\ users = 0 /\ mCameraType \in Types /\ mFlashMode = "unset" /\ flash_light = FALSE
  /\ at = [t \in Threads |-> "out"] /\ sees = [t \in Threads |-> FALSE]
  /\ changed = FALSE /\ exitPending = FALSE
  /\ picture = "no" /\ focus = "no"
  /\ asking = 0 /\ exposure = 0 /\ offset = 0
  /\ stale = {} /\ overtaken = FALSE

-----------------------------------------------------------------------------
(* toggleTorchIfNeeded *)

Toggling == IF Soc THEN "read" ELSE "out"

ToggleReads(t) ==
  /\ at[t] = "read"
  /\ sees' = [sees EXCEPT ![t] = mFlashMode = "torch"] /\ Goes(t, "write")
  /\ UNCHANGED <<users, mCameraType, mFlashMode, flash_light, changed, exitPending, lib, params,
                 stale, overtaken>>

\* setSocTorchMode
ToggleWrites(t) ==
  /\ at[t] = "write"
  /\ flash_light' = sees[t] /\ sees' = [sees EXCEPT ![t] = FALSE] /\ Goes(t, "out")
  /\ overtaken' = (t \in stale) /\ stale' = stale \ {t}
  /\ UNCHANGED <<users, mCameraType, mFlashMode, changed, exitPending, lib, params>>

-----------------------------------------------------------------------------
(* TorchEnableThread *)

ThreadWakes ==
  /\ at["torch"] = "waits" /\ Goes("torch", "check")
  /\ UNCHANGED <<users, mCameraType, mFlashMode, flash_light, sees, changed, exitPending, lib, params,
                 stale, overtaken>>

Destructing == users = 0 /\ at["app"] \in {"signal", "exit", "join"}

ThreadChecks ==
  /\ at["torch"] = "check"
  /\ Goes("torch", IF exitPending THEN "out" ELSE Toggling)
  /\ stale' = IF Destructing /\ ~exitPending THEN stale \cup {"torch"} ELSE stale
  /\ UNCHANGED <<users, mCameraType, mFlashMode, flash_light, sees, changed, exitPending, lib, params, overtaken>>

\* cancelAndWait: a signal to a thread that does not wait yet is lost.
Signal(t) ==
  /\ at[t] = "signal"
  /\ \E place \in IF at["torch"] = "waits" THEN {"waits", "check"} ELSE {at["torch"]} :
       at' = [at EXCEPT ![t] = "exit", !["torch"] = place]
  /\ UNCHANGED <<users, mCameraType, mFlashMode, flash_light, sees, changed, exitPending, lib, params,
                 stale, overtaken>>

RequestExit(t) ==
  /\ at[t] = "exit"
  /\ exitPending' = TRUE /\ Goes(t, "join")
  /\ UNCHANGED <<users, mCameraType, mFlashMode, flash_light, sees, changed, lib, params, stale, overtaken>>

\* scheduleTorch runs the thread again, the destructor does not.
RerunNever(t) == "out"
Rerun(t) == IF t = "callback" THEN "waits" ELSE "out"

Join(t) ==
  /\ at[t] = "join" /\ Free("torch")
  /\ exitPending' = FALSE
  /\ at' = [at EXCEPT ![t] = "out", !["torch"] = Rerun(t)]
  /\ UNCHANGED <<users, mCameraType, mFlashMode, flash_light, sees, changed, lib, params, stale, overtaken>>

-----------------------------------------------------------------------------
(* The camera service's calls, one at a time.                              *)

\* createInstance; a failure leaves nothing behind.
Open ==
  /\ Free("app") /\ users < MaxUsers
  /\ users' = users + 1
  /\ IF users > 0 THEN UNCHANGED <<mFlashMode, params>>
     ELSE mFlashMode' = "unset" /\ asking' = 0 /\ exposure' = 0 /\ offset' = 0
  /\ UNCHANGED <<mCameraType, flash_light, at, sees, changed, exitPending, lib, stale, overtaken>>

\* The service releases the library, which ends its callbacks, and drops its
\* reference; with the last one goes the instance.
Close ==
  /\ Free("app") /\ Free("callback") /\ users > 0
  /\ users' = users - 1 /\ picture' = "no" /\ focus' = "no"
  /\ Goes("app", IF users = 1 /\ Soc THEN "off" ELSE "out")
  /\ overtaken' = (overtaken \/ (users > 1 /\ "dark" \in {picture, focus}))
  /\ UNCHANGED <<mCameraType, mFlashMode, flash_light, sees, changed, exitPending, params, stale>>

DestructorDarkens ==
  /\ at["app"] = "off"
  /\ flash_light' = FALSE /\ overtaken' = FALSE /\ Goes("app", "signal")
  /\ stale' = IF at["torch"] \in {"read", "write"} THEN stale \cup {"torch"} ELSE stale
  /\ UNCHANGED <<users, mCameraType, mFlashMode, sees, changed, exitPending, lib, params>>

\* A scene mode decides on the flash mode.
FlashOf(r) ==
  CASE r.scene = "auto" -> r.flash
    [] r.scene \in {"portrait", "night-portrait"} -> "auto"
    [] OTHER -> "off"

ChangesNever(new) == new # new
Changes(new) == new # mFlashMode

SetParameters(r) ==
  /\ Free("app") /\ users > 0
  /\ LET new == FlashOf(r)
     IN  /\ mFlashMode' = new /\ changed' = Changes(new)
         /\ stale' = IF (new = "torch") = (mFlashMode = "torch") THEN stale
                     ELSE stale \cup {t \in Threads : at[t] = "write"}
  /\ asking' = r.exposure /\ Goes("app", "lib")
  /\ UNCHANGED <<users, mCameraType, flash_light, sees, exitPending, lib, exposure, offset, overtaken>>

Rounded(a, b) == (2 * a + b) \div (2 * b)  \* a / b, which is never a half here

\* The format drops the fraction of what is less than 0.05 above a whole
\* number, or below one by any fraction.
Even(e) == 100 * (e - 3 * Rounded(e, 3)) < 15
OffsetTruncated(e) == 100 * (e \div 3)
Offset(e) == IF Even(e) THEN 100 * Rounded(e, 3) ELSE Rounded(100 * e, 3)

\* The library accepts the parameters, or does not.
LibReturns(accepts) ==
  /\ at["app"] = "lib"
  /\ exposure' = (IF accepts THEN asking ELSE exposure)
  /\ offset' = (IF accepts THEN Offset(asking) ELSE offset)
  /\ asking' = 0 /\ changed' = FALSE
  /\ Goes("app", IF changed THEN Toggling ELSE "out")
  /\ UNCHANGED <<users, mCameraType, mFlashMode, flash_light, sees, exitPending, lib, stale, overtaken>>

\* getParameters
getExposure == Rounded(3 * offset, 100)

\* startRecording and stopRecording
Recording ==
  /\ Free("app") /\ users > 0 /\ Soc
  /\ Goes("app", "read")
  /\ UNCHANGED <<users, mCameraType, mFlashMode, flash_light, sees, changed, exitPending, lib, params,
                 stale, overtaken>>

\* takePicture and autoFocus, and their cancelling
Picture ==
  /\ Free("app") /\ users > 0
  /\ picture' = IF picture = "no" THEN "going" ELSE "no"
  /\ overtaken' = (overtaken \/ picture = "dark")
  /\ UNCHANGED <<users, mCameraType, mFlashMode, flash_light, at, sees, changed, exitPending, focus, params, stale>>

Focus ==
  /\ Free("app") /\ users > 0
  /\ focus' = IF focus = "no" THEN "going" ELSE "no"
  /\ overtaken' = (overtaken \/ focus = "dark")
  /\ UNCHANGED <<users, mCameraType, mFlashMode, flash_light, at, sees, changed, exitPending, picture, params, stale>>

-----------------------------------------------------------------------------
(* The library *)

Darkens ==
  /\ \/ picture = "going" /\ picture' = "dark" /\ UNCHANGED focus
     \/ focus = "going" /\ focus' = "dark" /\ UNCHANGED picture
  /\ Soc /\ flash_light' = FALSE
  /\ UNCHANGED <<users, mCameraType, mFlashMode, at, sees, changed, exitPending, params, stale, overtaken>>

\* notifyCb, with the message that it has focused
NotifyCb ==
  /\ Free("callback") /\ focus # "no"
  /\ focus' = "no" /\ Goes("callback", Toggling)
  /\ UNCHANGED <<users, mCameraType, mFlashMode, flash_light, sees, changed, exitPending, picture, params,
                 stale, overtaken>>

\* dataCb, with a raw image, which another may follow, or a compressed one
DataCb(last) ==
  /\ Free("callback") /\ picture # "no"
  /\ picture' = IF last THEN "no" ELSE picture
  /\ Goes("callback", IF Soc THEN "signal" ELSE "out")
  /\ UNCHANGED <<users, mCameraType, mFlashMode, flash_light, sees, changed, exitPending, focus, params,
                 stale, overtaken>>

-----------------------------------------------------------------------------
CameraNext ==
  \/ \E t \in Threads : ToggleReads(t) \/ ToggleWrites(t)
  \/ ThreadWakes \/ ThreadChecks
  \/ \E t \in {"app", "callback"} : Signal(t) \/ RequestExit(t) \/ Join(t)
  \/ Open \/ Close \/ DestructorDarkens
  \/ \E r \in Requests : SetParameters(r)
  \/ \E accepts \in BOOLEAN : LibReturns(accepts)
  \/ Recording \/ Picture \/ Focus
  \/ Darkens \/ NotifyCb \/ \E last \in BOOLEAN : DataCb(last)

CameraSpec == CameraInit /\ [][CameraNext]_cameraVars

-----------------------------------------------------------------------------
(* Between calls, callbacks and the second after a picture the torch is    *)
(* lit exactly when the flash mode of an open camera says so, whatever the *)
(* library has put out, and dark when the camera was closed; unless it was *)
(* last written by a toggle that a change of the mode or the end of the    *)
(* camera overtook, or a cancelled picture or focus left it dark.          *)
TorchAsWanted ==
  (\A t \in Threads : Free(t)) /\ picture = "no" /\ focus = "no" /\ Soc /\ ~overtaken =>
    (flash_light <=> users > 0 /\ mFlashMode = "torch")

(* The exposure read back is at most one third from the one accepted, the  *)
(* same for whole steps, within the limits that are reported, and setting  *)
(* what was read changes nothing.                                          *)
ExposureSettles ==
  /\ getExposure \in {exposure - 1, exposure, exposure + 1} \cap -9 .. 9
  /\ exposure % 3 = 0 => getExposure = exposure
  /\ Offset(getExposure) = offset
=============================================================================
