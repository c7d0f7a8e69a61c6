----------------------- MODULE CaptureAndCodecsProofs -----------------------
(***************************************************************************)
(* Three components that hold resources of a library or a driver: that a   *)
(* captured frame stays whole while the callback reads it, that the        *)
(* buffers come back to the driver, and that a closed device keeps none,   *)
(* for any number of buffers and modes; that the list of a camera's modes  *)
(* has every format and size, for a driver's table of any length; and that *)
(* the codecs lose nothing and stamp their frames with the time, for any   *)
(* number of codecs and any rate and widths.                               *)
(***************************************************************************)
EXTENDS VideoCapture, DeviceModes, Codecs, TLAPS

\* An open device has been set up to the end: it knows the mode the driver is in,
\* and that it captures, so that closing it frees what it has.  Reading without
\* streaming needs one buffer and gives the driver none.
OpenIsSetUp ==
  dev = "open" =>
    /\ geometry = mode
    /\ capturing
    /\ io = "READ" => mapped = {0} /\ queued = {}

\* The inductive invariant: the safety properties need OpenIsSetUp, and each other.
CaptureInv == TypeOK /\ OpenIsSetUp /\ FrameStaysWhole /\ BuffersReturn /\ CloseFreesAll
-----------------------------------------------------------------------------
LEMMA ZeroIsIndex == 0 \in Indices
BY CaptureAssumption DEF Indices

LEMMA FastestInIO ==
  ASSUME NEW supported \in SUBSET IO \ {{}}
  PROVE  Fastest(supported) \in IO
BY DEF Fastest, IO

\* What init leaves behind, whether it succeeds or not.
LEMMA NewDeviceState ==
  ASSUME NewDevice, mode \in Modes
  PROVE  /\ stop' = FALSE
         /\ dev' \in {"none", "closed", "half", "open"} /\ io' \in IO
         /\ capturing' \in BOOLEAN /\ locked' \in BOOLEAN /\ streaming' \in BOOLEAN
         /\ index' \in Indices /\ failed' \in BOOLEAN
         /\ mode' \in Modes /\ geometry' \in Modes
         /\ mapped' \subseteq Indices /\ queued' \subseteq mapped' /\ lost' = {}
         /\ io' # "READ" => mapped' = queued'
         /\ dev' # "open" => mapped' = {} /\ queued' = {}
         /\ dev' = "open" => /\ geometry' = mode' /\ capturing'
                             /\ io' = "READ" => mapped' = {0} /\ queued' = {}
<1>1. CASE InitDevice
  <2>1. PICK supported \in SUBSET IO \ {{}}, n \in 1..BufCount, asked, granted \in Modes :
          /\ dev' = "open" /\ io' = Fastest(supported)
          /\ locked' = FALSE /\ index' = 0
          /\ SetFormat(asked, granted) /\ StartCapture(n)
          /\ lost' = {} /\ failed' = FALSE
    BY <1>1 DEF InitDevice
  <2>2. io' \in IO
    BY <2>1, FastestInIO
  <2>3. 0..(n - 1) \subseteq Indices /\ {0} \subseteq Indices
    BY <2>1, CaptureAssumption, ZeroIsIndex DEF Indices
  <2>4. /\ mapped' \subseteq Indices /\ queued' \subseteq mapped'
        /\ io' # "READ" => mapped' = queued'
        /\ io' = "READ" => mapped' = {0} /\ queued' = {}
        /\ capturing' = TRUE /\ streaming' \in BOOLEAN
    BY <2>1, <2>3 DEF StartCapture
  <2>5. mode' \in Modes /\ geometry' \in Modes /\ geometry' = mode'
    BY <2>1 DEF SetFormat
  <2> QED
    BY <2>1, <2>2, <2>4, <2>5, ZeroIsIndex DEF NewDevice
<1>2. CASE InitDeviceFails
  BY <1>2, ZeroIsIndex DEF InitDeviceFails, NewDevice
<1> QED
  BY <1>1, <1>2 DEF NewDevice

\* A device that is closed has given its buffers back.
LEMMA CloseDeviceState ==
  ASSUME CaptureInv, CloseDevice
  PROVE  /\ dev' \in {"none", "closed"}
         /\ mapped' = {} /\ queued' = {} /\ lost' = {}
         /\ capturing' \in BOOLEAN /\ locked' \in BOOLEAN /\ streaming' \in BOOLEAN
         /\ UNCHANGED <<io, index, mode, geometry, failed>>
<1> USE DEF CaptureInv, TypeOK, CloseDevice, OpenIsSetUp, CloseFreesAll
<1>1. CASE dev = "open"
  BY <1>1
<1>2. CASE dev # "open"
  BY <1>2
<1> QED
  BY <1>1, <1>2
-----------------------------------------------------------------------------
LEMMA CaptureInit == Init => CaptureInv
<1> SUFFICES ASSUME Init PROVE CaptureInv
  OBVIOUS
<1>1. TypeOK
  BY ZeroIsIndex DEF Init, TypeOK, IO
<1> QED
  BY <1>1 DEF Init, CaptureInv, OpenIsSetUp, FrameStaysWhole, BuffersReturn, CloseFreesAll,
              WithCallback

\* The owner's steps that open or close a device run while no frame is with the
\* callback, or (the destructor) for the last time.
LEMMA OwnerKeeps == CaptureInv /\ Owner => CaptureInv'
<1> SUFFICES ASSUME CaptureInv, Owner PROVE CaptureInv'
  OBVIOUS
<1> USE DEF CaptureInv, OwnerStep
<1>1. CASE Start \/ Reconfigure
  <2>1. NewDevice /\ mode \in Modes
    BY <1>1 DEF Start, Reconfigure, TypeOK
  <2>2. capture' # "callback" /\ owner' = "idle"
    BY <1>1 DEF Start, Reconfigure, MutexHeld
  <2>3. capture' \in {"down", "test", "enter", "select", "callback"}
        /\ run' \in BOOLEAN /\ crashed' \in BOOLEAN
    BY <1>1 DEF Start, Reconfigure, TypeOK
  <2>4. TypeOK'
    BY <2>1, <2>2, <2>3, NewDeviceState DEF TypeOK
  <2> QED
    BY <2>1, <2>2, <2>4, NewDeviceState
    DEF OpenIsSetUp, FrameStaysWhole, BuffersReturn, CloseFreesAll, WithCallback
<1>2. CASE Release \/ Destroy
  <2>1. CloseDevice
    BY <1>2 DEF Release, Destroy
  <2>2. /\ owner' \in {"join", "gone"}
        /\ owner' = "join" => capture' # "callback"
        /\ UNCHANGED <<capture, run, crashed>> /\ stop' \in BOOLEAN
    BY <1>2 DEF Release, Destroy, MutexHeld, TypeOK
  <2>3. /\ dev' \in {"none", "closed"}
        /\ mapped' = {} /\ queued' = {} /\ lost' = {}
        /\ capturing' \in BOOLEAN /\ locked' \in BOOLEAN /\ streaming' \in BOOLEAN
        /\ UNCHANGED <<io, index, mode, geometry, failed>>
    BY <2>1, CloseDeviceState
  <2>4. TypeOK'
    BY <2>2, <2>3 DEF TypeOK
  <2>5. OpenIsSetUp' /\ CloseFreesAll'
    BY <2>3 DEF OpenIsSetUp, CloseFreesAll
  <2>6. owner' # "gone" => WithCallback' = {} /\ capture' # "callback"
    BY <2>2 DEF WithCallback
  <2>7. FrameStaysWhole' /\ BuffersReturn'
    BY <2>3, <2>6 DEF FrameStaysWhole, BuffersReturn
  <2> QED
    BY <2>4, <2>5, <2>7
<1>3. CASE SetVideoParam \/ Stop \/ Join \/ StartThrows \/ SetVideoParamThrows
           \/ ReleaseThrows \/ SetControlThrows
  <2>1. UNCHANGED deviceVars /\ UNCHANGED capture
    BY <1>3 DEF SetVideoParam, Stop, Join, StartThrows, SetVideoParamThrows, ReleaseThrows,
                SetControlThrows, Throws
  <2>2. (owner' \in {"idle", "set", "release", "join", "gone"} /\ owner # "gone") \/ UNCHANGED owner
    BY <1>3 DEF SetVideoParam, Stop, Join, StartThrows, SetVideoParamThrows, ReleaseThrows,
                SetControlThrows, Throws
  <2>3. run' \in BOOLEAN /\ stop' \in BOOLEAN /\ crashed' \in BOOLEAN
    BY <1>3 DEF SetVideoParam, Stop, Join, StartThrows, SetVideoParamThrows, ReleaseThrows,
                SetControlThrows, Throws, TypeOK
  <2>4. TypeOK'
    BY <2>1, <2>2, <2>3 DEF TypeOK, deviceVars
  <2> QED
    BY <2>1, <2>2, <2>4
    DEF OpenIsSetUp, FrameStaysWhole, BuffersReturn, CloseFreesAll, WithCallback, deviceVars
<1> QED
  BY <1>1, <1>2, <1>3 DEF Owner

\* The capture thread's buffer leaves the driver with the frame and goes back after
\* the callback.
LEMMA CaptureKeeps == CaptureInv /\ Capture => CaptureInv'
<1> SUFFICES ASSUME CaptureInv, Capture PROVE CaptureInv'
  OBVIOUS
<1> USE DEF CaptureInv, CaptureStep
<1>1. CASE EnterLoop \/ CaptureCrashes
  <2>1. /\ UNCHANGED <<owner, dev, io, capturing, index, mapped, queued, streaming, mode,
                       geometry, lost, failed>>
        /\ UNCHANGED <<run, stop>>
        /\ capture' = capture \/ capture' \in {"down", "test", "enter", "select"}
        /\ capture' # capture => capture # "callback"
        /\ locked' \in BOOLEAN /\ crashed' \in BOOLEAN
    BY <1>1 DEF EnterLoop, TestRun, LockFrame, AlreadyLocked, CaptureCrashes, TypeOK, deviceVars
  <2>2. TypeOK'
    BY <2>1 DEF TypeOK
  <2>3. WithCallback' = WithCallback
    BY <2>1 DEF WithCallback
  <2>4. OpenIsSetUp' /\ CloseFreesAll' /\ BuffersReturn'
    BY <2>1, <2>3 DEF OpenIsSetUp, CloseFreesAll, BuffersReturn
  <2>5. FrameStaysWhole'
    BY <2>1 DEF FrameStaysWhole
  <2> QED
    BY <2>2, <2>4, <2>5
<1>2. CASE FrameEnds
  <2> USE DEF FrameArrives, FrameFails, FrameUnknown
  <2>1. /\ UNCHANGED <<owner, run, stop, dev, io, capturing, locked, mapped, streaming, mode,
                       geometry, crashed>>
        /\ owner # "gone" /\ capture = "select" /\ WithCallback = {}
    BY <1>2 DEF FrameEnds, WithCallback
  <2>2. CASE FrameArrives
    <3>1. /\ dev = "open" /\ capture' = "callback" /\ lost' = lost /\ failed' = failed
          /\ index' \in mapped /\ queued' = queued \ {index'}
      BY <2>2, <2>1 DEF TypeOK, OpenIsSetUp
    <3>2. TypeOK'
      BY <3>1, <2>1 DEF TypeOK
    <3>3. OpenIsSetUp' /\ CloseFreesAll'
      BY <3>1, <2>1 DEF OpenIsSetUp, CloseFreesAll
    <3>4. FrameStaysWhole'
      BY <3>1, <2>1 DEF FrameStaysWhole, OpenIsSetUp
    <3>5. io # "READ" => index' \in queued
      BY <2>2
    <3>6. WithCallback' = {index'}
      BY <3>1 DEF WithCallback
    <3>7. BuffersReturn'
      BY <3>1, <3>5, <3>6, <2>1 DEF BuffersReturn
    <3> QED
      BY <3>2, <3>3, <3>4, <3>7
  <2>3. CASE FrameFails
    <3>1. /\ capture' = "test" /\ UNCHANGED <<lost, queued>>
          /\ index' \in Indices /\ failed' \in BOOLEAN
      BY <2>3, ZeroIsIndex DEF TypeOK
    <3>2. TypeOK'
      BY <3>1, <2>1 DEF TypeOK
    <3>3. OpenIsSetUp' /\ CloseFreesAll' /\ FrameStaysWhole'
      BY <3>1, <2>1 DEF OpenIsSetUp, CloseFreesAll, FrameStaysWhole
    <3>4. WithCallback' = {}
      BY <3>1 DEF WithCallback
    <3>5. BuffersReturn'
      BY <3>1, <3>4, <2>1 DEF BuffersReturn
    <3> QED
      BY <3>2, <3>3, <3>5
  <2>4. CASE FrameUnknown
    <3>1. /\ capture' = "test" /\ dev = "open" /\ io = "USERPTR"
          /\ index' \in queued /\ queued' = queued \ {index'} /\ lost' = lost \cup {index'}
          /\ failed' \in BOOLEAN
      BY <2>4
    <3>2. TypeOK'
      BY <3>1, <2>1 DEF TypeOK
    <3>3. OpenIsSetUp' /\ CloseFreesAll' /\ FrameStaysWhole'
      BY <3>1, <2>1 DEF OpenIsSetUp, CloseFreesAll, FrameStaysWhole
    <3>4. WithCallback' = {}
      BY <3>1 DEF WithCallback
    <3>5. BuffersReturn'
      BY <3>1, <3>4, <2>1 DEF BuffersReturn
    <3> QED
      BY <3>2, <3>3, <3>5
  <2> QED
    BY <1>2, <2>2, <2>3, <2>4 DEF FrameEnds
<1>3. CASE Unlock
  <2> USE DEF CallbackReturns, UnlockFails
  <2>1. /\ UNCHANGED <<owner, run, stop, dev, io, capturing, index, mapped, streaming, mode,
                       geometry, failed, crashed>>
        /\ capture = "callback" /\ capture' = "test" /\ locked' = FALSE /\ owner # "gone"
    BY <1>3 DEF Unlock
  <2>2. dev = "open" /\ index \in mapped \ queued /\ WithCallback = {index}
    BY <2>1 DEF FrameStaysWhole, WithCallback
  <2>3. WithCallback' = {}
    BY <2>1 DEF WithCallback
  <2>4. \/ io = "READ" /\ UNCHANGED <<queued, lost>>
        \/ io # "READ" /\ queued' = queued \cup {index} /\ lost' = lost
        \/ io # "READ" /\ queued' = queued /\ lost' = lost \cup {index}
    BY <1>3 DEF Unlock
  <2>5. TypeOK'
    BY <2>1, <2>2, <2>4 DEF TypeOK
  <2>6. OpenIsSetUp' /\ CloseFreesAll' /\ FrameStaysWhole'
    BY <2>1, <2>2, <2>4 DEF OpenIsSetUp, CloseFreesAll, FrameStaysWhole
  <2>7. BuffersReturn'
    BY <2>1, <2>2, <2>3, <2>4 DEF BuffersReturn
  <2> QED
    BY <2>5, <2>6, <2>7
<1> QED
  BY <1>1, <1>2, <1>3 DEF Capture
-----------------------------------------------------------------------------
\* The four facts, together inductive, in every reachable state.
THEOREM CaptureInvariant == Spec => []CaptureInv
<1>1. CaptureInv /\ [Next]_vars => CaptureInv'
  <2> SUFFICES ASSUME CaptureInv, [Next]_vars PROVE CaptureInv'
    OBVIOUS
  <2>1. CASE Next
    BY <2>1, OwnerKeeps, CaptureKeeps DEF Next
  <2>2. CASE UNCHANGED vars
    BY <2>2 DEF vars, deviceVars, CaptureInv, TypeOK, OpenIsSetUp, FrameStaysWhole, BuffersReturn,
                CloseFreesAll, WithCallback
  <2> QED
    BY <2>1, <2>2
<1> QED
  BY CaptureInit, <1>1, PTL DEF Spec

\* Every variable of the capture keeps its type: a buffer the driver has, or has
\* lost, is one that is mapped.
THEOREM CaptureTypeCorrect == Spec => []TypeOK
BY CaptureInvariant, PTL DEF CaptureInv

\* The buffer that the callback of operator() reads is mapped, is not the driver's to
\* write into, and has the size and format that _width, _height and _linesizes say,
\* although set_video_param and release come from another thread.
THEOREM CaptureFrameStaysWhole == Spec => []FrameStaysWhole
BY CaptureInvariant, PTL DEF CaptureInv

\* lock_frame, unlock_frame, start_capture and stop_capture lose no buffer but those
\* whose VIDIOC_QBUF failed or that the driver named wrongly.
THEOREM CaptureBuffersReturn == Spec => []BuffersReturn
BY CaptureInvariant, PTL DEF CaptureInv

\* Wherever a device is closed, by release, the destructor or set_video_param, its
\* buffers are unmapped, as the flag _capturing is then right.
THEOREM CaptureCloseFreesAll == Spec => []CloseFreesAll
BY CaptureInvariant, PTL DEF CaptureInv
-----------------------------------------------------------------------------
(* The list of modes.                                                      *)

ModesTypeOK ==
  /\ table \in Tables \cup {<<>>}
  /\ at \in Nat \X Nat \X Nat
  /\ listed \in Seq([mode : Nat \X Nat \X Nat, flag : {"E", "N"}])

\* Only even indices are asked for, and when the sizes of a format, or the formats,
\* are over, all of them have been asked for.
Walk ==
  /\ NoListing => listed = <<>>
  /\ at[3] % 2 = 0
  /\ InFormat /\ ~InSize => \A j \in DOMAIN Sizes : j < at[2]
  /\ ~InFormat => \A i \in DOMAIN table : i < at[1]

ModesInv == ModesTypeOK /\ Walk /\ ListsEverySize

\* A sequence of up to n elements.
LEMMA UpTo ==
  ASSUME NEW n \in Nat, NEW S, NEW s \in SeqsUpTo(n, S)
  PROVE  \E m \in 0..n : s \in [1..m -> S]
BY DEF SeqsUpTo

\* The driver's table is finite, and its modes are the indices below its bounds.
LEMMA TableShape ==
  ASSUME ModesTypeOK
  PROVE  /\ \E m \in 0..MaxFormats : DOMAIN table = 1..m
         /\ \A i \in DOMAIN table :
              /\ table[i].flags \subseteq {"C", "E"}
              /\ \E m \in 0..MaxSizes : DOMAIN table[i].sizes = 1..m
              /\ \A j \in DOMAIN table[i].sizes : table[i].sizes[j].intervals \in 0..MaxIntervals
<1>1. MaxFormats \in Nat /\ MaxSizes \in Nat /\ MaxIntervals \in Nat
  BY ModesAssumption
<1>2. CASE table = <<>>
  <2>1. DOMAIN table = 1..0 /\ DOMAIN table = {} /\ 0 \in 0..MaxFormats
    BY <1>1, <1>2
  <2> QED
    BY <2>1
<1>3. CASE table \in Tables
  <2>1. PICK m \in 0..MaxFormats : table \in [1..m -> Format]
    BY <1>1, <1>3, UpTo DEF Tables
  <2>2. ASSUME NEW i \in DOMAIN table
        PROVE  /\ table[i].flags \subseteq {"C", "E"}
               /\ \E l \in 0..MaxSizes : DOMAIN table[i].sizes = 1..l
               /\ \A j \in DOMAIN table[i].sizes : table[i].sizes[j].intervals \in 0..MaxIntervals
    <3>1. table[i] \in Format
      BY <2>1, <2>2
    <3>2. table[i].flags \subseteq {"C", "E"} /\ table[i].sizes \in SeqsUpTo(MaxSizes, Size)
      BY <3>1 DEF Format
    <3>3. PICK l \in 0..MaxSizes : table[i].sizes \in [1..l -> Size]
      BY <1>1, <3>2, UpTo
    <3>4. \A j \in 1..l : table[i].sizes[j] \in Size
      BY <3>3
    <3> QED
      BY <3>2, <3>3, <3>4 DEF Size
  <2> QED
    BY <2>1, <2>2
<1> QED
  BY <1>2, <1>3 DEF ModesTypeOK

LEMMA ModesShape ==
  ASSUME ModesTypeOK
  PROVE  /\ DriverModes \subseteq Nat \X Nat \X Nat
         /\ \A m \in DriverModes : m[1] >= 1 /\ m[2] >= 1
         /\ \A i, j, k \in Nat :
              <<i, j, k>> \in DriverModes <=> /\ i \in DOMAIN table
                                              /\ j \in DOMAIN table[i].sizes
                                              /\ k < table[i].sizes[j].intervals
<1>1. MaxFormats \in Nat /\ MaxSizes \in Nat /\ MaxIntervals \in Nat
  BY ModesAssumption
<1>2. \A m \in DriverModes : /\ m \in (1..MaxFormats) \X (1..MaxSizes) \X (0..MaxIntervals)
  BY DEF DriverModes
<1>3. ASSUME NEW i \in Nat, NEW j \in Nat, NEW k \in Nat,
             i \in DOMAIN table, j \in DOMAIN table[i].sizes, k < table[i].sizes[j].intervals
      PROVE  <<i, j, k>> \in DriverModes
  <2>1. i \in 1..MaxFormats /\ j \in 1..MaxSizes /\ k \in 0..MaxIntervals
    <3>1. PICK m \in 0..MaxFormats : DOMAIN table = 1..m
      BY TableShape
    <3>2. PICK l \in 0..MaxSizes : DOMAIN table[i].sizes = 1..l
      BY <1>3, TableShape
    <3>3. table[i].sizes[j].intervals \in 0..MaxIntervals
      BY <1>3, TableShape
    <3> QED
      BY <1>1, <1>3, <3>1, <3>2, <3>3
  <2> QED
    BY <1>3, <2>1 DEF DriverModes
<1>4. \A i, j, k \in Nat : <<i, j, k>> \in DriverModes =>
        /\ i \in DOMAIN table /\ j \in DOMAIN table[i].sizes /\ k < table[i].sizes[j].intervals
  BY DEF DriverModes
<1> QED
  BY <1>1, <1>2, <1>3, <1>4

LEMMA AtParts ==
  ASSUME ModesTypeOK
  PROVE  at = <<at[1], at[2], at[3]>> /\ at[1] \in Nat /\ at[2] \in Nat /\ at[3] \in Nat
BY DEF ModesTypeOK

\* The listing goes on from mode to mode: no mode of the driver is passed over
\* but those with an odd index.
LEMMA ListIntervalStep ==
  ASSUME ModesInv, ListInterval
  PROVE  ModesInv'
<1> DEFINE i == at[1]
           j == at[2]
           k == at[3]
           entry == [mode |-> at, flag |-> Flag]
<1>1. /\ ModesTypeOK /\ Walk /\ ListsEverySize /\ HasInterval
      /\ listed' = Append(listed, entry) /\ at' = [at EXCEPT ![3] = @ + 2]
      /\ table' = table
  BY DEF ModesInv, ListInterval
<1>2. /\ i \in Nat /\ j \in Nat /\ k \in Nat /\ at = <<i, j, k>>
      /\ at' = <<i, j, k + 2>> /\ k % 2 = 0
  BY <1>1, AtParts DEF Walk
<1>3. DriverModes' = DriverModes /\ at \in DriverModes
  <2>1. i \in DOMAIN table /\ j \in DOMAIN table[i].sizes /\ k < table[i].sizes[j].intervals
    BY <1>1 DEF HasInterval, InSize, InFormat, Sizes
  <2>2. <<i, j, k>> \in DriverModes
    BY <1>1, <1>2, <2>1, ModesShape
  <2> QED
    BY <1>1, <1>2, <2>2 DEF DriverModes
<1>4. /\ entry.mode = at /\ entry \in [mode : Nat \X Nat \X Nat, flag : {"E", "N"}]
  BY <1>1, <1>2 DEF Flag
<1> DEFINE n == Len(listed) + 1
<1> HIDE DEF entry, i, j, k
<1>5. /\ DOMAIN listed = 1..Len(listed) /\ Len(listed) \in Nat
      /\ DOMAIN listed' = 1..n /\ listed'[n] = entry
      /\ \A l \in DOMAIN listed : listed'[l] = listed[l]
      /\ listed' \in Seq([mode : Nat \X Nat \X Nat, flag : {"E", "N"}])
  BY <1>1, <1>4 DEF ModesTypeOK
<1>6. /\ \A l \in DOMAIN listed' : l \in DOMAIN listed \/ l = n
      /\ \A l \in DOMAIN listed : l \in DOMAIN listed' /\ l < n /\ ~(n < l)
      /\ n \in DOMAIN listed' /\ ~(n < n)
  BY <1>5
<1> HIDE DEF n
<1>7. ListedModes' = ListedModes \cup {at}
  <2>1. /\ ListedModes = {listed[l].mode : l \in DOMAIN listed}
        /\ ListedModes' = {listed'[l].mode : l \in DOMAIN listed'}
    BY DEF ListedModes
  <2>2. \A l \in DOMAIN listed : listed'[l].mode = listed[l].mode
    BY <1>5
  <2>3. listed'[n].mode = at
    BY <1>4, <1>5
  <2> QED
    BY <1>6, <2>1, <2>2, <2>3
<1>8. ASSUME NEW m \in DriverModes, m[3] % 2 = 0
      PROVE  Before(m, at') <=> Before(m, at) \/ m = at
  <2>1. /\ m[1] \in Nat /\ m[2] \in Nat /\ m[3] \in Nat
        /\ m = <<m[1], m[2], m[3]>>
    BY <1>1, ModesShape
  <2>2. m[3] # k + 1
    BY <1>2, <1>8, <2>1
  <2>3. m[3] < k + 2 <=> m[3] < k \/ m[3] = k
    BY <1>2, <2>1, <2>2
  <2>4. /\ at'[1] = i /\ at'[2] = j /\ at'[3] = k + 2
        /\ at[1] = i /\ at[2] = j /\ at[3] = k
    BY <1>2
  <2>5. m = at <=> m[1] = i /\ m[2] = j /\ m[3] = k
    BY <1>2, <2>1
  <2>6. ~(i < i) /\ ~(j < j) /\ ~(k < k)
    BY <1>2
  <2> QED
    BY <2>3, <2>4, <2>5, <2>6 DEF Before
<1>9. ListedModes' = {m \in DriverModes' : m[3] % 2 = 0 /\ Before(m, at')}
  <2>1. ListedModes = {m \in DriverModes : m[3] % 2 = 0 /\ Before(m, at)}
    BY <1>1 DEF ListsEverySize
  <2>2. at[3] % 2 = 0
    BY <1>1 DEF Walk
  <2> QED
    BY <1>3, <1>7, <1>8, <2>1, <2>2
<1>10. \A l, q \in DOMAIN listed' : l < q => Before(listed'[l].mode, listed'[q].mode)
  <2>1. \A l, q \in DOMAIN listed : l < q => Before(listed[l].mode, listed[q].mode)
    BY <1>1 DEF ListsEverySize
  <2>2. \A l \in DOMAIN listed : Before(listed[l].mode, at)
    BY <1>1 DEF ListsEverySize, ListedModes
  <2> QED
    BY <1>4, <1>5, <1>6, <2>1, <2>2
<1>11. ModesTypeOK'
  BY <1>1, <1>2, <1>5 DEF ModesTypeOK
<1>12. Walk'
  <2>1. ~NoListing'
    BY <1>1, <1>3 DEF HasInterval, InSize, InFormat, NoListing
  <2>2. (k + 2) % 2 = 0
    BY <1>2
  <2>3. InFormat' /\ InSize' /\ at'[3] = k + 2
    BY <1>1, <1>2 DEF HasInterval, InSize, InFormat, Sizes
  <2> QED
    BY <2>1, <2>2, <2>3 DEF Walk
<1> QED
  BY <1>9, <1>10, <1>11, <1>12 DEF ModesInv, ListsEverySize

\* A size, or a format, that is over has no mode left.
LEMMA NextPlaceStep ==
  ASSUME ModesInv, NextSize \/ NextFormat
  PROVE  ModesInv'
<1> DEFINE i == at[1]
           j == at[2]
           k == at[3]
<1>1. /\ ModesTypeOK /\ Walk /\ ListsEverySize /\ InFormat
      /\ UNCHANGED <<table, listed>>
      /\ i \in Nat /\ j \in Nat /\ k \in Nat /\ at = <<i, j, k>>
  BY AtParts DEF ModesInv, NextSize, NextFormat, InSize
<1>2. DriverModes' = DriverModes /\ ListedModes' = ListedModes
  BY <1>1 DEF DriverModes, ListedModes
<1>3. i \in DOMAIN table /\ ~NoListing'
  BY <1>1 DEF InFormat, NoListing
<1>4. PICK z \in Nat : DOMAIN table[i].sizes = 1..z
  BY <1>3, <1>1, TableShape
<1> HIDE DEF i, j, k
<1>5. ASSUME NEW m \in DriverModes
      PROVE  /\ m[1] \in Nat /\ m[2] \in Nat /\ m[3] \in Nat
             /\ m[2] >= 1
             /\ m[1] = i => m[2] \in DOMAIN table[i].sizes
             /\ m[1] = i /\ m[2] = j => m[3] < table[i].sizes[j].intervals
  BY <1>1, ModesShape DEF DriverModes
<1>6. CASE NextSize
  <2>1. /\ at' = <<i, j + 1, 0>> /\ j \in 1..z /\ ~(k < table[i].sizes[j].intervals)
    BY <1>1, <1>4, <1>6 DEF NextSize, HasInterval, InSize, Sizes, i, j, k
  <2>2. table[i].sizes[j].intervals \in Nat
    BY <1>1, <1>3, <1>4, <2>1, TableShape, ModesAssumption
  <2>3. ASSUME NEW m \in DriverModes PROVE Before(m, at') <=> Before(m, at)
    <3>1. /\ at'[1] = i /\ at'[2] = j + 1 /\ at'[3] = 0
          /\ at[1] = i /\ at[2] = j /\ at[3] = k
      BY <1>1, <2>1
    <3>2. m[1] = i /\ m[2] = j => m[3] < k
      BY <1>1, <1>5, <2>1, <2>2
    <3>3. m[2] < j + 1 <=> m[2] < j \/ m[2] = j
      BY <1>1, <1>5
    <3>4. ~(m[3] < 0)
      BY <1>5
    <3> QED
      BY <3>1, <3>2, <3>3, <3>4 DEF Before
  <2>4. at' \in Nat \X Nat \X Nat
    BY <1>1, <2>1
  <2>5. Walk'
    <3>1. at'[1] = i /\ at'[2] = j + 1 /\ at'[3] = 0 /\ 0 % 2 = 0
      BY <2>1
    <3>2. j + 1 \notin 1..z => \A s \in 1..z : s < j + 1
      BY <1>1, <1>4, <2>1
    <3> QED
      BY <1>1, <1>3, <1>4, <3>1, <3>2 DEF Walk, InFormat, InSize, Sizes
  <2>6. ListsEverySize'
    BY <1>1, <1>2, <2>3 DEF ListsEverySize
  <2> QED
    BY <1>1, <2>4, <2>5, <2>6 DEF ModesInv, ModesTypeOK
<1>7. CASE NextFormat
  <2>1. /\ at' = <<i + 1, 1, 0>> /\ \A s \in 1..z : s < j
    BY <1>1, <1>4, <1>7 DEF NextFormat, Walk, Sizes, i, j, k
  <2>2. ASSUME NEW m \in DriverModes PROVE Before(m, at') <=> Before(m, at)
    <3>1. /\ at'[1] = i + 1 /\ at'[2] = 1 /\ at'[3] = 0
          /\ at[1] = i /\ at[2] = j /\ at[3] = k
      BY <1>1, <2>1
    <3>2. m[1] = i => m[2] < j
      BY <1>4, <1>5, <2>1
    <3>3. m[1] < i + 1 <=> m[1] < i \/ m[1] = i
      BY <1>1, <1>5
    <3>4. ~(m[3] < 0) /\ ~(m[2] < 1)
      BY <1>5
    <3> QED
      BY <3>1, <3>2, <3>3, <3>4 DEF Before
  <2>3. at' \in Nat \X Nat \X Nat
    BY <1>1, <2>1
  <2>4. Walk'
    <3>1. at'[1] = i + 1 /\ at'[2] = 1 /\ at'[3] = 0 /\ 0 % 2 = 0
      BY <2>1
    <3>2. ASSUME InFormat', ~InSize' PROVE \A s \in DOMAIN Sizes' : s < at'[2]
      <4>1. i + 1 \in DOMAIN table
        BY <1>1, <3>1, <3>2 DEF InFormat
      <4>2. PICK y \in Nat : DOMAIN table[i + 1].sizes = 1..y
        BY <1>1, <4>1, TableShape
      <4>3. 1 \notin 1..y /\ Sizes' = table[i + 1].sizes
        BY <1>1, <3>1, <3>2, <4>2 DEF InSize, Sizes
      <4> QED
        BY <3>1, <4>2, <4>3
    <3>3. ASSUME ~InFormat' PROVE \A f \in DOMAIN table' : f < at'[1]
      <4>1. PICK y \in Nat : DOMAIN table = 1..y
        BY <1>1, TableShape
      <4>2. i \in 1..y /\ i + 1 \notin 1..y
        BY <1>1, <1>3, <3>1, <3>3, <4>1 DEF InFormat
      <4>3. \A f \in 1..y : f < i + 1
        BY <1>1, <4>2
      <4> QED
        BY <1>1, <3>1, <4>1, <4>3
    <3> QED
      BY <1>3, <3>1, <3>2, <3>3 DEF Walk
  <2>5. ListsEverySize'
    BY <1>1, <1>2, <2>2 DEF ListsEverySize
  <2> QED
    BY <1>1, <2>3, <2>4, <2>5 DEF ModesInv, ModesTypeOK
<1> QED
  BY <1>6, <1>7

\* A listing starts before all modes, and when it ends, the list has been read.
LEMMA ListingStartsAndEnds ==
  ASSUME ModesInv, BeginListing \/ EndListing
  PROVE  ModesInv'
<1>1. CASE BeginListing
  <2>1. /\ table' \in Tables /\ at' = <<1, 1, 0>> /\ listed' = <<>> /\ listed = <<>>
    BY <1>1 DEF BeginListing, ModesInv, Walk
  <2>2. ModesTypeOK'
    BY <2>1 DEF ModesTypeOK
  <2>3. \A m \in DriverModes' : ~Before(m, at')
    <3>1. \A m \in DriverModes' : /\ m[1] \in 1..MaxFormats /\ m[2] \in 1..MaxSizes
                                  /\ m[3] \in 0..MaxIntervals
      BY DEF DriverModes
    <3>2. at'[1] = 1 /\ at'[2] = 1 /\ at'[3] = 0
      BY <2>1
    <3> QED
      BY <3>1, <3>2, ModesAssumption DEF Before
  <2>4. ListsEverySize'
    BY <2>1, <2>3 DEF ListsEverySize, ListedModes
  <2>5. Walk'
    <3>1. at'[1] = 1 /\ at'[2] = 1 /\ at'[3] = 0 /\ 0 % 2 = 0
      BY <2>1
    <3>2. ASSUME InFormat', ~InSize' PROVE \A s \in DOMAIN Sizes' : s < at'[2]
      <4>1. 1 \in DOMAIN table' /\ Sizes' = table'[1].sizes /\ 1 \notin DOMAIN Sizes'
        BY <3>1, <3>2 DEF InFormat, InSize, Sizes
      <4>2. table' \in SeqsUpTo(MaxFormats, Format)
        BY <2>1 DEF Tables
      <4>3. table'[1].sizes \in SeqsUpTo(MaxSizes, Size)
        <5>1. PICK m \in 0..MaxFormats : table' \in [1..m -> Format]
          BY <4>2, UpTo, ModesAssumption
        <5>2. table'[1] \in Format
          BY <4>1, <5>1
        <5> QED
          BY <5>2 DEF Format
      <4>4. PICK y \in 0..MaxSizes : table'[1].sizes \in [1..y -> Size]
        BY <4>3, UpTo, ModesAssumption
      <4>5. DOMAIN Sizes' = {}
        BY <4>1, <4>4
      <4> QED
        BY <4>5
    <3>3. ASSUME ~InFormat' PROVE DOMAIN table' = {}
      <4>1. PICK y \in 0..MaxFormats : table' \in [1..y -> Format]
        BY <2>1, UpTo, ModesAssumption DEF Tables
      <4>2. 1 \notin 1..y
        BY <3>1, <3>3, <4>1 DEF InFormat
      <4>3. y = 0
        BY <4>2, ModesAssumption
      <4> QED
        BY <4>1, <4>3
    <3> QED
      BY <2>1, <3>1, <3>2, <3>3 DEF Walk
  <2> QED
    BY <2>2, <2>4, <2>5 DEF ModesInv
<1>2. CASE EndListing
  <2>1. table' = <<>> /\ at' = <<0, 0, 0>> /\ listed' = <<>>
    BY <1>2 DEF EndListing
  <2>2. DOMAIN table' = {} /\ DOMAIN listed' = {} /\ at'[3] = 0 /\ 0 % 2 = 0
    BY <2>1
  <2>3. ModesTypeOK'
    BY <2>1 DEF ModesTypeOK
  <2>4. Walk'
    BY <2>1, <2>2 DEF Walk, InFormat
  <2>5. ListsEverySize'
    BY <2>2 DEF ListsEverySize, ListedModes, DriverModes
  <2> QED
    BY <2>3, <2>4, <2>5 DEF ModesInv
<1> QED
  BY <1>1, <1>2

\* The list and the place in the driver's table agree in every state.
THEOREM ModesInvariant == ModesSpec => []ModesInv
<1>1. ModesInit => ModesInv
  <2> SUFFICES ASSUME ModesInit PROVE ModesInv
    OBVIOUS
  <2>1. /\ table = <<>> /\ DOMAIN table = {} /\ listed = <<>> /\ DOMAIN listed = {}
        /\ at = <<0, 0, 0>> /\ at[3] = 0 /\ 0 % 2 = 0
    BY DEF ModesInit
  <2>2. ModesTypeOK
    BY <2>1 DEF ModesTypeOK
  <2> QED
    BY <2>1, <2>2
    DEF ModesInv, Walk, InFormat, ListsEverySize, ListedModes, DriverModes
<1>2. ModesInv /\ [ListNext]_modeVars => ModesInv'
  <2> SUFFICES ASSUME ModesInv, [ListNext]_modeVars PROVE ModesInv'
    OBVIOUS
  <2>1. CASE UNCHANGED modeVars
    BY <2>1 DEF modeVars, ModesInv, ModesTypeOK, Walk, NoListing, InFormat, InSize, Sizes,
                ListsEverySize, ListedModes, DriverModes
  <2> QED
    BY <2>1, ListIntervalStep, NextPlaceStep, ListingStartsAndEnds DEF ListNext
<1> QED
  BY <1>1, <1>2, PTL DEF ModesSpec

\* Every mode whose index is even, and no other, is in the list when the formats
\* are over.
ListIsComplete ==
  ~NoListing /\ ~InFormat => ListedModes = {m \in DriverModes : m[3] % 2 = 0}

\* My_Video_Device lists every format and size of the driver, each with its first,
\* third, fifth ... interval, in the driver's order and once, whatever the driver's
\* table, and however often it is asked.
THEOREM ModesListsEverySize == ModesSpec => []ListsEverySize
BY ModesInvariant, PTL DEF ModesInv

\* ... so that init, when it returns, has in _my_device_info what the driver can do,
\* but for every second interval.
THEOREM ModesListIsComplete == ModesSpec => []ListIsComplete
<1>1. ModesInv => ListIsComplete
  <2> SUFFICES ASSUME ModesInv, ~NoListing, ~InFormat
               PROVE  ListedModes = {m \in DriverModes : m[3] % 2 = 0}
    BY DEF ListIsComplete
  <2>1. \A m \in DriverModes : m[1] < at[1]
    BY DEF ModesInv, Walk, DriverModes
  <2> QED
    BY <2>1 DEF ModesInv, ListsEverySize, Before
<1> QED
  BY ModesInvariant, <1>1, PTL
-----------------------------------------------------------------------------
(* The codecs.  Division and remainders of integers.                       *)

LEMMA DivBounds ==
  ASSUME NEW x \in Int, NEW u \in Nat \ {0}
  PROVE  /\ x \div u \in Int
         /\ u * (x \div u) <= x
         /\ x < u * (x \div u) + u
  OBVIOUS

LEMMA ModBounds ==
  ASSUME NEW x \in Int, NEW u \in Nat \ {0}
  PROVE  /\ x % u \in 0..(u-1)
         /\ x = u * (x \div u) + (x % u)
  OBVIOUS

LEMMA Between ==
  ASSUME NEW p \in Int, NEW q \in Int, NEW u \in Nat \ {0}, u * p < u * q + u
  PROVE  p <= q
<1>1. SUFFICES ASSUME p >= q + 1 PROVE FALSE
  OBVIOUS
<1>2. u * p >= u * (q + 1)
  BY <1>1
<1>3. u * (q+1) = u * q + u
  OBVIOUS
<1>4. QED
  BY <1>2, <1>3

LEMMA DivAdd ==
  ASSUME NEW x \in Int, NEW y \in Int, NEW u \in Nat \ {0}
  PROVE  (x + y) \div u - x \div u - y \div u \in {0, 1}
<1> DEFINE p == x \div u
<1> DEFINE q == y \div u
<1> DEFINE r == (x + y) \div u
<1>1. p \in Int /\ u * p <= x /\ x < u * p + u
  BY DivBounds
<1>2. q \in Int /\ u * q <= y /\ y < u * q + u
  BY DivBounds
<1>3. r \in Int /\ u * r <= x + y /\ x + y < u * r + u
  BY DivBounds, x + y \in Int
<1> HIDE DEF p, q, r
<1>4. p + q <= r
  <2>1. u * (p + q) = u * p + u * q
    BY <1>1, <1>2
  <2>2. u * (p + q) < u * r + u
    BY <2>1, <1>1, <1>2, <1>3
  <2>3. QED
    BY <2>2, <1>1, <1>2, <1>3, p + q \in Int, Between
<1>5. r <= p + q + 1
  <2>1. u * (p + q + 1) = u * p + u * q + u
    BY <1>1, <1>2
  <2>2. u * r < u * (p + q + 1) + u
    BY <2>1, <1>1, <1>2, <1>3
  <2>3. QED
    BY <2>2, <1>1, <1>2, <1>3, p + q + 1 \in Int, Between
<1>6. r - p - q \in {0, 1}
  BY <1>1, <1>2, <1>3, <1>4, <1>5
<1>7. QED
  BY <1>6 DEF p, q, r

LEMMA ModShift ==
  ASSUME NEW z \in Int, NEW k \in Int, NEW u \in Nat \ {0}
  PROVE  (z + u * k) % u = z % u
<1> DEFINE p == z \div u
<1> DEFINE q == (z + u * k) \div u
<1>1. p \in Int /\ u * p <= z /\ z < u * p + u /\ z = u * p + (z % u)
  BY DivBounds, ModBounds
<1>2. z + u * k \in Int
  OBVIOUS
<1>3. q \in Int /\ u * q <= z + u * k /\ z + u * k < u * q + u /\ z + u * k = u * q + ((z + u * k) % u)
  BY <1>2, DivBounds, ModBounds
<1>4. z % u \in Int /\ (z + u * k) % u \in Int
  BY <1>2
<1> HIDE DEF p, q
<1>5. u * (p + k) = u * p + u * k /\ p + k \in Int
  BY <1>1
<1>6. p + k <= q
  BY <1>1, <1>3, <1>5, u * (p + k) < u * q + u, Between
<1>7. q <= p + k
  BY <1>1, <1>3, <1>5, u * q < u * (p + k) + u, Between
<1>8. q = p + k
  BY <1>1, <1>3, <1>6, <1>7
<1>9. u * q = u * p + u * k
  BY <1>5, <1>8
<1>10. QED
  BY <1>1, <1>3, <1>4, <1>9
-----------------------------------------------------------------------------
(* What an object holds.                                                   *)

LEMMA FirstOfDecoder ==
  ASSUME NEW n \in 0..3
  PROVE  /\ First("ffmpeg", n) \subseteq All("ffmpeg")
         /\ n # 0 => "codec" \in First("ffmpeg", n)
         /\ n = 0 => First("ffmpeg", n) = {}
<1>1. Steps["ffmpeg"] = <<"codec", "context", "open", "frame">>
  BY DEF Steps
<1>2. Len(Steps["ffmpeg"]) = 4
  BY <1>1
<1>3. First("ffmpeg", n) \subseteq All("ffmpeg")
  BY <1>2 DEF First, All
<1>4. ASSUME n # 0 PROVE "codec" \in First("ffmpeg", n)
  <2>1. 1 \in 1..n
    BY <1>4
  <2>2. Steps["ffmpeg"][1] = "codec"
    BY <1>1
  <2>3. QED
    BY <2>1, <2>2 DEF First
<1>5. n = 0 => First("ffmpeg", n) = {}
  BY DEF First
<1>6. QED
  BY <1>3, <1>4, <1>5

LEMMA AllPieces ==
  /\ All("ffmpeg") = {"codec", "context", "open", "frame"}
  /\ All("h264") = {"encoder", "picture"}
  /\ All("h265") = {"param", "picture", "encoder"}
<1>1. Steps["ffmpeg"] = <<"codec", "context", "open", "frame">> /\ 1..4 = {1, 2, 3, 4}
  BY DEF Steps
<1>2. Steps["h264"] = <<"encoder", "picture">> /\ 1..2 = {1, 2}
  BY DEF Steps
<1>3. Steps["h265"] = <<"param", "picture", "encoder">> /\ 1..3 = {1, 2, 3}
  BY DEF Steps
<1>4. All("ffmpeg") = {"codec", "context", "open", "frame"}
  BY <1>1 DEF All, First
<1>5. All("h264") = {"encoder", "picture"}
  BY <1>2 DEF All, First
<1>6. All("h265") = {"param", "picture", "encoder"}
  BY <1>3 DEF All, First
<1>7. QED
  BY <1>4, <1>5, <1>6

\* What an object of a type may hold: a decoder all or nothing, an encoder what
\* its release knows of.
Holds(type, pieces) ==
  /\ type = "ffmpeg" => pieces \in {{}, All("ffmpeg")}
  /\ type = "h264" => pieces \subseteq All("h264") \cup {"nalu_buf"}
  /\ type = "h265" => pieces \subseteq All("h265")

HoldingsInv ==
  /\ held \in [Addresses -> SUBSET (All("ffmpeg") \cup All("h264") \cup All("h265") \cup {"nalu_buf"})]
  /\ codec \in [Addresses -> Types \cup {Null}]
  /\ \A a \in Addresses : Holds(codec[a], held[a])

\* The releases give back all that an object may hold, at whatever step its init
\* failed.
LEMMA ReleaseDecoder ==
  /\ \A pieces : Holds("ffmpeg", pieces) => AfterRelease(pieces) = {}
  /\ \A n \in 0..3 : AfterRelease(First("ffmpeg", n)) = {}
<1>1. AfterRelease({}) = {}
  BY DEF AfterRelease
<1>2. ASSUME NEW pieces, pieces \subseteq All("ffmpeg"), "codec" \in pieces
      PROVE  AfterRelease(pieces) = {}
  BY <1>2, AllPieces DEF AfterRelease
<1>3. ASSUME NEW pieces, Holds("ffmpeg", pieces) PROVE AfterRelease(pieces) = {}
  <2>1. CASE pieces = {}
    BY <2>1, <1>1
  <2>2. CASE pieces = All("ffmpeg")
    BY <2>2, <1>2, AllPieces
  <2>3. QED
    BY <1>3, <2>1, <2>2 DEF Holds
<1>4. ASSUME NEW n \in 0..3 PROVE AfterRelease(First("ffmpeg", n)) = {}
  <2>1. CASE n = 0
    BY <2>1, <1>1, FirstOfDecoder
  <2>2. CASE n # 0
    BY <2>2, <1>2, FirstOfDecoder
  <2>3. QED
    BY <2>1, <2>2
<1>5. QED
  BY <1>3, <1>4

LEMMA ReleaseEncoder ==
  ASSUME NEW type \in EncoderTypes, NEW pieces, Holds(type, pieces)
  PROVE  AfterEncoderRelease(type, pieces) = {}
  BY AllPieces DEF EncoderTypes, Holds, AfterEncoderRelease

LEMMA NoneStrays ==
  ASSUME NEW type, NEW how, Strays(type, {}, how)
  PROVE  astray' = astray
  BY DEF Strays

LEMMA NewHolds == ASSUME NEW type \in Types PROVE Holds(type, All(type))
  BY DEF Holds, Types, Steps

LEMMA MadeHolds ==
  ASSUME HoldingsInv, NEW a \in Addresses, NEW type \in Types, New(a, type)
  PROVE  HoldingsInv'
<1>1. Holds(type, All(type))
  BY NewHolds
<1>2. type \in {"ffmpeg", "h264", "h265"}
  BY DEF Types, Steps
<1>3. QED
  BY <1>1, <1>2 DEF HoldingsInv, New

LEMMA FreedHolds ==
  ASSUME HoldingsInv, NEW a \in Addresses, Freed(a)
  PROVE  HoldingsInv'
<1>1. Holds(Null, {})
  BY DEF Holds
<1>2. QED
  BY <1>1 DEF HoldingsInv, Freed

LEMMA HoldingsStep ==
  ASSUME HoldingsInv, [CodecsNext]_codecsVars
  PROVE  HoldingsInv'
<1>1. CASE UNCHANGED objects
  BY <1>1 DEF HoldingsInv, objects
<1>2. ASSUME NEW a \in Addresses, CreateDecoder(a) PROVE HoldingsInv'
  BY <1>2, MadeHolds, "ffmpeg" \in Types DEF CreateDecoder, Types, Steps
<1>3. ASSUME NEW a \in Addresses, NEW type \in EncoderTypes, CreateEncoder(a, type)
      PROVE  HoldingsInv'
  BY <1>3, MadeHolds, type \in Types DEF CreateEncoder, EncoderTypes, Types, Steps
<1>4. ASSUME NEW a \in Addresses, Freed(a) PROVE HoldingsInv'
  BY <1>4, FreedHolds
<1>5. ASSUME NEW a \in Addresses, NEW t, Encode(a, t) PROVE HoldingsInv'
  <2>1. Holds(codec[a], held[a]) /\ codec' = codec
    BY <1>5 DEF HoldingsInv, Encode
  <2>2. CASE codec[a] = "h264"
    <3>1. held' = [held EXCEPT ![a] = held[a] \cup {"nalu_buf"}]
      BY <1>5, <2>2 DEF Encode
    <3>2. Holds(codec[a], held[a] \cup {"nalu_buf"})
      BY <2>1, <2>2 DEF Holds
    <3>3. QED
      BY <2>1, <3>1, <3>2 DEF HoldingsInv
  <2>3. CASE codec[a] # "h264"
    <3>1. held' = held
      BY <1>5, <2>3 DEF Encode, HoldingsInv
    <3>2. QED
      BY <2>1, <3>1 DEF HoldingsInv
  <2>4. QED
    BY <2>2, <2>3
<1>6. QED
  BY <1>1, <1>2, <1>3, <1>4, <1>5
  DEF CodecsNext, Decoders, Encoders, CreateDecoderFails, DestroyDecoder, DestroyNoDecoder,
      DeleteDecoder, NoPicture, CreateH265Fails, DestroyEncoder, codecsVars, objects

LEMMA StraysStep ==
  ASSUME HoldingsInv, NothingStrays, [CodecsNext]_codecsVars
  PROVE  NothingStrays'
<1>1. CASE UNCHANGED astray
  BY <1>1 DEF NothingStrays
<1>2. ASSUME NEW n \in 0..3, CreateDecoderFails(n) PROVE UNCHANGED astray
  BY <1>2, ReleaseDecoder, NoneStrays DEF CreateDecoderFails
<1>3. ASSUME NEW a \in Addresses, DestroyDecoder(a) PROVE UNCHANGED astray
  BY <1>3, ReleaseDecoder, NoneStrays DEF DestroyDecoder, HoldingsInv
<1>4. ASSUME NEW a \in Addresses, DestroyEncoder(a) PROVE UNCHANGED astray
  BY <1>4, ReleaseEncoder, NoneStrays DEF DestroyEncoder, HoldingsInv
<1>5. ASSUME NEW a \in Addresses, DeleteDecoder(a) PROVE NothingStrays'
  <2>1. held[a] \subseteq All("ffmpeg")
    BY <1>5 DEF DeleteDecoder, HoldingsInv, Holds
  <2>2. astray' = astray \cup ({"ffmpeg"} \X (held[a] \ {"codec"}) \X {"delete"})
    BY <1>5 DEF DeleteDecoder, Strays
  <2>3. {"ffmpeg"} \X (held[a] \ {"codec"}) \X {"delete"}
          \subseteq {"ffmpeg"} \X All("ffmpeg") \X {"delete"}
    BY <2>1
  <2>4. QED
    BY <2>2, <2>3 DEF NothingStrays
<1>6. CASE CreateH265Fails
  <2>1. astray' = astray \cup ({"h265"} \X ({"param"} \ {"codec"}) \X {"init"})
    BY <1>6 DEF CreateH265Fails, Strays
  <2>2. {"h265"} \X ({"param"} \ {"codec"}) \X {"init"} \subseteq {<<"h265", "param", "init">>}
    OBVIOUS
  <2>3. QED
    BY <2>1, <2>2 DEF NothingStrays
<1>7. QED
  BY <1>1, <1>2, <1>3, <1>4, <1>5, <1>6
  DEF CodecsNext, Decoders, Encoders, CreateDecoder, DestroyNoDecoder, CreateEncoder,
      NoPicture, Encode, codecsVars

\* Nothing that a codec's library gave out is lost, at whatever step an init
\* failed, but for what two paths of the code forget: NothingStrays, for every
\* number of codecs.
THEOREM CodecsNothingStrays == CodecsSpec => []NothingStrays
<1>1. CodecsInit => HoldingsInv /\ NothingStrays
  BY DEF CodecsInit, HoldingsInv, NothingStrays, Holds
<1>2. HoldingsInv /\ NothingStrays /\ [CodecsNext]_codecsVars => (HoldingsInv /\ NothingStrays)'
  BY HoldingsStep, StraysStep
<1>3. QED
  BY <1>1, <1>2, PTL DEF CodecsSpec
-----------------------------------------------------------------------------
(* The timestamps.                                                         *)

\* An encoder's last frame has the timestamp of its time.
TimesInv ==
  /\ elapsed \in [Addresses -> 0..MaxElapsed]
  /\ stamp \in [Addresses -> Int]
  /\ \A a \in Addresses : stamp[a] # -1 => stamp[a] = Stamp(elapsed[a])

\* After the first Lead units neither the subtraction nor the product wraps.
LEMMA StampOf ==
  ASSUME NEW t \in Lead..MaxElapsed
  PROVE  Stamp(t) = (((t - Lead) * Rate) \div Unit) % Word
<1> DEFINE z == t - Lead
<1>1. /\ MaxElapsed \in Nat /\ Lead \in Nat /\ Rate \in Nat /\ Rate >= 1
      /\ LongWord \in Nat /\ MaxElapsed * Rate < LongWord
  BY CodecsAssumption, NoEncoderRunsThatLong
<1>2. z \in Nat /\ z <= MaxElapsed
  BY <1>1
<1> HIDE DEF z
<1>3. z * Rate <= MaxElapsed * Rate /\ z * Rate \in Nat
  BY <1>1, <1>2
<1>4. z <= z * Rate
  BY <1>1, <1>2
<1>5. z < LongWord /\ z * Rate < LongWord
  BY <1>1, <1>2, <1>3, <1>4
<1>6. z % LongWord = z /\ (z * Rate) % LongWord = z * Rate
  BY <1>1, <1>2, <1>3, <1>5
<1>7. Stamp(t) = ((((z % LongWord) * Rate) % LongWord) \div Unit) % Word
  BY DEF Stamp, z
<1>8. QED
  BY <1>6, <1>7 DEF z

LEMMA StampsApart ==
  ASSUME NEW s \in Lead..MaxElapsed, NEW t \in s..MaxElapsed
  PROVE  (Stamp(t) - Stamp(s) - (((t - s) * Rate) \div Unit)) % Word \in {0, 1}
<1> DEFINE x == (s - Lead) * Rate
<1> DEFINE y == (t - s) * Rate
<1>1. /\ MaxElapsed \in Nat /\ Lead \in Nat /\ Rate \in Nat
      /\ Unit \in Nat \ {0} /\ Word \in Nat \ {0}
  BY CodecsAssumption
<1>2. s \in Int /\ t \in Int /\ t \in Lead..MaxElapsed
  BY <1>1
<1>3. x \in Int /\ y \in Int /\ (t - Lead) * Rate = x + y
  BY <1>1, <1>2
<1> DEFINE p == x \div Unit
<1> DEFINE q == y \div Unit
<1> DEFINE r == (x + y) \div Unit
<1>4. Stamp(s) = p % Word /\ Stamp(t) = r % Word
  BY <1>2, <1>3, StampOf
<1> HIDE DEF x, y
<1>5. p \in Int /\ q \in Int /\ r \in Int
  BY <1>1, <1>3
<1>6. r - p - q \in {0, 1}
  BY <1>1, <1>3, DivAdd
<1> HIDE DEF p, q, r
<1> DEFINE e == r - p - q
<1> DEFINE k == (p \div Word) - (r \div Word)
<1>7. /\ p = Word * (p \div Word) + (p % Word) /\ p \div Word \in Int /\ p % Word \in Int
      /\ r = Word * (r \div Word) + (r % Word) /\ r \div Word \in Int /\ r % Word \in Int
  BY <1>1, <1>5, ModBounds, DivBounds
<1>8. k \in Int /\ Word * k = Word * (p \div Word) - Word * (r \div Word)
  BY <1>1, <1>7
<1>9. (r % Word) - (p % Word) - q = e + Word * k
  BY <1>1, <1>5, <1>7, <1>8
<1>10. (e + Word * k) % Word = e % Word
  BY <1>1, <1>5, <1>8, e \in Int, ModShift
<1>11. e % Word \in {0, 1}
  <2>1. CASE Word = 1
    BY <2>1, <1>6
  <2>2. CASE Word >= 2
    BY <2>2, <1>1, <1>6
  <2>3. QED
    BY <1>1, <2>1, <2>2
<1>12. QED
  BY <1>4, <1>9, <1>10, <1>11 DEF q, y

LEMMA StampIsInt == ASSUME NEW t \in Int PROVE Stamp(t) \in Int
<1>1. Lead \in Nat /\ Rate \in Nat /\ LongWord \in Nat \ {0} /\ Unit \in Nat \ {0} /\ Word \in Nat \ {0}
  <2>1. MaxElapsed * Rate \in Nat
    BY CodecsAssumption
  <2>2. QED
    BY <2>1, CodecsAssumption, NoEncoderRunsThatLong
<1> DEFINE z == (t - Lead) % LongWord
<1>2. z \in Int
  BY <1>1
<1> HIDE DEF z
<1> DEFINE w == (z * Rate) % LongWord
<1>3. w \in Int
  BY <1>1, <1>2
<1> HIDE DEF w
<1>4. (w \div Unit) % Word \in Int
  BY <1>1, <1>3
<1>5. QED
  BY <1>4 DEF Stamp, w, z

\* A step leaves the times of an address, forgets them, or is a later frame of
\* the encoder there.
LEMMA TimesMove ==
  ASSUME TimesInv, [CodecsNext]_codecsVars
  PROVE  \/ UNCHANGED times
         \/ \E b \in Addresses :
              \/ Freed(b)
              \/ \E t \in elapsed[b]..MaxElapsed :
                   /\ elapsed' = [elapsed EXCEPT ![b] = t]
                   /\ stamp' = [stamp EXCEPT ![b] = Stamp(t)]
<1>1. ASSUME NEW b \in Addresses, NEW d \in 0..MaxGap, Encode(b, elapsed[b] + d)
      PROVE  \E t \in elapsed[b]..MaxElapsed :
               /\ elapsed' = [elapsed EXCEPT ![b] = t]
               /\ stamp' = [stamp EXCEPT ![b] = Stamp(t)]
  <2>1. elapsed[b] \in Nat /\ MaxGap \in Nat /\ MaxElapsed \in Nat
    BY CodecsAssumption DEF TimesInv
  <2>2. elapsed[b] + d \in elapsed[b]..MaxElapsed
    BY <1>1, <2>1 DEF Encode
  <2>3. QED
    BY <1>1, <2>2 DEF Encode
<1>2. QED
  BY <1>1
  DEF CodecsNext, Decoders, Encoders, CreateDecoder, CreateDecoderFails, DestroyDecoder,
      DestroyNoDecoder, DeleteDecoder, NoPicture, CreateH265Fails, CreateEncoder,
      DestroyEncoder, New, codecsVars, times

LEMMA TimesStep ==
  ASSUME TimesInv, [CodecsNext]_codecsVars
  PROVE  TimesInv'
<1>1. CASE UNCHANGED times
  BY <1>1 DEF TimesInv, times
<1>2. ASSUME NEW b \in Addresses, Freed(b) PROVE TimesInv'
  <2>1. 0 \in 0..MaxElapsed
    BY CodecsAssumption
  <2>2. QED
    BY <1>2, <2>1 DEF TimesInv, Freed
<1>3. ASSUME NEW b \in Addresses, NEW t \in elapsed[b]..MaxElapsed,
             elapsed' = [elapsed EXCEPT ![b] = t], stamp' = [stamp EXCEPT ![b] = Stamp(t)]
      PROVE  TimesInv'
  <2>1. t \in 0..MaxElapsed
    BY CodecsAssumption DEF TimesInv
  <2>2. Stamp(t) \in Int
    BY <2>1, StampIsInt
  <2>3. QED
    BY <1>3, <2>1, <2>2 DEF TimesInv
<1>4. QED
  BY <1>1, <1>2, <1>3, TimesMove

LEMMA StampsStep ==
  ASSUME TimesInv, [CodecsNext]_codecsVars,
         NEW a \in Addresses, stamp[a] # -1, stamp'[a] # -1, elapsed[a] >= Lead
  PROVE  (stamp'[a] - stamp[a] - (((elapsed'[a] - elapsed[a]) * Rate) \div Unit)) % Word \in {0, 1}
<1>1. /\ elapsed[a] \in 0..MaxElapsed /\ elapsed[a] \in Lead..MaxElapsed
      /\ MaxElapsed \in Nat /\ Lead \in Nat /\ stamp[a] = Stamp(elapsed[a])
  BY CodecsAssumption DEF TimesInv
<1>2. elapsed'[a] \in 0..MaxElapsed /\ stamp'[a] = Stamp(elapsed'[a])
  BY TimesStep DEF TimesInv
<1>3. elapsed'[a] >= elapsed[a]
  <2>1. CASE UNCHANGED times
    BY <2>1, <1>1 DEF times
  <2>2. ASSUME NEW b \in Addresses, Freed(b) PROVE elapsed'[a] >= elapsed[a]
    <3>1. a # b
      BY <2>2 DEF Freed, TimesInv
    <3>2. elapsed'[a] = elapsed[a]
      BY <2>2, <3>1 DEF Freed, TimesInv
    <3>3. QED
      BY <1>1, <3>2
  <2>3. ASSUME NEW b \in Addresses, NEW t \in elapsed[b]..MaxElapsed,
               elapsed' = [elapsed EXCEPT ![b] = t]
        PROVE  elapsed'[a] >= elapsed[a]
    BY <2>3, <1>1 DEF TimesInv
  <2>4. QED
    BY <2>1, <2>2, <2>3, TimesMove
<1>4. elapsed'[a] \in elapsed[a]..MaxElapsed
  BY <1>1, <1>2, <1>3
<1>5. QED
  BY <1>1, <1>2, <1>4, StampsApart

\* Timestamps are as far apart as their frames, to within a tick and modulo the
\* width of the timestamp: StampsKeepTime, for every rate and every two widths,
\* as long as the product with the rate does not wrap.
THEOREM CodecsStampsKeepTime == CodecsSpec => StampsKeepTime
<1>1. CodecsInit => TimesInv
  BY CodecsAssumption DEF CodecsInit, TimesInv
<1>2. TimesInv /\ [CodecsNext]_codecsVars => TimesInv'
  BY TimesStep
<1>3. TimesInv /\ [CodecsNext]_codecsVars =>
        [\A a \in Addresses :
           codec[a] = codec'[a] /\ stamp[a] # -1 /\ stamp'[a] # -1 /\ elapsed[a] >= Lead =>
             LET ticks == ((elapsed'[a] - elapsed[a]) * Rate) \div Unit IN
               (stamp'[a] - stamp[a] - ticks) % Word \in {0, 1}]_codecsVars
  BY StampsStep
<1>4. QED
  BY <1>1, <1>2, <1>3, PTL DEF CodecsSpec, StampsKeepTime
=============================================================================
