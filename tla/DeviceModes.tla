----------------------------- MODULE DeviceModes -----------------------------
(***************************************************************************)
(* My_Video_Device: the list of what a camera can do, drawn up by asking   *)
(* the driver, index after index, for its formats, for the sizes of each   *)
(* format and for the frame intervals of each size.  The driver ends each  *)
(* enumeration with EINVAL; any other error ends the process.              *)
(*                                                                         *)
(* The driver's table is a sequence of formats; a format has its flags     *)
(* ("C" compressed, "E" emulated) and a sequence of sizes; a size is       *)
(* discrete, or one range for all, and has a number of intervals.          *)
(***************************************************************************)
EXTENDS Integers, Sequences

CONSTANTS
  MaxFormats, MaxSizes, MaxIntervals   \* bounds of the driver's table

ASSUME ModesAssumption == MaxFormats \in Nat /\ MaxSizes \in Nat /\ MaxIntervals \in Nat

VARIABLES
  table,      \* the driver's formats, while they are listed
  at,         \* format, size and index of the interval asked for next
  listed      \* _my_device_info

modeVars == <<table, at, listed>>

SeqsUpTo(n, S) == UNION {[1..m -> S] : m \in 0..n}
Size == [discrete : BOOLEAN, intervals : 0..MaxIntervals]
Format == [flags : SUBSET {"C", "E"},
           sizes : {s \in SeqsUpTo(MaxSizes, Size) :
                      \A i \in DOMAIN s : s[i].discrete \/ Len(s) = 1}]
Tables == SeqsUpTo(MaxFormats, Format) \ {<<>>}

\* No listing is under way.
NoListing == table = <<>>

ModesInit == table = <<>> /\ at = <<0, 0, 0>> /\ listed = <<>>

\* init of a new My_Video_Device opens the device.
BeginListing ==
  /\ NoListing
  /\ table' \in Tables
  /\ at' = <<1, 1, 0>>
  /\ UNCHANGED listed
-----------------------------------------------------------------------------
InFormat == at[1] \in DOMAIN table
Sizes == table[at[1]].sizes
InSize == InFormat /\ at[2] \in DOMAIN Sizes

\* The compressed flag is overwritten by the test after it.
Flag == IF "E" \in table[at[1]].flags THEN "E" ELSE "N"

\* VIDIOC_ENUM_FRAMEINTERVALS answers as long as the index is in the table.
HasInterval == InSize /\ at[3] < Sizes[at[2]].intervals

\* get_intervals: curIndex is counted up in the call and at the end of the loop.
ListInterval ==
  /\ HasInterval
  /\ listed' = Append(listed, [mode |-> at, flag |-> Flag])
  /\ at' = [at EXCEPT ![3] = @ + 2]
  /\ UNCHANGED table

\* (Mutant: curIndex goes on from the last size.)
NextSizeKeepsIndex ==
  /\ InSize /\ ~HasInterval
  /\ at' = [at EXCEPT ![2] = @ + 1]
  /\ UNCHANGED <<table, listed>>

\* get_sizes.  A range is the only size of its format.
NextSize ==
  /\ InSize /\ ~HasInterval
  /\ at' = <<at[1], at[2] + 1, 0>>
  /\ UNCHANGED <<table, listed>>

\* get_formats.
NextFormat ==
  /\ InFormat /\ ~InSize
  /\ at' = <<at[1] + 1, 1, 0>>
  /\ UNCHANGED <<table, listed>>

\* init has returned, and the object goes out of scope, as in the test.  A second
\* init of one object, which nothing calls, would append to the list of the first.
EndListing ==
  /\ ~NoListing /\ ~InFormat
  /\ table' = <<>> /\ at' = <<0, 0, 0>> /\ listed' = <<>>

ListNext == BeginListing \/ ListInterval \/ NextSize \/ NextFormat \/ EndListing

ModesSpec == ModesInit /\ [][ListNext]_modeVars
-----------------------------------------------------------------------------
\* What the driver can do: format, size and index of the interval.
DriverModes ==
  {m \in (1..MaxFormats) \X (1..MaxSizes) \X (0..MaxIntervals) :
     /\ m[1] \in DOMAIN table
     /\ m[2] \in DOMAIN table[m[1]].sizes
     /\ m[3] < table[m[1]].sizes[m[2]].intervals}

Before(m, n) ==
  \/ m[1] < n[1]
  \/ m[1] = n[1] /\ (m[2] < n[2] \/ (m[2] = n[2] /\ m[3] < n[3]))

ListedModes == {listed[i].mode : i \in DOMAIN listed}

\* The list has every format and every size of the driver with its first, third,
\* fifth ... interval, in the driver's order and each once, and nothing else.
ListsEverySize ==
  /\ ListedModes = {m \in DriverModes : m[3] % 2 = 0 /\ Before(m, at)}
  /\ \A i, j \in DOMAIN listed : i < j => Before(listed[i].mode, listed[j].mode)
=============================================================================
