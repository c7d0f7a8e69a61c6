--------------------------- MODULE MCVideoCapture ---------------------------
(* A small instance of a camera for TLC: what it can do is listed, and then *)
(* it is captured from.                                                     *)
EXTENDS VideoCapture, DeviceModes

CameraInit == Init /\ ModesInit
List == owner = "idle" /\ capture = "down" /\ stop /\ ListNext /\ UNCHANGED vars
CameraNext == List \/ (NoListing /\ Next /\ UNCHANGED modeVars)
CameraSpec == CameraInit /\ [][CameraNext]_<<vars, modeVars>> /\ Fairness
=============================================================================
