-------------------------- MODULE FirmwareService ---------------------------
(***************************************************************************)
(* What request_firmware() and release_firmware() promise a driver: a      *)
(* request is answered once, with the whole image of the file it named or  *)
(* with an error and no image, and the image stays as it is until the      *)
(* driver releases it.                                                     *)
(***************************************************************************)
EXTENDS Naturals

CONSTANTS Names,    \* names of firmware files
          Image,    \* the image of each file there is
          NoImage   \* the NULL a failed request leaves behind

VARIABLES request,  \* the name asked for
          answer,   \* "none", "pending", "ok" or "error"
          image     \* what the driver holds

vars == <<request, answer, image>>

Init == request \in Names /\ answer = "none" /\ image = NoImage

Call(n) ==
  /\ answer \in {"none", "error"}
  /\ request' = n /\ answer' = "pending"
  /\ UNCHANGED image

Deliver ==
  /\ answer = "pending" /\ request \in DOMAIN Image
  /\ answer' = "ok" /\ image' = Image[request]
  /\ UNCHANGED request

Refuse ==
  /\ answer = "pending"
  /\ answer' = "error"
  /\ UNCHANGED <<request, image>>

Release ==
  /\ answer = "ok"
  /\ answer' = "none" /\ image' = NoImage
  /\ UNCHANGED request

Next == (\E n \in Names : Call(n)) \/ Deliver \/ Refuse \/ Release

Spec == Init /\ [][Next]_vars
=============================================================================
