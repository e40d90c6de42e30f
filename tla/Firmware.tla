------------------------------ MODULE Firmware ------------------------------
(***************************************************************************)
(* What the bootloader promises: the device has one installed image, always *)
(* a whole one, and an upgrade replaces it at one instant by the image that *)
(* was downloaded whole, never while it runs.                              *)
(***************************************************************************)
CONSTANTS Images, Corrupt

VARIABLES installed, \* the image the device will run
          staged,    \* the external flash
          running

vars == <<installed, staged, running>>

Init == installed \in Images /\ staged = Corrupt /\ running = FALSE

Start == running' = TRUE /\ UNCHANGED <<installed, staged>>
Stop  == running' = FALSE /\ UNCHANGED <<installed, staged>>

\* Only the running application downloads.
Stage == /\ running
         /\ staged' \in Images \cup {Corrupt}
         /\ UNCHANGED <<installed, running>>

Install == /\ ~running /\ staged \in Images
           /\ installed' = staged
           /\ UNCHANGED <<staged, running>>

Next == Start \/ Stop \/ Stage \/ Install

Spec == Init /\ [][Next]_vars
=============================================================================
