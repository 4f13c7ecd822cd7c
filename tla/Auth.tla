-------------------------------- MODULE Auth --------------------------------
(***************************************************************************)
(* The authentication argument of both modes.  The code compares it by     *)
(* prefix (strncmp, src/src/wifi.c:36, 48, 114, 134) and takes every other *)
(* text for an open network, so it is abstracted to these classes.         *)
(***************************************************************************)

Auths == {"WPA-PSK", "WPA-EAP", "other"}

Secured(a) == a.auth \in {"WPA-PSK", "WPA-EAP"}

=============================================================================
