------------------------------ MODULE KeyValue ------------------------------
(***************************************************************************)
(* How the library splits a line `key=value`, of a configuration file      *)
(* (src/src/utils.c:18-22, 54-59) or of what `wpa_cli bss` prints          *)
(* (src/src/wifi.c:404).  Texts are sequences of characters.               *)
(***************************************************************************)
EXTENDS Naturals, Sequences

(* sscanf(line, "%[^=\n\r]=%[^=\n\r]", key, value): the value ends at the   *)
(* next `=`, or with the line.                                             *)
Value(text) ==
  SubSeq(text, 1, CHOOSE n \in 0..Len(text) :
                    /\ \A k \in 1..n : text[k] # "="
                    /\ n < Len(text) => text[n+1] = "=")

=============================================================================
