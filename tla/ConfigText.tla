----------------------------- MODULE ConfigText -----------------------------
(***************************************************************************)
(* What the configuration files are made of, and how a quoted value is     *)
(* read from them (src/src/utils.c:18-33, 54-86).                          *)
(***************************************************************************)
EXTENDS KeyValue

CONSTANTS
  Chars,      (* characters of names, passphrases and interfaces           *)
  NoFile,     (* a configuration file that does not exist                  *)
  Empty       (* one that a rejected call has truncated                    *)

Text == Seq(Chars)

(* memcpy(field, value + 1, n) into a cleared field. *)
AfterQuote(value, n) ==
  SubSeq(value, 2, IF Len(value) <= n THEN Len(value) ELSE n + 1)

=============================================================================
