----------------------------- MODULE MCIfRename -----------------------------
(***************************************************************************)
(* Small instances of IfRename: three wired interfaces and a wireless one, *)
(* of which any may be unplugged, and the mappings that make takeover      *)
(* hard.                                                                   *)
(***************************************************************************)
EXTENDS IfRename

Eth(u) == [base |-> "eth", unit |-> u]
Wlan(u) == [base |-> "wlan", unit |-> u]

MCAttributes ==
  [d \in Devices |-> [mac |-> d, driver |-> IF d = "d4" THEN "ath" ELSE "eth"]]
MCDefaultBase == [d \in Devices |-> IF d = "d4" THEN "wlan" ELSE "eth"]

Line(n, selected) == [ifname |-> n, selectors |-> selected, error |-> FALSE]
Mac(d) == [mac |-> {d}]

(* Two pairs of interfaces swap their names. *)
TwoSwaps == <<Line(Eth(0), Mac("d2")), Line(Eth(1), Mac("d1")),
              Line(Wlan(0), Mac("d3")), Line(Eth(2), Mac("d4"))>>
Cycle == <<Line(Eth(0), Mac("d2")), Line(Eth(1), Mac("d3")), Line(Eth(2), Mac("d1"))>>
(* Two interfaces claim one name. *)
PingPong == <<Line(Eth(0), Mac("d2")), Line(Eth(0), Mac("d1"))>>
(* A pattern for all of a driver, and a later line for one of them. *)
Wild == <<Line(Wlan(Star), [driver |-> {"eth"}]),
          Line(Eth(0), [mac |-> {"d3"}, driver |-> {"eth"}]),
          [Line(Eth(0), Mac("d2")) EXCEPT !.error = TRUE]>>
(* By the name that an interface has had. *)
Prev == <<Line(Eth(1), [prevname |-> {Eth(0)}]), Line(Eth(0), Mac("d2"))>>

MCIftabs == {TwoSwaps, Cycle, PingPong, Wild, Prev}

=============================================================================
