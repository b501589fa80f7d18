----------------------------- MODULE MCBootFlow -----------------------------
(***************************************************************************)
(* Small machines for BootFlow: an integrated and two discrete adapters,   *)
(* alone or together, and five adapters, which need a second page of a     *)
(* 25-row console.                                                         *)
(***************************************************************************)
EXTENDS BootFlow

Adapter(v, d, isDiscrete) == [vendor |-> v, device |-> d, discrete |-> isDiscrete]

IGpu  == Adapter("intel", "d1", FALSE)
DGpu  == Adapter("nvidia", "d1", TRUE)
Extra == {Adapter("amd", d, TRUE) : d \in {"d1", "d2", "d3"}}

MCPopulations ==
    {{}, {IGpu}, {IGpu, DGpu}, {IGpu, DGpu} \union Extra}

Config(v, d, autoboot, halt, delay) ==
    [vendor |-> v, device |-> d, autoboot |-> autoboot, halt |-> halt,
     delay |-> delay, notice |-> FALSE]

(* The defaults; a card that is pinned; a vendor pinned, in a file whose   *)
(* encoding costs a row of the screen; boots that do not need the card;    *)
(* and boots that are never automatic.                                     *)
MCConfigs ==
    { Config(Unset, Unset, TRUE, TRUE, 2),
      Config("nvidia", "d1", TRUE, TRUE, 1),
      [Config("nvidia", Any, TRUE, TRUE, 1) EXCEPT !.notice = TRUE],
      Config(Unset, "d2", TRUE, FALSE, 1),
      Config(Unset, Unset, FALSE, FALSE, 1) }
=============================================================================
