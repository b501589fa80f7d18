----------------------------- MODULE MCPciScan -----------------------------
(* Two devices of three functions behind two root bridges; a list of       *)
(* three adapters is full.                                                 *)
EXTENDS PciScan

Dev(fs, ds, dec) == [functions |-> fs, displays |-> ds, decodes |-> dec]

Empty    == Dev({}, {}, TRUE)
Card     == Dev({0, 1}, {0}, TRUE)       \* adapter and its audio function
Aliasing == Dev({0}, {0}, FALSE)         \* answers at every number
Gap      == Dev({0, 2}, {0, 2}, TRUE)    \* two adapters, function 1 missing
Other    == Dev({0}, {}, TRUE)           \* no adapter

MCMachines == [Devices -> {Empty, Card, Aliasing, Gap, Other}]
MCBridges == {{0}, {1}}
=============================================================================
