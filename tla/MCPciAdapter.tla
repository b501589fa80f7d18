---------------------------- MODULE MCPciAdapter ----------------------------
(* Three places for a capability: one where all but the last link register *)
(* is inside the window, one where only the first is, by a hair, and the   *)
(* highest there is; and a list that leads where there is none.  The lists *)
(* over them: every chain, dead end and loop.                              *)
EXTENDS PciAdapter

MCOffsets == {212, 240, 252}

Cap(i, n) == [id |-> i, next |-> n]

(* At 240 the pointer back is one with its reserved bits set. *)
MCCaps ==
    {[o \in MCOffsets |-> CASE o = 212 -> a [] o = 240 -> b [] OTHER -> c] :
        a \in {Cap("pcie", 0), Cap("other", 0), Cap("other", 212), Cap("other", 240)},
        b \in {Cap("pcie", 252), Cap("ones", 0), Cap("other", 255), Cap("other", 215)},
        c \in {Cap("pcie", 0), Cap("other", 212), Cap("other", 0)}}

Fact(a) ==
    /\ a.root \/ a.vendor = "apu" \/ a.port = "rcIntegrated" => a.integrated
    /\ a.vendor = "nvidia" => ~a.integrated
    /\ a.vendor = "intel" /\ a.integrated => a.root
    /\ a.integrated => ~a.rom

MCAdapters ==
    {a \in [vendor : {"nvidia", "intel", "amd", "apu", "other"},
            root : BOOLEAN, rom : BOOLEAN, integrated : BOOLEAN,
            port : {"endpoint", "rcIntegrated"}, version : 1 .. 2,
            capList : BOOLEAN, first : {0, 100, 212, 243}, caps : MCCaps] : Fact(a)}
=============================================================================
