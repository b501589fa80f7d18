--------------------------- MODULE MCWindowsBoot ----------------------------
(***************************************************************************)
(* Two handles and two volumes for WindowsBoot: the disk under repair in   *)
(* every state an installation leaves it in, and a second disk that may    *)
(* hold a stock loader, genuine or GpuCheck's.                             *)
(***************************************************************************)
EXTENDS WindowsBoot

CONSTANTS h1, h2, v1, v2

MCHandles == <<h1, h2>>
MCCandidates == <<"original", "backup", "stock">>
MCElsewhere == {"bootx64"}
MCBootPaths == {NoPath, "bootx64"}

Disk(original, backup, stock, bootx64) ==
    [original |-> original, backup |-> backup, stock |-> stock, bootx64 |-> bootx64]

RepairDisks ==
    {Disk(o, b, s, x) : o \in {"absent", "windows", "damaged"},
                        b \in {"absent", "windows"},
                        s \in {"absent", "windows", "gpucheck"},
                        x \in {"absent", "gpucheck"}}

OtherDisks == {Disk("absent", "absent", s, "absent") : s \in {"absent", "windows", "gpucheck"}}

MCDisks == {[v \in {v1, v2} |-> IF v = v1 THEN d ELSE e] : d \in RepairDisks, e \in OtherDisks}
=============================================================================
