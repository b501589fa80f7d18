---------------------------- MODULE MCGpuConfig ----------------------------
(* Files of up to three lines, each with a value at some boundary of its   *)
(* kind: a padded ID, the largest, one digit too many, a bare prefix; no   *)
(* delay, the longest, one more; too long a path, nothing at all.          *)
EXTENDS GpuConfig

Set(k, v) == [key |-> k, eq |-> TRUE, val |-> v, comment |-> FALSE]

MCLines ==
    {Set("EXPECT_VENDOR", <<"0", "X", "0", "0", "1", "0", "D", "E">>),
     Set("EXPECT_VENDOR", <<"F", "F", "F", "F">>),
     Set("EXPECT_VENDOR", <<"1", "0", "0", "0", "0">>),
     Set("EXPECT_VENDOR", <<"0", "X">>),
     Set("EXPECT_DEVICE", <<"ANY">>),
     Set("EXPECT_DEVICE", <<"2", "4", "8", "9">>),
     Set("AUTOBOOT_DELAY", <<"0", "0">>),
     Set("AUTOBOOT_DELAY", <<"3", "6", "0", "0">>),
     Set("AUTOBOOT_DELAY", <<"3", "6", "0", "1">>),
     Set("HALT_WHEN_MISSING", <<"FALSE">>),
     Set("HALT_WHEN_MISSING", <<"1", "=">>),
     Set("BOOT_PATH", <<"/", "E", " ", "F", "I">>),
     Set("BOOT_PATH", <<>>),
     Set("UNKNOWN", <<"1">>),
     [key |-> "none", eq |-> TRUE, val |-> <<"1">>, comment |-> FALSE],
     [key |-> "EXPECT_VENDOR", eq |-> FALSE, val |-> <<>>, comment |-> TRUE],
     [key |-> "none", eq |-> FALSE, val |-> <<>>, comment |-> TRUE],
     [key |-> "LOG_ENABLE", eq |-> TRUE, val |-> <<"0">>, comment |-> TRUE]}

MCFiles ==
    {[lines |-> ls, mark |-> m, ended |-> e] :
        ls \in BoundedSeq(MCLines, 3), m \in {"none", "UTF-8", "UTF-16"}, e \in BOOLEAN}
=============================================================================
