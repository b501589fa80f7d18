------------------------------- MODULE MCTurn -------------------------------
(***************************************************************************)
(* A console that starts with 25 rows and has two modes that are tall and  *)
(* wide enough.  At 25 rows one adapter just fits in detail and five take  *)
(* two pages of a table; at 36 rows five just fit in the compact layout;   *)
(* five are also the full list.  One path of our own just fits its buffer, *)
(* the other one does not.                                                 *)
(***************************************************************************)
EXTENDS Turn

MCModes == << [cols |-> 80, rows |-> 25], [cols |-> 64, rows |-> 34],
              [cols |-> 128, rows |-> 40], [cols |-> 100, rows |-> 36] >>

MCNames == {"EFI", "GPUCHECK", "gpucheck.efi", "Microsoft", "Boot", "bootmgfw.efi"}

MCOwnPaths == {<<"EFI", "GPUCHECK", "gpucheck.efi">>,
               <<"EFI", "Microsoft", "Boot", "bootmgfw.efi">>}
=============================================================================
