----------------------------- MODULE BootPolicy -----------------------------
(***************************************************************************)
(* What GpuCheck promises about starting Windows, with none of the         *)
(* keyboard, timing or screen machinery of GpuCheck.c: it looks at the     *)
(* machine, then either counts down or holds, and only a countdown or the  *)
(* operator starts the loader.  BootFlow implements this specification.    *)
(***************************************************************************)

VARIABLES
    mode,       \* what the program is doing
    permitted,  \* the last look allows an unattended boot
    launched,   \* a loader was launched since power-on
    asked       \* the operator, not the countdown, decided to boot

vars == <<mode, permitted, launched, asked>>

Modes == {"looking", "counting", "holding", "aside", "failed", "stopping",
          "starting", "running", "gone"}

TypeOK ==
    /\ mode \in Modes
    /\ permitted \in BOOLEAN
    /\ launched \in BOOLEAN
    /\ asked \in BOOLEAN

Init ==
    /\ mode = "looking"
    /\ permitted \in BOOLEAN
    /\ launched = FALSE
    /\ asked = FALSE

Look ==
    /\ mode = "looking"
    /\ permitted' \in BOOLEAN
    /\ UNCHANGED <<mode, launched, asked>>

(* Count down if that is permitted and nothing was launched yet. *)
Show ==
    /\ mode = "looking"
    /\ mode' = IF permitted /\ ~launched THEN "counting" ELSE "holding"
    /\ asked' = FALSE
    /\ UNCHANGED <<permitted, launched>>

Cancel ==
    /\ mode = "counting"
    /\ mode' = "holding"
    /\ UNCHANGED <<permitted, launched, asked>>

(* The only step to the loader without the operator. *)
Expire ==
    /\ mode = "counting"
    /\ mode' = "starting"
    /\ UNCHANGED <<permitted, launched, asked>>

Ask ==
    /\ mode \in {"counting", "holding"}
    /\ mode' = "starting"
    /\ asked' = TRUE
    /\ UNCHANGED <<permitted, launched>>

(* The operator looks again, reads the details or switches off. *)
TurnAway ==
    /\ mode \in {"counting", "holding"}
    /\ mode' \in {"looking", "aside", "stopping"}
    /\ UNCHANGED <<permitted, launched, asked>>

(* A shutdown may be refused, and then a message is held. *)
Stop ==
    /\ mode = "stopping"
    /\ mode' \in {"gone", "aside"}
    /\ UNCHANGED <<permitted, launched, asked>>

ComeBack ==
    /\ mode = "aside"
    /\ mode' = "looking"
    /\ UNCHANGED <<permitted, launched, asked>>

NoLoader ==
    /\ mode = "starting"
    /\ mode' = "failed"
    /\ UNCHANGED <<permitted, launched, asked>>

Launch ==
    /\ mode = "starting"
    /\ mode' = "running"
    /\ launched' = TRUE
    /\ UNCHANGED <<permitted, asked>>

Outcome ==
    /\ mode = "running"
    /\ mode' \in {"looking", "failed", "gone"}
    /\ UNCHANGED <<permitted, launched, asked>>

(* A failure is only left by looking again or by switching off. *)
Retry ==
    /\ mode = "failed"
    /\ mode' \in {"looking", "stopping"}
    /\ UNCHANGED <<permitted, launched, asked>>

Next ==
    \/ Look \/ Show \/ Cancel \/ Expire \/ Ask \/ TurnAway \/ Stop
    \/ ComeBack \/ NoLoader \/ Launch \/ Outcome \/ Retry

Spec == Init /\ [][Next]_vars

(* Unless the operator asked, the loader is started only when the last     *)
(* look permitted it and for the first time (GpuCheck.c, WillAutoboot).    *)
UnaskedStartsArePermitted ==
    mode = "starting" /\ ~asked => permitted /\ ~launched
=============================================================================
