----------------------------- MODULE GpuConfig -----------------------------
(***************************************************************************)
(* The settings that GpuConfig.c takes from \EFI\GPUCHECK\gpucheck.cfg:    *)
(* the file as its author means it, the bytes it is written as, and the    *)
(* pass of ParseBuffer over them, one line per step.                       *)
(*                                                                         *)
(* A key, a word such as ANY or TRUE, and a byte-order mark are one token  *)
(* each; KeyIs compares them whole and in either case.  Tabs and carriage  *)
(* returns are blanks, ';' is '#'.                                         *)
(***************************************************************************)
EXTENDS Integers, FiniteSets, SequencesExt

CONSTANTS
    Files,    \* what the author may have written
    MaxSize,  \* bytes that are read of it (GPUCHECK_CFG_MAX_SIZE - 1)
    MaxPath   \* characters of BOOT_PATH that are kept (255)

Flags == {"AUTOBOOT_WHEN_FOUND", "HALT_WHEN_MISSING", "LOG_ENABLE"}
Keys  == Flags \union {"EXPECT_VENDOR", "EXPECT_DEVICE", "AUTOBOOT_DELAY", "BOOT_PATH"}

(* A line of the file: a key, which may be unknown or left out, a value    *)
(* unless the '=' has been forgotten, and perhaps a comment.               *)
Line == [key : Keys \union {"UNKNOWN", "none"}, eq : BOOLEAN,
         val : Seq(STRING), comment : BOOLEAN]

ASSUME ConfigAssumption ==
    /\ MaxSize \in Nat \ {0} /\ MaxPath \in Nat \ {0}
    /\ \A f \in Files :
         /\ f.mark \in {"none", "UTF-8", "UTF-16"}
         /\ f.ended \in BOOLEAN
         /\ f.lines \in Seq(Line)
         /\ \A i \in DOMAIN f.lines :
              LET val == f.lines[i].val IN
              /\ ToSet(val) \intersect {"\n", "#"} = {}
              /\ val # <<>> => Head(val) # " " /\ Last(val) # " "

VARIABLES
    file,    \* what the author wrote
    text,    \* Buf, Size: as much of it as is read
    pos,     \* Pos
    config,  \* *Config
    pc

vars == <<file, text, pos, config, pc>>

-----------------------------------------------------------------------------
(* The file as written. *)

Written(l) ==
    (IF l.key = "none" THEN <<" ">> ELSE <<" ", l.key, " ">>)
      \o (IF l.eq THEN <<"=", " ">> \o l.val \o <<" ">> ELSE <<>>)
      \o (IF l.comment THEN <<"#", "EXPECT_VENDOR", "=", "1">> ELSE <<>>)

Mark(f) == IF f.mark = "none" THEN <<>> ELSE <<f.mark>>

LineEnd(f, i) == IF i < Len(f.lines) \/ f.ended THEN <<"\n">> ELSE <<>>

(* The file up to the end of its n-th line. *)
Prefix(f, n) ==
    LET upTo[i \in 0 .. Len(f.lines)] ==
          IF i = 0 THEN Mark(f)
          ELSE upTo[i - 1] \o Written(f.lines[i]) \o LineEnd(f, i)
    IN  upTo[n]

Bytes(f) == Prefix(f, Len(f.lines))

-----------------------------------------------------------------------------
(* The values that the parsers accept, as sets of at most one. *)

HexDigits == <<"0", "1", "2", "3", "4", "5", "6", "7",
               "8", "9", "A", "B", "C", "D", "E", "F">>
Digit(c)  == (CHOOSE i \in DOMAIN HexDigits : HexDigits[i] = c) - 1
IsHex(c)  == c \in ToSet(HexDigits)
IsDec(c)  == IsHex(c) /\ Digit(c) < 10

(* Fault for HexStep: leading zeros count. *)
HexStep_AllCount(st, c) ==
    IF ~IsHex(c) \/ st.acc < 0 THEN [st EXCEPT !.acc = -1]
    ELSE [acc   |-> IF st.count = 4 THEN -1 ELSE st.acc * 16 + Digit(c),
          count |-> st.count + 1, seen |-> TRUE]

(* Only significant digits count.  acc is -1 once a character is wrong. *)
HexStep(st, c) ==
    IF ~IsHex(c) \/ st.acc < 0 THEN [st EXCEPT !.acc = -1]
    ELSE IF Digit(c) = 0 /\ st.count = 0 THEN [st EXCEPT !.seen = TRUE]
    ELSE [acc   |-> IF st.count = 4 THEN -1 ELSE st.acc * 16 + Digit(c),
          count |-> st.count + 1, seen |-> TRUE]

Unprefixed(val) ==
    IF IsPrefix(<<"0", "X">>, val) THEN SubSeq(val, 3, Len(val)) ELSE val

(* The locals of ParseHex16 after each character of s. *)
HexRun(s) ==
    LET st[i \in 0 .. Len(s)] ==
          IF i = 0 THEN [acc |-> 0, count |-> 0, seen |-> FALSE]
          ELSE HexStep(st[i - 1], s[i])
    IN  st

ParseHex16(val) ==
    LET s  == Unprefixed(val)
        st == HexRun(s)[Len(s)]
    IN  IF st.seen /\ st.acc >= 0 THEN {st.acc} ELSE {}

DecStep(acc, c) ==
    IF ~IsDec(c) \/ acc < 0 \/ acc * 10 + Digit(c) > 3600 THEN -1 ELSE acc * 10 + Digit(c)

DecRun(s) ==
    LET acc[i \in 0 .. Len(s)] == IF i = 0 THEN 0 ELSE DecStep(acc[i - 1], s[i])
    IN  acc

ParseDec(val) ==
    LET n == DecRun(val)[Len(val)] IN IF val = <<>> \/ n < 0 THEN {} ELSE {n}

ParseBool(val) ==
    CASE val \in {<<"1">>, <<"TRUE">>}  -> {TRUE}
      [] val \in {<<"0">>, <<"FALSE">>} -> {FALSE}
      [] OTHER -> {}

-----------------------------------------------------------------------------
GpuConfigSetDefaults ==
    [Loaded |-> FALSE, Encoding |-> "ok",
     HasExpectVendor |-> FALSE, ExpectVendor |-> 0,
     HasExpectDevice |-> FALSE, ExpectDeviceAny |-> FALSE, ExpectDevice |-> 0,
     AUTOBOOT_WHEN_FOUND |-> TRUE, AutobootDelay |-> 3,
     HALT_WHEN_MISSING |-> TRUE, LOG_ENABLE |-> TRUE,
     HasBootPath |-> FALSE, BootPath |-> <<>>]

(* The keys that have a value of their own kind; nothing is changed for a  *)
(* value that is not one.                                                  *)
SetVendor(val) ==
    IF ParseHex16(val) = {} THEN config
    ELSE [config EXCEPT !.HasExpectVendor = TRUE,
                        !.ExpectVendor = CHOOSE v \in ParseHex16(val) : TRUE]

SetDevice(val) ==
    IF val = <<"ANY">>
    THEN [config EXCEPT !.HasExpectDevice = TRUE, !.ExpectDeviceAny = TRUE]
    ELSE IF ParseHex16(val) = {} THEN config
    ELSE [config EXCEPT !.HasExpectDevice = TRUE, !.ExpectDeviceAny = FALSE,
                        !.ExpectDevice = CHOOSE v \in ParseHex16(val) : TRUE]

SetFlag(key, val) ==
    IF ParseBool(val) = {} THEN config
    ELSE [config EXCEPT ![key] = CHOOSE b \in ParseBool(val) : TRUE]

(* Fault for SetDelay: any number is good. *)
SetDelay_Unclamped(val) ==
    IF ParseDec(val) = {} THEN config
    ELSE [config EXCEPT !.AutobootDelay = CHOOSE n \in ParseDec(val) : TRUE]

(* Zero would leave no moment to press a key in. *)
SetDelay(val) ==
    IF ParseDec(val) = {} THEN config
    ELSE [config EXCEPT !.AutobootDelay =
             LET n == CHOOSE n \in ParseDec(val) : TRUE IN IF n = 0 THEN 1 ELSE n]

SetPath(val) ==
    [config EXCEPT !.HasBootPath = TRUE,
        !.BootPath = [i \in 1 .. IF Len(val) > MaxPath THEN MaxPath ELSE Len(val) |->
                        IF val[i] = "/" THEN "\\" ELSE val[i]]]

ApplySetting(key, val) ==
    IF val = <<>> THEN config ELSE
    CASE key = <<"EXPECT_VENDOR">>  -> SetVendor(val)
      [] key = <<"EXPECT_DEVICE">>  -> SetDevice(val)
      [] key \in {<<k>> : k \in Flags} -> SetFlag(key[1], val)
      [] key = <<"AUTOBOOT_DELAY">> -> SetDelay(val)
      [] key = <<"BOOT_PATH">>      -> SetPath(val)
      [] OTHER                      -> config

-----------------------------------------------------------------------------
(* What comes before the first c of s, and all of s if there is none. *)
Before(s, c) ==
    SubSeq(s, 1, CHOOSE n \in 0 .. Len(s) :
                   /\ \A i \in 1 .. n : s[i] # c
                   /\ n = Len(s) \/ s[n + 1] = c)

Trim(s) ==
    LET solid == {i \in DOMAIN s : s[i] # " "} IN
    IF solid = {} THEN <<>>
    ELSE SubSeq(s, CHOOSE i \in solid : \A j \in solid : i =< j,
                   CHOOSE i \in solid : \A j \in solid : j =< i)

Word   == 0 .. 65535   \* UINT16
Delays == 1 .. 3600    \* seconds

TypeOK ==
    /\ pc \in {"load", "mark", "lines", "done"}
    /\ pos \in 1 .. Len(text) + 1
    /\ config.ExpectVendor \in Word /\ config.ExpectDevice \in Word
    /\ config.AutobootDelay \in Delays
    /\ Len(config.BootPath) =< MaxPath
    /\ \A k \in Flags : config[k] \in BOOLEAN

Init ==
    /\ file \in Files
    /\ text = <<>> /\ pos = 1
    /\ config = GpuConfigSetDefaults
    /\ pc = "load"

(* No device, no file system, no file, no memory, a failing or empty read. *)
Unreadable ==
    /\ pc = "load"
    /\ pc' = "done"
    /\ UNCHANGED <<file, text, pos, config>>

GpuConfigLoad ==
    /\ pc = "load" /\ Bytes(file) # <<>>
    /\ text' = SubSeq(Bytes(file), 1, IF Len(Bytes(file)) > MaxSize THEN MaxSize
                                      ELSE Len(Bytes(file)))
    /\ config' = [config EXCEPT !.Loaded = TRUE]
    /\ pc' = "mark"
    /\ UNCHANGED <<file, pos>>

SkipMark ==
    /\ pc = "mark" /\ text[1] # "UTF-16"
    /\ text' = IF text[1] = "UTF-8" THEN Tail(text) ELSE text
    /\ pc' = "lines"
    /\ UNCHANGED <<file, pos, config>>

RejectUtf16 ==
    /\ pc = "mark" /\ text[1] = "UTF-16"
    /\ config' = [config EXCEPT !.Encoding = "UTF-16 rejected"]
    /\ pc' = "done"
    /\ UNCHANGED <<file, text, pos>>

(* One turn of the loop in ParseBuffer: up to the newline, cut at the      *)
(* comment, apart at the first '='.                                        *)
ParseLine ==
    /\ pc = "lines" /\ pos =< Len(text)
    /\ LET rest == Before(SubSeq(text, pos, Len(text)), "\n")
           line == Before(rest, "#")
           key  == Before(line, "=")
       IN  /\ pos' = pos + Len(rest) + IF pos + Len(rest) =< Len(text) THEN 1 ELSE 0
           /\ config' = IF Len(key) = Len(line) THEN config
                        ELSE ApplySetting(Trim(key), Trim(SubSeq(line, Len(key) + 2, Len(line))))
    /\ UNCHANGED <<file, text, pc>>

EndOfText ==
    /\ pc = "lines" /\ pos > Len(text)
    /\ pc' = "done"
    /\ UNCHANGED <<file, text, pos, config>>

Done == pc = "done" /\ UNCHANGED vars

Next ==
    \/ Unreadable \/ GpuConfigLoad \/ SkipMark \/ RejectUtf16
    \/ ParseLine \/ EndOfText \/ Done

Spec == Init /\ [][Next]_vars

-----------------------------------------------------------------------------
(* What the author means. *)

AnyDevice == 65536

(* The numbers that the digits up to each of s denote. *)
Numbers(base, s) ==
    LET n[i \in 0 .. Len(s)] == IF i = 0 THEN 0 ELSE n[i - 1] * base + Digit(s[i])
    IN  n

Number(base, s) == Numbers(base, s)[Len(s)]

AllIn(val, Test(_)) == val # <<>> /\ \A i \in DOMAIN val : Test(val[i])

Hex(val) ==
    IF AllIn(Unprefixed(val), IsHex) /\ Number(16, Unprefixed(val)) < 65536
    THEN {Number(16, Unprefixed(val))} ELSE {}

Meaning(key, val) ==
    CASE key \in Flags          -> ParseBool(val)
      [] key = "EXPECT_VENDOR"  -> Hex(val)
      [] key = "EXPECT_DEVICE"  -> IF val = <<"ANY">> THEN {AnyDevice} ELSE Hex(val)
      [] key = "AUTOBOOT_DELAY" ->
           IF AllIn(val, IsDec) /\ Number(10, val) =< 3600
           THEN {IF Number(10, val) = 0 THEN 1 ELSE Number(10, val)} ELSE {}
      [] key = "BOOT_PATH"      ->
           IF val = <<>> THEN {}
           ELSE {[i \in 1 .. IF Len(val) > MaxPath THEN MaxPath ELSE Len(val) |->
                    IF val[i] = "/" THEN "\\" ELSE val[i]]}

InForce(c, key) ==
    CASE key \in Flags          -> {c[key]}
      [] key = "EXPECT_VENDOR"  -> IF c.HasExpectVendor THEN {c.ExpectVendor} ELSE {}
      [] key = "EXPECT_DEVICE"  -> IF ~c.HasExpectDevice THEN {}
                                   ELSE IF c.ExpectDeviceAny THEN {AnyDevice} ELSE {c.ExpectDevice}
      [] key = "AUTOBOOT_DELAY" -> {c.AutobootDelay}
      [] key = "BOOT_PATH"      -> IF c.HasBootPath THEN {c.BootPath} ELSE {}

(* The lines of a file that sets key. *)
Settings(f, key) ==
    {i \in DOMAIN f.lines :
        f.lines[i].eq /\ f.lines[i].key = key /\ Meaning(key, f.lines[i].val) # {}}

(* Every line up to the n-th is read to its end. *)
ReadWhole(f, n) == Len(Prefix(f, n)) =< MaxSize

(* Once the file is read, the last good line for a key is the one in       *)
(* force, however numbers are padded, whatever stands before and after it  *)
(* and with either mark or none: lines that are not settings are skipped,  *)
(* as the sample file promises ("A malformed line is skipped",             *)
(* gpucheck.cfg:10), a pin of the expected card above all.  A file that is *)
(* too long loses its end, and only the line at the cut is in doubt.  A    *)
(* file that cannot be read leaves the defaults, and so does one marked as *)
(* UTF-16, which is never taken for one without settings: the screen is    *)
(* told (README.md:244-246).                                               *)
LastGoodSettingWins ==
    pc = "done" =>
      /\ config.Loaded => (file.mark = "UTF-16") = (config.Encoding # "ok")
      /\ \A key \in Keys :
        LET n     == CHOOSE n \in 0 .. Len(file.lines) :
                       /\ n = 0 \/ ReadWhole(file, n)
                       /\ n = Len(file.lines) \/ ~ReadWhole(file, n + 1)
            read  == config.Loaded /\ config.Encoding = "ok"
            good  == {i \in Settings(file, key) : read /\ i =< n}
            inCut == read /\ n < Len(file.lines) /\ file.lines[n + 1].key = key
        IN  inCut \/ InForce(config, key) =
                       IF good = {} THEN InForce(GpuConfigSetDefaults, key)
                       ELSE LET last == CHOOSE i \in good : \A j \in good : j =< i
                            IN  Meaning(key, file.lines[last].val)
=============================================================================
