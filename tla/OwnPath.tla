------------------------------ MODULE OwnPath -------------------------------
(***************************************************************************)
(* WinBootOwnFilePath of WindowsBoot.c: the path of the file GpuCheck runs *)
(* from, put together from the MEDIA_FILEPATH nodes of the firmware's      *)
(* device path, one node per step.  The firmware cuts the path wherever it *)
(* likes, with or without the separators at the cuts.                      *)
(*                                                                         *)
(* A text is a sequence of characters; a name is one character, without    *)
(* case, since PathEqual does not tell upper from lower.                   *)
(***************************************************************************)
EXTENDS Naturals, SequencesExt

CONSTANTS
    Names,     \* the names of directories and files
    OwnPaths,  \* the names, from the root, of the file GpuCheck may run from
    MaxPath,   \* WINBOOT_MAX_PATH - 1
    MaxNodes   \* the 1024 nodes after which the walk gives up

Separators == {"backslash", "slash"}

Characters == Names \union Separators

(* No name has a separator in it. *)
ASSUME PathAssumption ==
    /\ Names \intersect Separators = {}
    /\ OwnPaths \subseteq Seq(Names) \ {<<>>}
    /\ MaxPath \in Nat \ {0}
    /\ MaxNodes \in Nat

VARIABLES
    own,       \* our file, by its names
    spelling,  \* the separator this firmware writes
    left,      \* names the nodes met so far have not mentioned
    buffer,    \* Buffer
    gotAny,    \* GotAny
    guard,     \* Guard: nodes visited
    pathPc

pathVars == <<own, spelling, left, buffer, gotAny, guard, pathPc>>

-----------------------------------------------------------------------------
(* The text of some names with separators between them. *)
Joined(names, sep) ==
    [i \in 1 .. 2 * Len(names) - 1 |-> IF i % 2 = 0 THEN sep ELSE names[(i + 1) \div 2]]

(* Fault for Cut: the terminator is written past the end. *)
Cut_OffByOne(text) ==
    SubSeq(text, 1, IF Len(text) =< MaxPath THEN Len(text) ELSE MaxPath + 1)

(* A text cut to the buffer, as StrCpy16 and StrCat16 cut it. *)
Cut(text) == SubSeq(text, 1, IF Len(text) < MaxPath THEN Len(text) ELSE MaxPath)

StrCat16(dest, src) == Cut(dest \o src)

PathEqual(a, b) ==
    LET Plain(c) == IF c = "slash" THEN "backslash" ELSE c
    IN  /\ Len(a) = Len(b)
        /\ \A i \in DOMAIN a : Plain(a[i]) = Plain(b[i])

OwnPath == <<"backslash">> \o Joined(own, "backslash")

-----------------------------------------------------------------------------
PathInit ==
    /\ own \in OwnPaths
    /\ spelling = "backslash"
    /\ left = own
    /\ buffer = <<>> /\ gotAny = FALSE /\ guard = 0
    /\ pathPc = "start"

PathTypeOK ==
    /\ own \in OwnPaths
    /\ spelling \in Separators
    /\ left \in Seq(Names)
    /\ buffer \in Seq(Characters) /\ Len(buffer) =< MaxPath
    /\ gotAny \in BOOLEAN
    /\ guard \in 0 .. MaxNodes
    /\ pathPc \in {"start", "walk", "done"}

(* The loaded image protocol is there, or the path is not to be had. *)
StartWalk ==
    /\ pathPc = "start"
    /\ pathPc' \in {"walk", "done"}
    /\ spelling' \in Separators
    /\ UNCHANGED <<own, left, buffer, gotAny, guard>>

(* Fault for Join: the nodes are joined blindly. *)
Join_Blind(text) == StrCat16(buffer, text)

(* Append a node: with a separator if neither side brings one, without the *)
(* second if both do.                                                      *)
Join(text) ==
    LET endsSo   == buffer # <<>> /\ Last(buffer) = "backslash"
        startsSo == Head(text) = "backslash"
    IN  IF buffer # <<>> /\ ~endsSo /\ ~startsSo
        THEN StrCat16(StrCat16(buffer, <<"backslash">>), text)
        ELSE IF endsSo /\ startsSo THEN StrCat16(buffer, Tail(text))
        ELSE StrCat16(buffer, text)

(* A node with the next k names.  The firmware may put a separator before  *)
(* and after them; nothing follows the last name.                          *)
FileNode(k, lead, trail) ==
    (IF lead THEN <<spelling>> ELSE <<>>)
      \o Joined(SubSeq(left, 1, k), spelling)
      \o (IF trail /\ k < Len(left) THEN <<spelling>> ELSE <<>>)

WalkFileNode ==
    /\ pathPc = "walk" /\ guard < MaxNodes
    /\ \E k \in 1 .. Len(left), lead, trail \in BOOLEAN :
          /\ buffer' = Join(FileNode(k, lead, trail))
          /\ left' = SubSeq(left, k + 1, Len(left))
    /\ gotAny' = TRUE
    /\ guard' = guard + 1
    /\ UNCHANGED <<own, spelling, pathPc>>

(* A node of another type, such as the partition's. *)
WalkOtherNode ==
    /\ pathPc = "walk" /\ guard < MaxNodes
    /\ guard' = guard + 1
    /\ UNCHANGED <<own, spelling, left, buffer, gotAny, pathPc>>

(* Rooted, in a second buffer of the same size. *)
Rooted(text) ==
    IF text # <<>> /\ Head(text) # "backslash"
    THEN StrCat16(<<"backslash">>, text) ELSE text

(* The end node, a node shorter than its header, or one node too many.     *)
WalkEnds ==
    /\ pathPc = "walk"
    /\ buffer' = Rooted(buffer)
    /\ pathPc' = "done"
    /\ UNCHANGED <<own, spelling, left, gotAny, guard>>

PathNext == StartWalk \/ WalkFileNode \/ WalkOtherNode \/ WalkEnds

(* The caller has compared the path and drops it.                          *)
ForgetPath ==
    /\ left' = own /\ buffer' = <<>> /\ gotAny' = FALSE /\ guard' = 0
    /\ spelling' = "backslash" /\ pathPc' = "start"
    /\ UNCHANGED own

-----------------------------------------------------------------------------
WholePathRead == pathPc = "done" /\ left = <<>> /\ Len(OwnPath) =< MaxPath

(* However the firmware cuts our path into nodes, the path put together    *)
(* names our file and no other: read to its end it is our path, and cut    *)
(* short by a malformed node, a path that does not end or a full buffer it *)
(* is the beginning of it (the comment on WinBootOwnFilePath).             *)
OwnPathNamesOurFile ==
    spelling = "backslash" =>
        /\ WholePathRead => PathEqual(buffer, OwnPath)
        /\ pathPc = "done" => IsPrefix(buffer, OwnPath)

(* The comment on PathEqual: it "treats '/' and '\' as equal, since        *)
(* firmware and installers are inconsistent about the separator".  The     *)
(* path WinBootOwnFilePath hands it is not put together that way.          *)
EitherSeparatorWillDo == WholePathRead => PathEqual(buffer, OwnPath)
=============================================================================
