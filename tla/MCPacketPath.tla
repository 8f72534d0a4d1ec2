---------------------------- MODULE MCPacketPath ----------------------------
(***************************************************************************)
(* What a packet goes through, for TLC: reads are cut into packets, which  *)
(* are inspected (Multiplexer), their timestamps are rewritten             *)
(* (PTSRemapper), and they are broadcast (Broadcaster).  The three share   *)
(* no state: Run hands a packet from one to the next.  The interleavings   *)
(* add no behaviour to any of them, so that a behaviour has one at work,   *)
(* and the other two as they begin.                                        *)
(***************************************************************************)
EXTENDS PTSRemapper, Broadcaster, Multiplexer

\* Two recorder loops, old and new, and a loop of another component.
CONSTANTS old, new, other, recorder, preview

MCLoops == {old, new, other}
MCIds   == {recorder, preview}
MCIdOf  == [l \in MCLoops |-> IF l = other THEN preview ELSE recorder]

\* Every short stream of bytes, and short packets that tables and pictures
\* outgrow, with every NAL header that matters.
MCPrograms == {[number |-> 0, pid |-> 16], [number |-> 1, pid |-> 256],
               [number |-> 2, pid |-> 4097]}
MCStreamKinds == [type: {36}, pid: {300}, es: {0, 1}] \cup [type: {27}, pid: {257}, es: {0}]
  \cup [type: {15, 3}, pid: {258}, es: {0, 3}] \cup [type: {6}, pid: {99}, es: {2}]
MCFirstNals == [c \in Codecs |->
  [code: {4}, body: {1, 17, 18},
   header: IF c = "h264" THEN {9, 65, 103} ELSE {70, 0, 64}]]
MCNals == [c \in Codecs |->
  [code: {3, 4}, header: Key[c] \cup Mistaken[c] \cup Other[c], body: {1}]]

VARIABLE works

vars == <<remapperVars, broadcasterVars, muxVars, works>>

Init ==
  /\ works \in {"remapper", "broadcaster", "parser"}
  /\ RemapperInit /\ BroadcasterInit /\ MuxInit

RemapperWorks ==
  works = "remapper" /\ RemapperNext /\ UNCHANGED <<broadcasterVars, muxVars, works>>
BroadcasterWorks ==
  works = "broadcaster" /\ BroadcasterNext /\ UNCHANGED <<remapperVars, muxVars, works>>
ParserWorks ==
  works = "parser" /\ MuxNext /\ UNCHANGED <<remapperVars, broadcasterVars, works>>

Next == RemapperWorks \/ BroadcasterWorks \/ ParserWorks

Spec == Init /\ [][Next]_vars /\ BroadcasterFairness

\* The remapper's fields keep their widths and the channels their capacity,
\* whatever goes through them.
PathTypeOK == RemapperTypeOK /\ BroadcasterTypeOK
=============================================================================
