--------------------------------- MODULE Osc ---------------------------------
(***************************************************************************)
(* The scanner of raw PTY output (crates/ptyd/src/osc.rs): finds OSC       *)
(* sequences, whatever reads the output is cut into.  A byte is one of the *)
(* kinds scan tells apart; a payload byte is its own content.              *)
(***************************************************************************)
EXTENDS Naturals, Sequences, SequencesExt

CONSTANTS
    MAX_PAYLOAD,
    MaxBytes, MaxRead   \* bounds: bytes of output, bytes of one read

Bytes == {"esc", "]", "bel", "\\", "can", "x"}
Ends == {"bel", "esc", "can"}

VARIABLES
    state,      \* "Ground", "Esc", "Osc" or "OscEsc"
    payload,    \* of Osc and OscEsc
    found,      \* the payloads handed to parse
    output      \* ghost: every byte so far

oscVars == <<state, payload, found, output>>
OscInit == state = "Ground" /\ payload = <<>> /\ found = <<>> /\ output = <<>>

Scanner(s, p, f) == [state |-> s, payload |-> p, found |-> f]

OscByteUnmeasured(s, b, last) ==   \* an unfinished payload is not measured
    LET grown == IF b \in Ends THEN s.payload ELSE Append(s.payload, b)
    IN CASE b = "bel" /\ Len(grown) <= MAX_PAYLOAD -> Scanner("Ground", <<>>, Append(s.found, grown))
         [] b = "esc" -> Scanner("OscEsc", grown, s.found)
         [] b \in {"can", "bel"} -> Scanner("Ground", <<>>, s.found)
         [] OTHER -> Scanner("Osc", grown, s.found)

(* One byte of scan's loop; `last` says it ends the read.  The payload is  *)
(* measured when it ends and at the end of a read.                         *)
OscByte(s, b, last) ==
    LET grown == IF b \in Ends THEN s.payload ELSE Append(s.payload, b)
    IN IF (b \in Ends \/ last) /\ Len(grown) > MAX_PAYLOAD THEN Scanner("Ground", <<>>, s.found)
       ELSE CASE b = "bel" -> Scanner("Ground", <<>>, Append(s.found, grown))
              [] b = "esc" -> Scanner("OscEsc", grown, s.found)
              [] b = "can" -> Scanner("Ground", <<>>, s.found)
              [] OTHER -> Scanner("Osc", grown, s.found)

EscByte(s, b) ==
    CASE b = "]" -> Scanner("Osc", <<>>, s.found) [] b = "esc" -> Scanner("Esc", <<>>, s.found)
      [] OTHER -> Scanner("Ground", <<>>, s.found)

ByteForgetful(s, b, last) ==   \* `ESC \` cut by a read is let go
    CASE s.state = "Ground" -> Scanner(IF b = "esc" THEN "Esc" ELSE "Ground", <<>>, s.found)
      [] s.state = "Osc" -> IF last /\ b = "esc" THEN Scanner("Ground", <<>>, s.found) ELSE OscByte(s, b, last)
      [] s.state = "OscEsc" /\ b = "\\" -> Scanner("Ground", <<>>, Append(s.found, s.payload))
      [] OTHER -> EscByte(s, b)

Byte(s, b, last) ==
    CASE s.state = "Ground" -> Scanner(IF b = "esc" THEN "Esc" ELSE "Ground", <<>>, s.found)
      [] s.state = "Osc" -> OscByte(s, b, last)
      [] s.state = "OscEsc" /\ b = "\\" -> Scanner("Ground", <<>>, Append(s.found, s.payload))
      [] OTHER -> EscByte(s, b)

(* OscScanner::scan of one read                                            *)
scan(bytes) ==
    FoldLeft(LAMBDA s, i : Byte(s, bytes[i], i = Len(bytes)),
             Scanner(state, payload, found), [i \in 1..Len(bytes) |-> i])

Read(bytes) ==
    /\ Len(output) + Len(bytes) <= MaxBytes /\ output' = output \o bytes
    /\ state' = scan(bytes).state /\ payload' = scan(bytes).payload /\ found' = scan(bytes).found

OscNext == \E n \in 1..MaxRead : \E bytes \in [1..n -> Bytes] : Read(bytes)
OscSpec == OscInit /\ [][OscNext]_oscVars

-----------------------------------------------------------------------------
(* The reference: `ESC ]`, a payload without an end in it, and BEL or      *)
(* `ESC \`.                                                                *)
Starts(i) == i + 1 <= Len(output) /\ output[i] = "esc" /\ output[i + 1] = "]"
PayloadTo(i, j) == i + 1 <= j /\ \A k \in i + 2..j : output[k] \notin Ends
Closed(i, j) ==
    /\ Starts(i) /\ PayloadTo(i, j) /\ j < Len(output)
    /\ \/ output[j + 1] = "bel"
       \/ j + 2 <= Len(output) /\ output[j + 1] = "esc" /\ output[j + 2] = "\\"
Overlong == \E i, j \in 1..Len(output) : Starts(i) /\ PayloadTo(i, j) /\ j - (i + 1) > MAX_PAYLOAD
Complete == {<<i, j>> \in (1..Len(output)) \X (1..Len(output)) : Closed(i, j)}

(* Every complete sequence of the output is found, once and in order, and  *)
(* nothing else, wherever the reads cut it.  After a payload over the      *)
(* limit the scanner may read the rest as text.                            *)
FoundExactly ==
    ~Overlong =>
      /\ Len(found) = Cardinality(Complete)
      /\ \A s \in Complete :
           LET n == Cardinality({t \in Complete : t[1] <= s[1]})
           IN found[n] = SubSeq(output, s[1] + 2, s[2])

(* "Keeps its state between chunks, so a sequence split across reads is    *)
(* still found": what is held between reads stays within the limit.        *)
HeldIsBounded == Len(payload) <= MAX_PAYLOAD /\ \A i \in 1..Len(found) : Len(found[i]) <= MAX_PAYLOAD
=============================================================================
