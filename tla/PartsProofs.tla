------------------------------ MODULE PartsProofs ------------------------------
(***************************************************************************)
(* Two more components, shipped decisions and the night cap, for any       *)
(* number of heartbeats, lines, losses, runners and jobs; and the eight    *)
(* components of MCParts together.                                         *)
(***************************************************************************)
EXTENDS MCParts, AdmissionMutexProofs, ControlProofs, ScalingProofs

------------------------------------------------------------------------------
(* Shipped decisions: the offset passes no line that was not taken.         *)

\* Lines that need not be sent again.
Received == tabled \cup refused \cup skipped

\* The first n lines of the file have been taken.
Covered(n) == \A i \in 1..Len(log) : i <= n => log[i] \in Received

\* The types the argument needs, and that the offset and the heartbeats are of
\* files there have been.
Kept ==
    /\ log \in Seq(Nat) /\ written \in Nat
    /\ offset \in Int /\ offset >= NoOffset
    /\ file \in {1, 2} /\ offsetFile \in 1..file
    /\ reader = "local" => offset # NoOffset
    /\ offset = NoOffset => skipped = {}
    /\ misread \in BOOLEAN
    /\ beat \in [Beats -> [stage : Stages, from : Nat, lines : Seq(Nat), file : {1, 2}]]
    /\ \A b \in Beats : beat[b].stage # "none" => beat[b].file <= file

\* An offset of this file lies in it.
OffsetInFile == offsetFile = file => offset <= Len(log)

\* A heartbeat under way carries the lines that follow its start, the lines before
\* its start have been taken, and so have its own when it has been answered.
Grounded(b) ==
    beat[b].stage # "none" /\ beat[b].file = file =>
        /\ beat[b].from + Len(beat[b].lines) <= Len(log)
        /\ \A i \in 1..Len(beat[b].lines) : log[beat[b].from + i] = beat[b].lines[i]
        /\ misread \/ Covered(beat[b].from)

BeatsGrounded == \A b \in Beats : Grounded(b)

Answered == \A b \in Beats : beat[b].stage = "answered" => Range(beat[b].lines) \subseteq Received

ShipInv == Kept /\ OffsetInFile /\ BeatsGrounded /\ Answered /\ NoLineSkipped

\* NoLineSkipped in these terms.
LEMMA SkippedIsCovered == NoLineSkipped <=> misread \/ offsetFile # file \/ Covered(offset)
BY DEF NoLineSkipped, Covered, Received

\* What is pending follows the place it is read from.
LEMMA PendingLines ==
    ASSUME Kept, offset # NoOffset, Pending # <<>>
    PROVE  /\ ReadFrom \in Nat /\ Pending \in Seq(Nat)
           /\ ReadFrom + Len(Pending) <= Len(log)
           /\ \A i \in 1..Len(Pending) : log[ReadFrom + i] = Pending[i]
<1> DEFINE upto == IF reader = "local" THEN Len(log) ELSE ReadFrom + BatchLines
           end == IF upto < Len(log) THEN upto ELSE Len(log)
<1>1. ReadFrom \in Nat /\ ReadFrom <= Len(log) /\ BatchLines \in Nat \ {0} /\ Len(log) \in Nat
  BY ShipAssumption DEF Kept, ReadFrom, NoOffset
<1>2. end \in Nat /\ ReadFrom <= end /\ end <= Len(log)
  BY <1>1
<1>3. Pending = SubSeq(log, ReadFrom + 1, end)
  BY DEF Pending
<1> HIDE DEF end
<1>4. log \in Seq(Nat)
  BY DEF Kept
<1>5. Pending \in Seq(Nat) /\ Len(Pending) = end - ReadFrom
  BY <1>1, <1>2, <1>3, <1>4
<1>6. \A i \in 1..Len(Pending) : Pending[i] = log[ReadFrom + i]
  BY <1>1, <1>2, <1>3, <1>4, <1>5
<1> QED BY <1>1, <1>2, <1>5, <1>6

\* The lines before that place have been taken, unless a new file is misread.
LEMMA ReadFromCovered ==
    ASSUME ShipInv, offset # NoOffset
    PROVE  misread \/ Misplaced \/ Covered(ReadFrom)
<1>1. CASE Len(log) < offset
  BY <1>1 DEF ReadFrom, Covered
<1>2. CASE ~(Len(log) < offset) /\ offsetFile # file
  BY <1>2 DEF ReadFrom, Covered, Misplaced, ShipInv, Kept, NoOffset
<1>3. CASE ~(Len(log) < offset) /\ offsetFile = file
  BY <1>3, SkippedIsCovered DEF ReadFrom, ShipInv
<1> QED BY <1>1, <1>2, <1>3

\* Rows that are inserted and rows that are refused have all been taken.
LEMMA IngestTakes ==
    ASSUME NEW lines, NEW bad \in SUBSET Range(lines), Ingest(lines, bad), skipped' = skipped
    PROVE  Received \subseteq Received' /\ Range(lines) \subseteq Received'
BY DEF Ingest, Received

\* Initially there is no line.
LEMMA ShipInitially == ShipInit => ShipInv
<1> SUFFICES ASSUME ShipInit PROVE ShipInv
  OBVIOUS
<1>1. NoBeat \in [stage : Stages, from : Nat, lines : Seq(Nat), file : {1, 2}]
  BY DEF NoBeat, Stages
<1>2. beat \in [Beats -> [stage : Stages, from : Nat, lines : Seq(Nat), file : {1, 2}]]
  BY <1>1 DEF ShipInit
<1>3. \A b \in Beats : beat[b].stage = "none"
  BY DEF ShipInit, NoBeat
<1>4. log \in Seq(Nat) /\ Len(log) = 0
  BY DEF ShipInit
<1>5. offset \in {0, NoOffset} /\ (reader = "local" => offset = 0)
  BY DEF ShipInit
<1>8. /\ written \in Nat /\ file \in {1, 2} /\ offsetFile \in 1..file
       /\ misread \in BOOLEAN /\ skipped = {}
  <2>1. written = 0 /\ file = 1 /\ offsetFile = 1 /\ misread = FALSE /\ skipped = {}
    BY DEF ShipInit
  <2>2. written \in Nat /\ file \in {1, 2} /\ offsetFile \in 1..file
    BY <2>1
  <2>3. misread \in BOOLEAN
    BY <2>1
  <2> QED BY <2>1, <2>2, <2>3
<1>9. offset \in Int /\ offset >= NoOffset /\ (reader = "local" => offset # NoOffset)
  BY <1>5 DEF NoOffset
<1>10. Kept
  BY <1>2, <1>3, <1>4, <1>8, <1>9 DEF Kept
<1>6. OffsetInFile /\ NoLineSkipped
  BY <1>4 DEF ShipInit, OffsetInFile, NoLineSkipped, NoOffset
<1>7. BeatsGrounded /\ Answered
  BY <1>3 DEF BeatsGrounded, Grounded, Answered
<1> QED BY <1>10, <1>6, <1>7 DEF ShipInv

\* A file that has grown, if it has changed at all.
Grown == log' = log \/ \E x \in Nat : log' = Append(log, x)

\* A file that has grown keeps its lines where they were.
LEMMA GrownKeeps ==
    ASSUME log \in Seq(Nat), Grown
    PROVE  /\ Len(log) \in Nat /\ Len(log') \in Nat /\ Len(log) <= Len(log')
           /\ \A i \in 1..Len(log) : log'[i] = log[i]
<1>1. CASE log' = log
  BY <1>1
<1>2. ASSUME NEW x \in Nat, log' = Append(log, x)
      PROVE  /\ Len(log) \in Nat /\ Len(log') \in Nat /\ Len(log) <= Len(log')
             /\ \A i \in 1..Len(log) : log'[i] = log[i]
  BY <1>2
<1> QED BY <1>1, <1>2 DEF Grown

\* A heartbeat that goes on carrying what it carried stays grounded.
LEMMA GroundedLasts ==
    ASSUME ShipInv, NEW b \in Beats, beat[b].stage # "none",
           beat'[b].from = beat[b].from, beat'[b].lines = beat[b].lines,
           beat'[b].file = beat[b].file, file' = file,
           Received \subseteq Received', Grown, misread => misread'
    PROVE  Grounded(b)'
<1> SUFFICES ASSUME beat[b].file = file PROVE Grounded(b)'
  BY DEF Grounded
<1> DEFINE n == beat[b].from
           lines == beat[b].lines
<1>1. n \in Nat /\ lines \in Seq(Nat) /\ log \in Seq(Nat)
  BY DEF ShipInv, Kept
<1>2. /\ n + Len(lines) <= Len(log)
      /\ \A i \in 1..Len(lines) : log[n + i] = lines[i]
      /\ misread \/ Covered(n)
  BY DEF ShipInv, BeatsGrounded, Grounded
<1> HIDE DEF n, lines
<1>3. Len(log) <= Len(log') /\ \A i \in 1..Len(log) : log'[i] = log[i]
  BY <1>1, GrownKeeps
<1>4. Len(log') \in Nat
  BY <1>1, GrownKeeps
<1>5. n + Len(lines) <= Len(log')
  BY <1>1, <1>2, <1>3, <1>4
<1>6. \A i \in 1..Len(lines) : log'[n + i] = lines[i]
  <2> TAKE i \in 1..Len(lines)
  <2>1. n + i \in 1..Len(log)
    BY <1>1, <1>2
  <2> QED BY <2>1, <1>2, <1>3
<1>7. misread' \/ Covered(n)'
  <2>1. CASE misread
    BY <2>1
  <2>2. CASE Covered(n)
    <3>1. n <= Len(log) /\ n \in Int /\ Kept
      BY <1>1, <1>2 DEF ShipInv
    <3>2. log' = log \/ (n <= Len(log) /\ \E x \in Nat : log' = Append(log, x))
      BY <3>1 DEF Grown
    <3>3. \A i \in 1..Len(log) : i <= n => log[i] \in Received
      BY <2>2 DEF Covered
    <3>4. \A i \in 1..Len(log') : i <= n => i \in 1..Len(log)
      BY <3>1, <1>1, <1>4
    <3>5. \A i \in 1..Len(log') : i <= n' => log'[i] \in Received'
      BY <3>3, <3>4, <1>3 DEF n
    <3> QED BY <3>5 DEF Covered
  <2> QED BY <1>2, <2>1, <2>2
<1> QED BY <1>5, <1>6, <1>7 DEF Grounded, n, lines

\* An offset that does not move goes on covering what it covered.
LEMMA OffsetLasts ==
    ASSUME ShipInv, offset' = offset, offsetFile' = offsetFile, file' = file,
           Received \subseteq Received', Grown, misread => misread'
    PROVE  OffsetInFile' /\ NoLineSkipped'
<1>1. log \in Seq(Nat) /\ offset \in Int
  BY DEF ShipInv, Kept
<1>2. /\ Len(log) \in Nat /\ Len(log') \in Nat /\ Len(log) <= Len(log')
      /\ \A i \in 1..Len(log) : log'[i] = log[i]
  BY <1>1, GrownKeeps
<1>3. OffsetInFile'
  BY <1>1, <1>2 DEF ShipInv, OffsetInFile
<1>4. CASE misread \/ offsetFile # file
  BY <1>3, <1>4 DEF NoLineSkipped
<1>5. CASE ~misread /\ offsetFile = file
  <2>1. \A i \in 1..Len(log) : i <= offset => log[i] \in Received'
    BY <1>5 DEF ShipInv, NoLineSkipped, Received
  <2>2. \A i \in 1..Len(log') : i <= offset => i \in 1..Len(log)
    BY <1>1, <1>2, <1>5 DEF ShipInv, OffsetInFile
  <2>3. \A i \in 1..Len(log') : i <= offset' => log'[i] \in Received'
    BY <2>1, <2>2, <1>2
  <2> QED BY <1>3, <2>3 DEF NoLineSkipped, Received
<1> QED BY <1>4, <1>5

\* Heartbeats that stay as they are, or end.
LEMMA OthersLast ==
    ASSUME ShipInv, NEW b \in Beats, beat' = [beat EXCEPT ![b] = NoBeat], file' = file,
           Received \subseteq Received', log' = log, misread => misread'
    PROVE  /\ BeatsGrounded' /\ Answered'
           /\ beat' \in [Beats -> [stage : Stages, from : Nat, lines : Seq(Nat), file : {1, 2}]]
           /\ \A c \in Beats : beat'[c].stage # "none" => beat'[c].file <= file
<1>1. NoBeat \in [stage : Stages, from : Nat, lines : Seq(Nat), file : {1, 2}]
  BY DEF NoBeat, Stages
<1>2. beat' \in [Beats -> [stage : Stages, from : Nat, lines : Seq(Nat), file : {1, 2}]]
  BY <1>1 DEF ShipInv, Kept
<1>3. \A c \in Beats : beat'[c].stage # "none" => c # b /\ beat'[c] = beat[c]
  BY DEF NoBeat, ShipInv, Kept
<1>4. BeatsGrounded'
  <2> SUFFICES ASSUME NEW c \in Beats PROVE Grounded(c)'
    BY DEF BeatsGrounded
  <2>1. CASE beat'[c].stage = "none"
    BY <2>1 DEF Grounded
  <2>2. CASE beat'[c].stage # "none"
    BY <2>2, <1>3, GroundedLasts DEF Grown
  <2> QED BY <2>1, <2>2
<1>5. Answered'
  BY <1>3 DEF Answered, ShipInv
<1> QED BY <1>2, <1>3, <1>4, <1>5 DEF ShipInv, Kept

\* Every step keeps the invariant.
LEMMA ShipStep == ShipInv /\ [ShipNext]_shipVars => ShipInv'
<1> SUFFICES ASSUME ShipInv, [ShipNext]_shipVars PROVE ShipInv'
  OBVIOUS
<1> DEFINE Carried == [stage : Stages, from : Nat, lines : Seq(Nat), file : {1, 2}]
<1>1. CASE AppendLine
  <2>1. /\ log \in Seq(Nat) /\ written' \in Nat /\ log' = Append(log, written')
        /\ beat' = beat /\ file' = file /\ misread' = misread
        /\ offset' = offset /\ offsetFile' = offsetFile /\ Received' = Received
    BY <1>1 DEF AppendLine, ShipInv, Kept, Received
  <2>2. Grown
    BY <2>1 DEF Grown
  <2>3. OffsetInFile' /\ NoLineSkipped'
    BY <2>1, <2>2, OffsetLasts
  <2>4. Kept'
    BY <1>1, <2>1 DEF AppendLine, ShipInv, Kept
  <2>5. BeatsGrounded'
    <3> SUFFICES ASSUME NEW c \in Beats PROVE Grounded(c)'
      BY DEF BeatsGrounded
    <3>1. CASE beat[c].stage = "none"
      BY <2>1, <3>1 DEF Grounded
    <3>2. CASE beat[c].stage # "none"
      BY <2>1, <2>2, <3>2, GroundedLasts
    <3> QED BY <3>1, <3>2
  <2>6. Answered'
    BY <2>1 DEF Answered, ShipInv
  <2> QED BY <2>3, <2>4, <2>5, <2>6 DEF ShipInv
<1>2. CASE Rotate
  <2>1. offsetFile' # file' /\ \A c \in Beats : beat'[c].stage # "none" => beat'[c].file # file'
    BY <1>2 DEF Rotate, ShipInv, Kept
  <2>2. Kept'
    BY <1>2 DEF Rotate, ShipInv, Kept
  <2>3. OffsetInFile' /\ NoLineSkipped' /\ BeatsGrounded'
    BY <2>1 DEF OffsetInFile, NoLineSkipped, BeatsGrounded, Grounded
  <2>4. Answered'
    BY <1>2 DEF Rotate, Answered, ShipInv, Received
  <2> QED BY <2>2, <2>3, <2>4 DEF ShipInv
<1>3. CASE FirstStart
  <2>1. Received \subseteq Received' /\ log' = log /\ log \in Seq(Nat)
    BY <1>3 DEF FirstStart, ShipInv, Kept, Received
  <2>2. Kept'
    BY <1>3, <2>1 DEF FirstStart, ShipInv, Kept, NoOffset
  <2>3. OffsetInFile'
    BY <1>3, <2>1 DEF FirstStart, OffsetInFile
  <2>4. NoLineSkipped'
    BY <1>3, <2>1 DEF FirstStart, NoLineSkipped, Range
  <2>5. BeatsGrounded'
    <3> SUFFICES ASSUME NEW c \in Beats PROVE Grounded(c)'
      BY DEF BeatsGrounded
    <3>1. CASE beat[c].stage = "none"
      BY <1>3, <3>1 DEF FirstStart, Grounded
    <3>2. CASE beat[c].stage # "none"
      BY <1>3, <2>1, <3>2, GroundedLasts DEF FirstStart, Grown
    <3> QED BY <3>1, <3>2
  <2>6. Answered'
    BY <1>3, <2>1 DEF FirstStart, Answered, ShipInv
  <2> QED BY <2>2, <2>3, <2>4, <2>5, <2>6 DEF ShipInv
<1>4. ASSUME NEW b \in Beats, ReadLocal(b) PROVE ShipInv'
  <2>1. /\ log' = log /\ file' = file /\ offset' = offset /\ offsetFile' = offsetFile
        /\ (misread => misread')
        /\ offset # NoOffset /\ Pending # <<>>
    BY <1>4 DEF ReadLocal, ShipInv, Kept
  <2>2. Received \subseteq Received' /\ Range(Pending) \subseteq Received'
    BY <1>4, IngestTakes DEF ReadLocal
  <2>3. Kept
    BY DEF ShipInv
  <2>4. /\ ReadFrom \in Nat /\ Pending \in Seq(Nat)
        /\ ReadFrom + Len(Pending) <= Len(log)
        /\ \A i \in 1..Len(Pending) : log[ReadFrom + i] = Pending[i]
    BY <2>1, <2>3, PendingLines
  <2>5. /\ beat' = [beat EXCEPT ![b] = [stage |-> "answered", from |-> ReadFrom,
                                         lines |-> Pending, file |-> file]]
        /\ misread' = (misread \/ Misplaced)
        /\ \A c \in Beats : beat[c].stage = "none"
    BY <1>4 DEF ReadLocal, Outstanding
  <2>6. [stage |-> "answered", from |-> ReadFrom, lines |-> Pending, file |-> file] \in Carried
    BY <2>4 DEF Stages, ShipInv, Kept
  <2>7. beat' \in [Beats -> Carried]
    BY <2>5, <2>6 DEF ShipInv, Kept
  <2>8. Kept'
    BY <1>4, <2>1, <2>5, <2>7 DEF ReadLocal, ShipInv, Kept
  <2>9. OffsetInFile' /\ NoLineSkipped'
    BY <2>1, <2>2, OffsetLasts DEF Grown
  <2>10. \A c \in Beats : beat'[c].stage # "none" => c = b
    BY <2>5 DEF ShipInv, Kept
  <2>11. beat'[b].from = ReadFrom /\ beat'[b].lines = Pending
    BY <2>5 DEF ShipInv, Kept
  <2>12. misread' \/ Covered(ReadFrom)
    BY <2>1, <2>5, ReadFromCovered
  <2>13. misread' \/ Covered(beat[b].from)'
    BY <2>1, <2>2, <2>11, <2>12 DEF Covered
  <2>14. BeatsGrounded'
    BY <2>1, <2>4, <2>10, <2>11, <2>13 DEF BeatsGrounded, Grounded
  <2>15. Answered'
    BY <2>2, <2>10, <2>11 DEF Answered
  <2> QED BY <2>8, <2>9, <2>14, <2>15 DEF ShipInv
<1>5. ASSUME NEW b \in Beats, SendBeat(b) PROVE ShipInv'
  <2>1. /\ log' = log /\ file' = file /\ offset' = offset /\ offsetFile' = offsetFile
        /\ (misread => misread') /\ Received \subseteq Received'
        /\ offset # NoOffset /\ Pending # <<>>
    BY <1>5 DEF SendBeat, Received
  <2>3. Kept
    BY DEF ShipInv
  <2>4. /\ ReadFrom \in Nat /\ Pending \in Seq(Nat)
        /\ ReadFrom + Len(Pending) <= Len(log)
        /\ \A i \in 1..Len(Pending) : log[ReadFrom + i] = Pending[i]
    BY <2>1, <2>3, PendingLines
  <2>5. /\ beat' = [beat EXCEPT ![b] = [stage |-> "sent", from |-> ReadFrom,
                                         lines |-> Pending, file |-> file]]
        /\ misread' = (misread \/ Misplaced)
    BY <1>5 DEF SendBeat
  <2>6. [stage |-> "sent", from |-> ReadFrom, lines |-> Pending, file |-> file] \in Carried
    BY <2>4 DEF Stages, ShipInv, Kept
  <2>7. beat' \in [Beats -> Carried]
    BY <2>5, <2>6 DEF ShipInv, Kept
  <2>8. Kept'
    BY <1>5, <2>1, <2>5, <2>7 DEF SendBeat, ShipInv, Kept
  <2>9. OffsetInFile' /\ NoLineSkipped'
    BY <2>1, OffsetLasts DEF Grown
  <2>10. \A c \in Beats : c # b => beat'[c] = beat[c]
    BY <2>5 DEF ShipInv, Kept
  <2>11. beat'[b].stage = "sent" /\ beat'[b].from = ReadFrom /\ beat'[b].lines = Pending
    BY <2>5 DEF ShipInv, Kept
  <2>12. misread' \/ Covered(ReadFrom)
    BY <2>1, <2>5, ReadFromCovered
  <2>13. misread' \/ Covered(beat[b].from)'
    BY <2>1, <2>11, <2>12 DEF Covered
  <2>14. BeatsGrounded'
    <3> SUFFICES ASSUME NEW c \in Beats PROVE Grounded(c)'
      BY DEF BeatsGrounded
    <3>1. CASE c = b
      BY <2>1, <2>4, <2>11, <2>13, <3>1 DEF Grounded
    <3>2. CASE c # b /\ beat[c].stage = "none"
      BY <2>10, <3>2 DEF Grounded
    <3>3. CASE c # b /\ beat[c].stage # "none"
      BY <2>1, <2>10, <3>3, GroundedLasts DEF Grown
    <3> QED BY <3>1, <3>2, <3>3
  <2>15. Answered'
    BY <2>1, <2>10, <2>11 DEF Answered, ShipInv
  <2> QED BY <2>8, <2>9, <2>14, <2>15 DEF ShipInv
<1>6. ASSUME NEW b \in Beats, HandleBeat(b) PROVE ShipInv'
  <2>1. /\ log' = log /\ file' = file /\ offset' = offset /\ offsetFile' = offsetFile
        /\ misread' = misread
    BY <1>6 DEF HandleBeat
  <2>2. Received \subseteq Received' /\ Range(beat[b].lines) \subseteq Received'
    BY <1>6, IngestTakes DEF HandleBeat
  <2>3. OffsetInFile' /\ NoLineSkipped'
    BY <2>1, <2>2, OffsetLasts DEF Grown
  <2>4. CASE beat' = [beat EXCEPT ![b] = NoBeat]
    <3>1. /\ beat' \in [Beats -> Carried]
          /\ \A c \in Beats : beat'[c].stage # "none" => beat'[c].file <= file
      BY <2>1, <2>2, <2>4, OthersLast
    <3>2. Kept'
      BY <1>6, <2>1, <3>1 DEF HandleBeat, ShipInv, Kept
    <3> QED BY <2>1, <2>2, <2>3, <2>4, <3>2, OthersLast DEF ShipInv
  <2>5. CASE beat[b].stage = "sent" /\ beat' = [beat EXCEPT ![b] = [@ EXCEPT !.stage = "answered"]]
    <3>1. /\ \A c \in Beats : c # b => beat'[c] = beat[c]
          /\ beat'[b] = [beat[b] EXCEPT !.stage = "answered"]
      BY <2>5 DEF ShipInv, Kept
    <3>2. beat[b] \in Carried
      BY DEF ShipInv, Kept
    <3>3. /\ beat'[b].stage = "answered" /\ beat'[b].from = beat[b].from
          /\ beat'[b].lines = beat[b].lines /\ beat'[b].file = beat[b].file
          /\ beat'[b] \in Carried
      BY <3>1, <3>2 DEF Stages
    <3>4. beat' \in [Beats -> Carried]
      BY <2>5, <3>3, <3>1 DEF ShipInv, Kept
    <3>5. Kept'
      BY <1>6, <2>1, <2>5, <3>1, <3>3, <3>4 DEF HandleBeat, ShipInv, Kept
    <3>6. BeatsGrounded'
      <4> SUFFICES ASSUME NEW c \in Beats PROVE Grounded(c)'
        BY DEF BeatsGrounded
      <4>1. CASE beat[c].stage = "none"
        BY <2>5, <3>1, <4>1 DEF Grounded
      <4>2. CASE beat[c].stage # "none"
        <5>1. /\ beat'[c].from = beat[c].from /\ beat'[c].lines = beat[c].lines
              /\ beat'[c].file = beat[c].file
          BY <3>1, <3>3
        <5> QED BY <2>1, <2>2, <4>2, <5>1, GroundedLasts DEF Grown
      <4> QED BY <4>1, <4>2
    <3>7. Answered'
      BY <2>2, <3>1, <3>3 DEF Answered, ShipInv
    <3> QED BY <2>3, <3>5, <3>6, <3>7 DEF ShipInv
  <2> QED BY <1>6, <2>4, <2>5 DEF HandleBeat
<1>7. ASSUME NEW b \in Beats, Advance(b) PROVE ShipInv'
  <2>1. /\ log' = log /\ file' = file /\ misread' = misread /\ Received' = Received
        /\ offset' = beat[b].from + Len(beat[b].lines) /\ offsetFile' = beat[b].file
        /\ beat' = [beat EXCEPT ![b] = NoBeat] /\ beat[b].stage = "answered"
    BY <1>7 DEF Advance, Received
  <2>2. beat[b] \in Carried /\ beat[b].file <= file /\ log \in Seq(Nat)
    BY <2>1 DEF ShipInv, Kept
  <2>3. offset' \in Nat
    BY <2>1, <2>2
  <2>4. BeatsGrounded' /\ Answered'
    BY <2>1, OthersLast
  <2>5. Kept'
    <3>1. /\ beat' \in [Beats -> Carried]
          /\ \A c \in Beats : beat'[c].stage # "none" => beat'[c].file <= file
      BY <2>1, OthersLast
    <3>2. offset' \in Int /\ offset' >= NoOffset /\ offset' # NoOffset
      BY <2>3 DEF NoOffset
    <3> QED BY <1>7, <2>1, <2>2, <3>1, <3>2 DEF Advance, ShipInv, Kept
  <2>6. OffsetInFile'
    BY <2>1 DEF OffsetInFile, ShipInv, BeatsGrounded, Grounded
  <2>7. NoLineSkipped'
    <3> SUFFICES ASSUME ~misread, beat[b].file = file, NEW i \in 1..Len(log), i <= offset'
                 PROVE  log[i] \in Received
      BY <2>1 DEF NoLineSkipped, Received
    <3> DEFINE n == beat[b].from
               lines == beat[b].lines
    <3>1. n \in Nat /\ lines \in Seq(Nat)
      BY <2>2
    <3>2. /\ Covered(n) /\ Range(lines) \subseteq Received
          /\ \A j \in 1..Len(lines) : log[n + j] = lines[j]
      BY <2>1 DEF ShipInv, BeatsGrounded, Grounded, Answered
    <3>3. CASE i <= n
      BY <3>2, <3>3 DEF Covered
    <3>4. CASE ~(i <= n)
      <4> DEFINE j == i - n
      <4>1. j \in 1..Len(lines) /\ n + j = i
        BY <2>1, <3>1, <3>4
      <4>2. lines[j] \in Range(lines)
        BY <3>1, <4>1 DEF Range
      <4> QED BY <3>2, <4>1, <4>2
    <3> QED BY <3>3, <3>4
  <2> QED BY <2>4, <2>5, <2>6, <2>7 DEF ShipInv
<1>8. ASSUME NEW b \in Beats, GiveUpBeat(b) PROVE ShipInv'
  <2>1. /\ log' = log /\ file' = file /\ offset' = offset /\ offsetFile' = offsetFile
        /\ misread' = misread /\ Received \subseteq Received'
    BY <1>8 DEF GiveUpBeat, Received
  <2>2. OffsetInFile' /\ NoLineSkipped'
    BY <2>1, OffsetLasts DEF Grown
  <2>3. CASE beat' = [beat EXCEPT ![b] = NoBeat]
    <3>1. /\ beat' \in [Beats -> Carried]
          /\ \A c \in Beats : beat'[c].stage # "none" => beat'[c].file <= file
      BY <2>1, <2>3, OthersLast
    <3>2. Kept'
      BY <1>8, <2>1, <3>1 DEF GiveUpBeat, ShipInv, Kept
    <3> QED BY <2>1, <2>2, <2>3, <3>2, OthersLast DEF ShipInv
  <2>4. CASE beat[b].stage = "sent" /\ beat' = [beat EXCEPT ![b].stage = "orphan"]
    <3>1. /\ \A c \in Beats : c # b => beat'[c] = beat[c]
          /\ beat'[b] = [beat[b] EXCEPT !.stage = "orphan"]
      BY <2>4 DEF ShipInv, Kept
    <3>2. beat[b] \in Carried
      BY DEF ShipInv, Kept
    <3>3. /\ beat'[b].stage = "orphan" /\ beat'[b].from = beat[b].from
          /\ beat'[b].lines = beat[b].lines /\ beat'[b].file = beat[b].file
          /\ beat'[b] \in Carried
      BY <3>1, <3>2 DEF Stages
    <3>4. beat' \in [Beats -> Carried]
      BY <2>4, <3>3, <3>1 DEF ShipInv, Kept
    <3>5. Kept'
      BY <1>8, <2>1, <2>4, <3>1, <3>3, <3>4 DEF GiveUpBeat, ShipInv, Kept
    <3>6. BeatsGrounded'
      <4> SUFFICES ASSUME NEW c \in Beats PROVE Grounded(c)'
        BY DEF BeatsGrounded
      <4>1. CASE beat[c].stage = "none"
        BY <2>4, <3>1, <4>1 DEF Grounded
      <4>2. CASE beat[c].stage # "none"
        <5>1. /\ beat'[c].from = beat[c].from /\ beat'[c].lines = beat[c].lines
              /\ beat'[c].file = beat[c].file
          BY <3>1, <3>3
        <5> QED BY <2>1, <4>2, <5>1, GroundedLasts DEF Grown
      <4> QED BY <4>1, <4>2
    <3>7. Answered'
      BY <2>1, <3>1, <3>3 DEF Answered, ShipInv
    <3> QED BY <2>2, <3>5, <3>6, <3>7 DEF ShipInv
  <2> QED BY <1>8, <2>3, <2>4 DEF GiveUpBeat
<1>9. CASE UNCHANGED shipVars
  BY <1>9 DEF shipVars, ShipInv, Kept, OffsetInFile, BeatsGrounded, Grounded, Covered, Received,
              Answered, NoLineSkipped
<1> QED BY <1>1, <1>2, <1>3, <1>4, <1>5, <1>6, <1>7, <1>8, <1>9 DEF ShipNext

\* Whatever number of heartbeats overlap and however often requests and answers are
\* lost, the saved offset of admission-ship.js passes no line of its file that the
\* coordinator has not taken, a file misread after a rotation excepted.
THEOREM OffsetPassesNothing == ShipSpec => []NoLineSkipped
<1>1. ShipInv => NoLineSkipped
  BY DEF ShipInv
<1> QED BY ShipInitially, ShipStep, <1>1, PTL DEF ShipSpec

------------------------------------------------------------------------------
(* Types.                                                                     *)

\* A heartbeat carries some of the first n lines.
Within(h, n) ==
    /\ Range(h.lines) \subseteq 1..n /\ h.from + Len(h.lines) <= n
    /\ h.stage # "none" => h.lines # <<>>

\* Lines are among those written, and so are the places offsets and heartbeats
\* speak of.
ShipBounds ==
    /\ written \in 0..MaxLines /\ losses \in 0..MaxLosses
    /\ reader \in {"local", "agent"} /\ overlapped \in BOOLEAN
    /\ Range(log) \subseteq 1..written /\ Received \subseteq 1..written
    /\ Len(log) <= written /\ offset <= written /\ newest \in 0..written
    /\ \A b \in Beats : Within(beat[b], written)

ShipTypes == ShipInv /\ ShipBounds

LEMMA ShipTypesSuffice == ShipTypes => ShipTypeOK
<1> SUFFICES ASSUME ShipTypes PROVE ShipTypeOK
  OBVIOUS
<1> USE DEF ShipTypes, ShipInv, Kept, ShipBounds, Received
<1>1. offset \in NoOffset..MaxLines
  BY ShipAssumption DEF NoOffset
<1>2. \A b \in Beats : beat[b].stage \in Stages /\ Range(beat[b].lines) \subseteq 1..written
  BY DEF Within
<1>3. file \in 1..2 /\ offsetFile \in 1..2
  OBVIOUS
<1>4. Range(log) \cup tabled \cup refused \cup skipped \subseteq 1..written
  OBVIOUS
<1>5. misread \in BOOLEAN /\ overlapped \in BOOLEAN
  OBVIOUS
<1> QED BY <1>1, <1>2, <1>3, <1>4, <1>5 DEF ShipTypeOK

\* Lines that are taken stay among those written, and the newest is one of them.
LEMMA IngestBounds ==
    ASSUME ShipTypes, NEW lines \in Seq(Nat), lines # <<>>, Range(lines) \subseteq 1..written,
           \E bad \in SUBSET Range(lines) : Ingest(lines, bad), skipped' = skipped
    PROVE  Received' \subseteq 1..written /\ newest' \in 0..written /\ losses' \in 0..MaxLosses
<1>1. PICK bad \in SUBSET Range(lines) : Ingest(lines, bad)
  OBVIOUS
<1>2. written \in Nat /\ losses \in Nat /\ Received \subseteq 1..written /\ newest \in 0..written
  BY DEF ShipTypes, ShipInv, Kept, ShipBounds
<1>3. Received' \subseteq 1..written
  BY <1>1, <1>2 DEF Ingest, Received
<1>4. Last(lines) \in Range(lines)
  <2>1. Len(lines) \in DOMAIN lines
    OBVIOUS
  <2> QED BY <2>1 DEF Last, Range
<1>5. newest' \in 0..written
  BY <1>1, <1>2, <1>4 DEF Ingest
<1>6. Cardinality(bad) \in Nat
  <2>1. IsFiniteSet(1..written)
    BY <1>2, FS_Interval
  <2>2. IsFiniteSet(bad)
    BY <2>1, FS_Subset
  <2> QED BY <2>2, FS_CardinalityType
<1>7. losses' \in 0..MaxLosses
  BY <1>1, <1>2, <1>6, ShipAssumption DEF Ingest
<1> QED BY <1>3, <1>5, <1>7

\* What is read is of the file.
LEMMA PendingBounds ==
    ASSUME ShipTypes, offset # NoOffset, Pending # <<>>
    PROVE  /\ Pending \in Seq(Nat) /\ ReadFrom \in Nat
           /\ Range(Pending) \subseteq 1..written
           /\ ReadFrom + Len(Pending) <= written
<1>1. /\ ReadFrom \in Nat /\ Pending \in Seq(Nat)
      /\ ReadFrom + Len(Pending) <= Len(log)
      /\ \A i \in 1..Len(Pending) : log[ReadFrom + i] = Pending[i]
  BY PendingLines DEF ShipTypes, ShipInv
<1>2. Len(log) \in Nat /\ log \in Seq(Nat) /\ Len(log) <= written /\ written \in Nat
      /\ Range(log) \subseteq 1..written
  BY DEF ShipTypes, ShipInv, Kept, ShipBounds
<1>3. ASSUME NEW i \in 1..Len(Pending) PROVE Pending[i] \in 1..written
  <2>1. ReadFrom + i \in 1..Len(log)
    BY <1>1, <1>2
  <2>2. log[ReadFrom + i] \in Range(log)
    BY <1>2, <2>1 DEF Range
  <2> QED BY <1>1, <1>2, <2>2
<1>4. Range(Pending) \subseteq 1..written
  BY <1>1, <1>3 DEF Range
<1> QED BY <1>1, <1>2, <1>4

LEMMA ShipTypesStep == ASSUME ShipTypes, [ShipNext]_shipVars PROVE ShipTypes'
<1> DEFINE Carried == [stage : Stages, from : Nat, lines : Seq(Nat), file : {1, 2}]
<1>1. ShipInv'
  BY ShipStep DEF ShipTypes
<1>2. /\ written \in Nat /\ offset \in Int /\ log \in Seq(Nat) /\ Len(log) \in Nat
      /\ beat \in [Beats -> Carried] /\ MaxLines \in Nat /\ MaxLosses \in Nat
  BY ShipAssumption DEF ShipTypes, ShipInv, Kept
<1>3. Within(NoBeat, written)
  BY <1>2 DEF NoBeat, Range, Within
<1> USE DEF ShipTypes, ShipBounds
<1>4. CASE AppendLine
  <2>1. /\ written' = written + 1 /\ log' = Append(log, written') /\ written' <= MaxLines
        /\ UNCHANGED <<reader, offset, beat, tabled, newest, refused, skipped, overlapped, losses>>
    BY <1>2, <1>4 DEF AppendLine
  <2>2. Len(log') = Len(log) + 1 /\ \A i \in 1..Len(log') : log'[i] \in 1..written'
    <3>1. \A i \in 1..Len(log) : log[i] \in 1..written
      BY <1>2 DEF Range
    <3> QED BY <1>2, <2>1, <3>1
  <2>3. Range(log') \subseteq 1..written'
    BY <1>2, <2>1, <2>2 DEF Range
  <2>4. 1..written \subseteq 1..written' /\ 0..written \subseteq 0..written'
    BY <1>2, <2>1
  <2>5. \A b \in Beats : Within(beat'[b], written')
    <3> SUFFICES ASSUME NEW b \in Beats PROVE Within(beat[b], written')
      BY <2>1
    <3>1. beat[b] \in Carried /\ Within(beat[b], written)
      BY <1>2
    <3>2. beat[b].from \in Nat /\ Len(beat[b].lines) \in Nat
      BY <3>1
    <3> QED BY <1>2, <2>1, <2>4, <3>1, <3>2 DEF Within
  <2>6. Received' \subseteq 1..written' /\ newest' \in 0..written' /\ written' \in 0..MaxLines
    BY <1>2, <2>1, <2>4 DEF Received
  <2> QED BY <1>1, <1>2, <2>1, <2>2, <2>3, <2>5, <2>6
<1>5. CASE Rotate
  BY <1>1, <1>2, <1>5 DEF Rotate, Received, Range
<1>6. CASE FirstStart
  BY <1>1, <1>2, <1>6 DEF FirstStart, Received
<1>7. ASSUME NEW b \in Beats, ReadLocal(b) \/ SendBeat(b) PROVE ShipTypes'
  <2>1. offset # NoOffset /\ Pending # <<>>
    BY <1>7 DEF ReadLocal, SendBeat, ShipInv, Kept
  <2>2. /\ Pending \in Seq(Nat) /\ Range(Pending) \subseteq 1..written
        /\ ReadFrom + Len(Pending) <= written
    BY <2>1, PendingBounds
  <2>3. UNCHANGED <<reader, log, written, offset, skipped>>
    BY <1>7 DEF ReadLocal, SendBeat
  <2>4. \A c \in Beats : \/ beat'[c] = beat[c]
                         \/ beat'[c].from = ReadFrom /\ beat'[c].lines = Pending
    BY <1>2, <1>7 DEF ReadLocal, SendBeat
  <2>5. \A c \in Beats : Within(beat'[c], written')
    BY <2>1, <2>2, <2>3, <2>4 DEF Within
  <2>6. Received' \subseteq 1..written /\ newest' \in 0..written /\ losses' \in 0..MaxLosses
    BY <1>7, <2>1, <2>2, <2>3, IngestBounds DEF ReadLocal, SendBeat, Received
  <2>7. overlapped' \in BOOLEAN
    BY <1>7 DEF ReadLocal, SendBeat
  <2> QED BY <1>1, <2>3, <2>5, <2>6, <2>7
<1>8. ASSUME NEW b \in Beats, HandleBeat(b) PROVE ShipTypes'
  <2>1. /\ beat[b].lines \in Seq(Nat) /\ beat[b].lines # <<>>
        /\ Range(beat[b].lines) \subseteq 1..written
    BY <1>2, <1>8 DEF HandleBeat, Within
  <2>2. UNCHANGED <<reader, log, written, offset, skipped, overlapped>>
    BY <1>8 DEF HandleBeat
  <2>3. \A c \in Beats : \/ beat'[c] = NoBeat
                         \/ /\ beat'[c].from = beat[c].from /\ beat'[c].lines = beat[c].lines
                            /\ beat'[c].stage = beat[c].stage \/ beat[c].stage # "none"
    <3>1. \A c \in Beats : c # b => beat'[c] = beat[c]
      BY <1>2, <1>8 DEF HandleBeat
    <3>2. beat[b].stage \in {"sent", "orphan"} /\ beat[b] \in Carried
      BY <1>2, <1>8 DEF HandleBeat
    <3>3. beat'[b] = NoBeat \/ beat'[b] = [beat[b] EXCEPT !.stage = "answered"]
      BY <1>2, <1>8 DEF HandleBeat
    <3> QED BY <3>1, <3>2, <3>3
  <2>4. \A c \in Beats : Within(beat'[c], written')
    BY <1>3, <2>2, <2>3 DEF Within
  <2>5. Received' \subseteq 1..written /\ newest' \in 0..written /\ losses' \in 0..MaxLosses
    BY <1>8, <2>1, <2>2, IngestBounds DEF HandleBeat
  <2> QED BY <1>1, <2>2, <2>4, <2>5
<1>9. ASSUME NEW b \in Beats, Advance(b) PROVE ShipTypes'
  <2>1. \A c \in Beats : beat'[c] = NoBeat \/ beat'[c] = beat[c]
    BY <1>2, <1>9 DEF Advance
  <2>2. /\ offset' = beat[b].from + Len(beat[b].lines) /\ Received' = Received
        /\ UNCHANGED <<reader, log, written, newest, overlapped, losses>>
    BY <1>9 DEF Advance, Received
  <2>3. \A c \in Beats : Within(beat'[c], written')
    BY <1>3, <2>1, <2>2 DEF Within
  <2>4. offset' <= written'
    BY <2>2 DEF Within
  <2> QED BY <1>1, <2>2, <2>3, <2>4
<1>10. ASSUME NEW b \in Beats, GiveUpBeat(b) PROVE ShipTypes'
  <2>1. \A c \in Beats : \/ beat'[c] = NoBeat \/ beat'[c] = beat[c]
                         \/ /\ beat'[c].from = beat[c].from /\ beat'[c].lines = beat[c].lines
                            /\ beat[c].stage # "none"
    BY <1>2, <1>10 DEF GiveUpBeat
  <2>2. /\ Received' = Received /\ losses' \in 0..MaxLosses
        /\ UNCHANGED <<reader, log, written, offset, newest, overlapped>>
    BY <1>2, <1>10 DEF GiveUpBeat, Received
  <2>3. \A c \in Beats : Within(beat'[c], written')
    BY <1>3, <2>1, <2>2 DEF Within
  <2> QED BY <1>1, <2>2, <2>3
<1>11. CASE UNCHANGED shipVars
  BY <1>1, <1>11 DEF shipVars, Received
<1> QED BY <1>4, <1>5, <1>6, <1>7, <1>8, <1>9, <1>10, <1>11 DEF ShipNext

LEMMA ShipTypesInitially == ShipInit => ShipTypes
<1> SUFFICES ASSUME ShipInit PROVE ShipTypes
  OBVIOUS
<1>1. ShipInv
  BY ShipInitially
<1>2. Within(NoBeat, 0)
  BY DEF NoBeat, Range, Within
<1>3. \A b \in Beats : Within(beat[b], written)
  BY <1>2 DEF ShipInit
<1>4. Range(log) = {} /\ Received = {} /\ Len(log) = 0
  BY DEF ShipInit, Range, Received
<1>5. written \in 0..MaxLines /\ losses \in 0..MaxLosses /\ newest \in 0..written
  BY ShipAssumption DEF ShipInit
<1>6. reader \in {"local", "agent"} /\ offset <= written
  BY DEF ShipInit, NoOffset
<1>7. overlapped \in BOOLEAN
  BY DEF ShipInit
<1> QED BY <1>1, <1>3, <1>4, <1>5, <1>6, <1>7 DEF ShipTypes, ShipBounds

\* The log, the table, the offset and the heartbeats of admission-ship.js keep their
\* types: nothing speaks of a line that has not been written.
THEOREM ShipTypeCorrect == ShipSpec => []ShipTypeOK
<1>1. ShipTypes /\ [ShipNext]_shipVars => ShipTypes'
  BY ShipTypesStep
<1> QED BY <1>1, ShipTypesInitially, ShipTypesSuffice, PTL DEF ShipSpec

------------------------------------------------------------------------------
(* The night cap.                                                            *)

\* A script of the chain.
CapScripts == [runner : Capped, act : Acts]

\* The types, with the sequences they are about: in the line every job is once.
NightTypes ==
    /\ NightTypeOK
    /\ line \in Seq(NightJobs) /\ scripts \in Seq(CapScripts)
    /\ job \in [Capped -> NightJobs \cup {NoJob}]

\* What is wanted of a runner, whatever slots are given away.
LEMMA WantedType == ASSUME NEW r PROVE Wanted(r) \in Acts
<1>1. CASE ~Capping
  BY <1>1 DEF Wanted, Acts
<1>2. CASE Capping /\ r \in SlottedTo
  BY <1>2 DEF Wanted, Acts
<1>3. CASE Capping /\ r \notin SlottedTo
  BY <1>3 DEF Wanted, Acts
<1> QED BY <1>1, <1>2, <1>3

\* A function on the numbers from one on is a sequence.
LEMMA SequenceOfLength ==
    ASSUME NEW T, NEW n \in Nat, NEW f \in [1..n -> T]
    PROVE  f \in Seq(T) /\ Len(f) = n /\ DOMAIN f = 1..n
OBVIOUS

\* SetToSeq lists a finite set.
LEMMA ListOfSet ==
    ASSUME NEW S, IsFiniteSet(S)
    PROVE  SetToSeq(S) \in Seq(S)
<1>1. Cardinality(S) \in Nat /\ ExistsBijection(1..Cardinality(S), S)
  BY FS_CardinalityType
<1>2. \E f \in [1..Cardinality(S) -> S] : IsInjective(f)
  BY <1>1 DEF ExistsBijection, Bijection, Injection, IsInjective
<1>3. SetToSeq(S) \in [1..Cardinality(S) -> S]
  BY <1>2 DEF SetToSeq
<1> QED BY <1>1, <1>3

LEMMA Concatenated ==
    ASSUME NEW T, NEW f \in Seq(T), NEW g \in Seq(T)
    PROVE  /\ f \o g \in Seq(T) /\ Len(f \o g) = Len(f) + Len(g)
           /\ \A k \in 1..(Len(f) + Len(g)) :
                 (f \o g)[k] = IF k <= Len(f) THEN f[k] ELSE g[k - Len(f)]
OBVIOUS

\* A job that leaves the line is not in it any more, and the others stay once each.
LEMMA LineWithout ==
    ASSUME NEW j, NightTypes, LeavesLine(j)
    PROVE  /\ line' \in Seq(NightJobs) /\ IsInjective(line')
           /\ j \in Range(line) /\ Range(line') \subseteq Range(line) \ {j}
<1>1. PICK i \in DOMAIN line : line[i] = j /\ line' = RemoveAt(line, i)
  BY DEF LeavesLine
<1>2. line \in Seq(NightJobs) /\ Len(line) \in Nat /\ i \in 1..Len(line)
      /\ \A a, b \in 1..Len(line) : line[a] = line[b] => a = b
  BY <1>1 DEF NightTypes, NightTypeOK, IsInjective
<1> DEFINE before == SubSeq(line, 1, i - 1)
           after == SubSeq(line, i + 1, Len(line))
<1>3. /\ before \in Seq(NightJobs) /\ Len(before) = i - 1
      /\ \A k \in 1..(i - 1) : before[k] = line[k]
  BY <1>2
<1>4. /\ after \in Seq(NightJobs) /\ Len(after) = Len(line) - i
      /\ \A k \in 1..(Len(line) - i) : after[k] = line[i + k]
  BY <1>2
<1>5. line' = before \o after
  BY <1>1 DEF RemoveAt
<1> HIDE DEF before, after
<1>6. /\ line' \in Seq(NightJobs) /\ Len(line') = Len(line) - 1
      /\ \A k \in 1..Len(line') : line'[k] = IF k < i THEN before[k] ELSE after[k - (i - 1)]
  <2>1. /\ before \o after \in Seq(NightJobs)
        /\ Len(before \o after) = Len(before) + Len(after)
        /\ \A k \in 1..(Len(before) + Len(after)) :
              (before \o after)[k] = IF k <= Len(before) THEN before[k] ELSE after[k - Len(before)]
    BY <1>3, <1>4, Concatenated
  <2>2. Len(line') = Len(line) - 1 /\ line' \in Seq(NightJobs)
    BY <1>2, <1>3, <1>4, <1>5, <2>1
  <2>3. ASSUME NEW k \in 1..Len(line')
        PROVE  line'[k] = IF k < i THEN before[k] ELSE after[k - (i - 1)]
    <3>1. k \in 1..(Len(before) + Len(after)) /\ (k <= Len(before) <=> k < i)
      BY <1>2, <1>3, <1>4, <2>2
    <3> QED BY <1>3, <1>5, <2>1, <3>1
  <2> QED BY <2>2, <2>3
<1>7. \A k \in 1..Len(line') : line'[k] = IF k < i THEN line[k] ELSE line[k + 1]
  <2> SUFFICES ASSUME NEW k \in 1..Len(line')
               PROVE  line'[k] = IF k < i THEN line[k] ELSE line[k + 1]
    OBVIOUS
  <2>1. CASE k < i
    BY <1>2, <1>3, <1>6, <2>1
  <2>2. CASE ~(k < i)
    <3>1. k - (i - 1) \in 1..(Len(line) - i) /\ i + (k - (i - 1)) = k + 1
      BY <1>2, <1>6, <2>2
    <3> QED BY <1>4, <1>6, <2>2, <3>1
  <2> QED BY <2>1, <2>2
<1>8. IsInjective(line')
  <2> SUFFICES ASSUME NEW a \in 1..Len(line'), NEW b \in 1..Len(line'), line'[a] = line'[b]
               PROVE  a = b
    BY <1>6 DEF IsInjective
  <2> DEFINE x == IF a < i THEN a ELSE a + 1
             y == IF b < i THEN b ELSE b + 1
  <2>1. x \in 1..Len(line) /\ y \in 1..Len(line)
    BY <1>2, <1>6
  <2>2. line'[a] = line[x] /\ line'[b] = line[y]
    BY <1>7
  <2>3. x = y
    BY <1>2, <2>1, <2>2
  <2> QED BY <1>2, <1>6, <2>3
<1>9. \A k \in 1..Len(line') : line'[k] \in Range(line) /\ line'[k] # j
  <2> SUFFICES ASSUME NEW k \in 1..Len(line') PROVE line'[k] \in Range(line) /\ line'[k] # j
    OBVIOUS
  <2> DEFINE x == IF k < i THEN k ELSE k + 1
  <2>1. x \in 1..Len(line) /\ x # i /\ line'[k] = line[x]
    BY <1>2, <1>6, <1>7
  <2>2. line[x] \in Range(line)
    BY <1>2, <2>1 DEF Range
  <2> QED BY <1>1, <1>2, <2>1, <2>2
<1>10. Range(line') \subseteq Range(line) \ {j}
  BY <1>6, <1>9 DEF Range
<1>11. j \in Range(line)
  BY <1>1 DEF Range
<1> QED BY <1>6, <1>8, <1>10, <1>11

LEMMA NightTypeStep == ASSUME NightTypes, [NightNext]_nightVars PROVE NightTypes'
<1> USE DEF NightTypes, NightTypeOK
<1>1. \A r : r \in Busy <=> r \in Capped /\ job[r] # NoJob
  BY DEF Busy
<1>2. \A r : r \in Busy' <=> r \in Capped /\ job'[r] # NoJob
  BY DEF Busy
<1>3. ASSUME job' = job PROVE Busy' = Busy
  BY <1>3 DEF Busy
<1>4. ASSUME NEW ch \in Seq(CapScripts), scripts' = ch
      PROVE  \A i \in DOMAIN scripts' : scripts'[i].runner \in Capped
  <2>1. \A i \in DOMAIN ch : ch[i] \in CapScripts
    OBVIOUS
  <2> QED BY <1>4, <2>1 DEF CapScripts
\* What leaves the line, the jobs and the runners as they are.
<1>5. ASSUME UNCHANGED <<maxBusy, online, job, line, drainBy>>, mode' \in {"off", "observe", "enforce"},
             night' \in BOOLEAN, hostOff' \in BOOLEAN, sent' \in [Capped -> Acts],
             scripts' \in Seq(CapScripts), nights' \in 0..MaxNightEvents
      PROVE  NightTypes'
  BY <1>3, <1>4, <1>5
<1>6. CASE CapDecides
  <2> DEFINE out == Issuable
             inOrder == SetToSeq(out)
             more == [i \in DOMAIN inOrder |-> [runner |-> inOrder[i], act |-> Wanted(inOrder[i])]]
  <2>1. out \subseteq Capped /\ IsFiniteSet(out)
    <3>1. out \subseteq Capped
      BY DEF Issuable
    <3> QED BY <3>1, NightCapAssumption, FS_Subset
  <2>2. inOrder \in Seq(out)
    BY <2>1, ListOfSet
  <2> HIDE DEF out, inOrder
  <2>3. \A i \in 1..Len(inOrder) : [runner |-> inOrder[i], act |-> Wanted(inOrder[i])] \in CapScripts
    BY <2>1, <2>2, WantedType DEF CapScripts
  <2>4. more \in [1..Len(inOrder) -> CapScripts] /\ Len(inOrder) \in Nat
    BY <2>2, <2>3
  <2>5. more \in Seq(CapScripts)
    BY <2>4, SequenceOfLength
  <2>6. scripts' = scripts \o more \/ scripts' = scripts
    BY <1>6 DEF CapDecides, out, inOrder
  <2>7. scripts' \in Seq(CapScripts)
    <3> HIDE DEF more
    <3>1. scripts \in Seq(CapScripts)
      OBVIOUS
    <3>2. scripts \o more \in Seq(CapScripts)
      BY <2>5, <3>1
    <3> QED BY <2>6, <3>1, <3>2
  <2>8. sent' \in [Capped -> Acts]
    <3>1. "none" \in Acts
      BY DEF Acts
    <3>2. CASE Applied
      <4>1. sent' = [r \in Capped |-> IF r \in out THEN Wanted(r)
                                       ELSE IF StaysParked(r) THEN "none" ELSE sent[r]]
        BY <1>6, <3>2 DEF CapDecides, out
      <4> QED BY <3>1, <4>1, WantedType
    <3>3. CASE ~Applied
      BY <1>6, <3>3 DEF CapDecides
    <3> QED BY <3>2, <3>3
  <2> QED BY <1>5, <1>6, <2>7, <2>8 DEF CapDecides
<1>7. ASSUME NEW r \in Capped, SentExpires(r) PROVE NightTypes'
  <2>1. sent' \in [Capped -> Acts]
    BY <1>7 DEF SentExpires, Acts
  <2> QED BY <1>5, <1>7, <2>1 DEF SentExpires
\* Marks and what they do to the runners: a busy one stays online.
<1>8. ASSUME NEW who \in Drainers, NEW rs \in SUBSET Capped, MarkedBy(who, rs), job' = job
      PROVE  drainBy' \in [Capped -> Drainers] /\ online' \subseteq Capped /\ Busy' \subseteq online'
  <2>1. Busy' = Busy
    BY <1>3, <1>8
  <2> QED BY <1>8, <2>1 DEF MarkedBy
<1>9. ASSUME UNCHANGED <<mode, maxBusy, night, job, line, sent>>, hostOff' \in BOOLEAN,
             scripts' \in Seq(CapScripts), nights' \in 0..MaxNightEvents,
             drainBy' \in [Capped -> Drainers], online' \subseteq Capped, Busy' \subseteq online'
      PROVE  NightTypes'
  BY <1>3, <1>4, <1>9
<1>10. scripts # <<>> => Head(scripts) \in CapScripts /\ Tail(scripts) \in Seq(CapScripts)
  OBVIOUS
<1>11. CASE ScriptRuns
  <2>1. Head(scripts).runner \in Capped /\ scripts' \in Seq(CapScripts)
    BY <1>10, <1>11 DEF ScriptRuns, CapScripts
  <2>2. "cap" \in Drainers /\ "none" \in Drainers
    BY DEF Drainers
  <2>3. job' = job
    BY <1>11 DEF ScriptRuns
  <2>4. \/ \E who \in {"cap", "none"} : MarkedBy(who, {Head(scripts).runner})
        \/ UNCHANGED <<drainBy, online>>
    BY <1>11 DEF ScriptRuns
  <2>5. drainBy' \in [Capped -> Drainers] /\ online' \subseteq Capped /\ Busy' \subseteq online'
    BY <1>3, <1>8, <2>1, <2>2, <2>3, <2>4
  <2> QED BY <1>9, <1>11, <2>1, <2>5 DEF ScriptRuns
<1>12. ASSUME NEW r \in Capped, ComesOnline(r) PROVE NightTypes'
  <2>1. job' = job /\ online' = online \cup {r}
    BY <1>12 DEF ComesOnline
  <2>2. online' \subseteq Capped /\ Busy' \subseteq online'
    BY <1>3, <2>1
  <2> QED BY <1>9, <1>12, <2>2 DEF ComesOnline
<1>13. ASSUME NEW j \in NightJobs, NightJobQueued(j) PROVE NightTypes'
  <2>1. line' = Append(line, j) /\ j \notin Range(line) /\ (\A r \in Capped : job[r] # j)
        /\ UNCHANGED <<mode, maxBusy, night, hostOff, drainBy, online, job, sent, scripts, nights>>
    BY <1>13 DEF NightJobQueued
  <2>2. /\ line' \in Seq(NightJobs) /\ Len(line') = Len(line) + 1 /\ Len(line) \in Nat
        /\ DOMAIN line = 1..Len(line) /\ DOMAIN line' = 1..Len(line')
        /\ \A i \in 1..Len(line) : line'[i] = line[i]
        /\ line'[Len(line) + 1] = j
    BY <2>1
  <2>3. \A i \in 1..Len(line) : line[i] \in Range(line) /\ line[i] # j
    BY <2>1, <2>2 DEF Range
  <2>4. IsInjective(line')
    BY <2>2, <2>3 DEF IsInjective
  <2>5. \A i \in 1..Len(line') : line'[i] \in Range(line) \cup {j}
    BY <2>2, <2>3
  <2>6. Range(line') \subseteq Range(line) \cup {j}
    BY <2>2, <2>5 DEF Range
  <2>7. Range(line') \subseteq NightJobs /\ \A r \in Busy' : job'[r] \in NightJobs \ Range(line')
    BY <1>1, <1>3, <2>1, <2>6
  <2> QED BY <1>3, <2>1, <2>2, <2>4, <2>7
<1>14. ASSUME NEW j \in NightJobs, NEW r \in Capped, JobHanded(j, r) PROVE NightTypes'
  <2>1. /\ line' \in Seq(NightJobs) /\ IsInjective(line')
        /\ j \in Range(line) /\ Range(line') \subseteq Range(line) \ {j}
    BY <1>14, LineWithout DEF JobHanded
  <2>2. /\ r \in online /\ job' = [job EXCEPT ![r] = j]
        /\ UNCHANGED <<mode, maxBusy, night, hostOff, drainBy, online, sent, scripts, nights>>
    BY <1>14 DEF JobHanded
  <2>3. \A x \in Capped : job'[x] = IF x = r THEN j ELSE job[x]
    BY <2>2
  <2>4. Busy' \subseteq online' /\ \A x \in Busy' : job'[x] \in NightJobs \ Range(line')
    BY <1>1, <1>2, <2>1, <2>2, <2>3
  <2>5. job' \in [Capped -> NightJobs \cup {NoJob}]
    BY <2>2
  <2> QED BY <2>1, <2>2, <2>4, <2>5
<1>15. ASSUME NEW r \in Capped, NightJobEnds(r) PROVE NightTypes'
  <2>1. /\ job' = [job EXCEPT ![r] = NoJob] /\ online' \subseteq online /\ online \ {r} \subseteq online'
        /\ UNCHANGED <<mode, maxBusy, night, hostOff, drainBy, line, sent, scripts, nights>>
    BY <1>15 DEF NightJobEnds
  <2>2. \A x \in Capped : job'[x] = IF x = r THEN NoJob ELSE job[x]
    BY <2>1
  <2>3. Busy' = Busy \ {r}
    BY <1>1, <1>2, <2>2
  <2>4. \A x \in Busy' : job'[x] = job[x] /\ x \in Busy
    BY <1>1, <2>2, <2>3
  <2>5. job' \in [Capped -> NightJobs \cup {NoJob}]
    BY <2>1
  <2> QED BY <2>1, <2>3, <2>4, <2>5
<1>16. NightEvent => nights' \in 0..MaxNightEvents
  BY NightCapAssumption DEF NightEvent
<1>17. ASSUME NEW j \in NightJobs, JobCancelled(j) PROVE NightTypes'
  <2>1. /\ line' \in Seq(NightJobs) /\ IsInjective(line')
        /\ j \in Range(line) /\ Range(line') \subseteq Range(line) \ {j}
    BY <1>17, LineWithout DEF JobCancelled
  <2>2. UNCHANGED <<mode, maxBusy, night, hostOff, drainBy, online, job, sent, scripts>>
    BY <1>17 DEF JobCancelled
  <2>3. \A x \in Busy' : job'[x] \in NightJobs \ Range(line')
    BY <1>3, <2>1, <2>2
  <2> QED BY <1>3, <1>16, <1>17, <2>1, <2>2, <2>3 DEF JobCancelled
<1>18. ASSUME NEW m \in NightModes, ModeTurns(m) PROVE NightTypes'
  <2>1. m \in {"off", "observe", "enforce"}
    BY NightCapAssumption
  <2> QED BY <1>5, <1>16, <1>18, <2>1 DEF ModeTurns
<1>19. CASE WindowEnds
  BY <1>5, <1>19 DEF WindowEnds
<1>20. CASE SwitchTurns
  <2>1. "none" \in Drainers /\ "host" \in Drainers
    BY DEF Drainers
  <2>2. job' = job /\ \E who \in {"none", "host"} : \E rs \in SUBSET Capped : MarkedBy(who, rs)
    BY <1>20 DEF SwitchTurns
  <2>3. drainBy' \in [Capped -> Drainers] /\ online' \subseteq Capped /\ Busy' \subseteq online'
    BY <1>8, <2>1, <2>2
  <2>4. hostOff' \in BOOLEAN
    BY <1>20 DEF SwitchTurns
  <2> QED BY <1>9, <1>16, <1>20, <2>3, <2>4 DEF SwitchTurns
<1>21. ASSUME NEW r \in Capped, NEW who \in {"none", "operator"}, OperatorMarks(r, who) PROVE NightTypes'
  <2>1. who \in Drainers /\ {r} \in SUBSET Capped
    BY DEF Drainers
  <2>2. job' = job /\ MarkedBy(who, {r})
    BY <1>21 DEF OperatorMarks
  <2>3. drainBy' \in [Capped -> Drainers] /\ online' \subseteq Capped /\ Busy' \subseteq online'
    BY <1>8, <2>1, <2>2
  <2> QED BY <1>9, <1>16, <1>21, <2>3 DEF OperatorMarks
<1>22. CASE ScriptFailsHere
  BY <1>5, <1>10, <1>16, <1>22 DEF ScriptFailsHere
<1>23. CASE NightRestart
  <2>1. scripts' = <<>> /\ <<>> \in Seq(CapScripts)
    BY <1>23 DEF NightRestart
  <2>2. sent' \in [Capped -> Acts]
    BY <1>23 DEF NightRestart, Acts
  <2> QED BY <1>5, <1>16, <1>23, <2>1, <2>2 DEF NightRestart
<1>24. CASE UNCHANGED nightVars
  BY <1>5, <1>24 DEF nightVars
<1> QED
  BY <1>6, <1>7, <1>11, <1>12, <1>13, <1>14, <1>15, <1>17, <1>18, <1>19, <1>20, <1>21, <1>22,
     <1>23, <1>24
  DEF NightNext

LEMMA NightInitially == NightInit => NightTypes
<1> SUFFICES ASSUME NightInit PROVE NightTypes
  OBVIOUS
<1>1. /\ line = <<>> /\ scripts = <<>> /\ Busy = {} /\ online = Capped
      /\ job \in [Capped -> NightJobs \cup {NoJob}]
  BY DEF NightInit, Busy
<1>2. /\ line \in Seq(NightJobs) /\ scripts \in Seq(CapScripts)
      /\ Range(line) = {} /\ IsInjective(line)
  BY <1>1 DEF Range, IsInjective
<1>3. drainBy \in [Capped -> Drainers] /\ sent \in [Capped -> Acts]
  BY DEF NightInit, Drainers, Acts
<1>4. /\ mode \in {"off", "observe", "enforce"} /\ maxBusy \in CapSizes
      /\ nights \in 0..MaxNightEvents
  BY NightCapAssumption DEF NightInit
<1>5. night \in BOOLEAN
  BY DEF NightInit
<1>6. hostOff \in BOOLEAN
  BY DEF NightInit
<1> QED BY <1>1, <1>2, <1>3, <1>4, <1>5, <1>6 DEF NightTypes, NightTypeOK

\* The night cap's host keeps its types: a runner with a job is online, and a job is
\* queued once or with a runner, not both.
THEOREM NightTypeCorrect == NightSpec => []NightTypeOK
<1>1. NightTypes /\ [NightNext]_nightVars => NightTypes'
  BY NightTypeStep
<1>2. NightTypes => NightTypeOK
  BY DEF NightTypes
<1> QED BY <1>1, <1>2, NightInitially, PTL DEF NightSpec

------------------------------------------------------------------------------
(* The components of MCParts together.                                       *)

\* What a step of the run leaves alone, component by component.
LEMMA MutexMoves == MutexNext => Next /\ UNCHANGED <<part, leaseVars, shipVars, alertVars, scaleVars, tierVars, guardVars, nightVars>>
BY DEF MutexNext, OnMutex, Next, Lock

LEMMA LeasesMoves == LeasesSteps => LeasesNext /\ UNCHANGED <<part, vars, shipVars, alertVars, scaleVars, tierVars, guardVars, nightVars>>
BY DEF LeasesSteps, OnLeases, LeasesNext

LEMMA ShipMoves == ShipSteps => ShipNext /\ UNCHANGED <<part, vars, leaseVars, alertVars, scaleVars, tierVars, guardVars, nightVars>>
BY DEF ShipSteps, OnShip, ShipNext

LEMMA AlertsMoves == AlertsSteps => AlertsNext /\ UNCHANGED <<part, vars, leaseVars, shipVars, scaleVars, tierVars, guardVars, nightVars>>
BY DEF AlertsSteps, OnAlerts, AlertsNext

LEMMA ScalingMoves == ScalingSteps => ScalingNext /\ UNCHANGED <<part, vars, leaseVars, shipVars, alertVars, tierVars, guardVars, nightVars>>
BY DEF ScalingSteps, OnScaling, ScalingNext, Work, RunnerSteps, HostSteps, CommandSteps

LEMMA TiersMoves == TiersSteps => TiersNext /\ UNCHANGED <<part, vars, leaseVars, shipVars, alertVars, scaleVars, guardVars, nightVars>>
BY DEF TiersSteps, OnTiers, TiersNext

LEMMA GuardMoves == GuardSteps => GuardNext /\ UNCHANGED <<part, vars, leaseVars, shipVars, alertVars, scaleVars, tierVars, nightVars>>
BY DEF GuardSteps, OnGuard, GuardNext

LEMMA NightMoves == NightSteps => NightNext /\ UNCHANGED <<part, vars, leaseVars, shipVars, alertVars, scaleVars, tierVars, guardVars>>
BY DEF NightSteps, OnNight, NightNext

\* So the run steps in every component as the component does by itself.
LEMMA PartsStep ==
    ASSUME [PartsNext]_PartsVars
    PROVE  /\ part' = part
           /\ [Next]_vars
           /\ [LeasesNext]_leaseVars
           /\ [ShipNext]_shipVars
           /\ [AlertsNext]_alertVars
           /\ [ScalingNext]_scaleVars
           /\ [TiersNext]_tierVars
           /\ [GuardNext]_guardVars
           /\ [NightNext]_nightVars
<1>1. CASE MutexNext
  BY <1>1, MutexMoves
<1>2. CASE LeasesSteps
  BY <1>2, LeasesMoves
<1>3. CASE ShipSteps
  BY <1>3, ShipMoves
<1>4. CASE AlertsSteps
  BY <1>4, AlertsMoves
<1>5. CASE ScalingSteps
  BY <1>5, ScalingMoves
<1>6. CASE TiersSteps
  BY <1>6, TiersMoves
<1>7. CASE GuardSteps
  BY <1>7, GuardMoves
<1>8. CASE NightSteps
  BY <1>8, NightMoves
<1>9. CASE UNCHANGED PartsVars
  BY <1>9 DEF PartsVars
<1> QED BY <1>1, <1>2, <1>3, <1>4, <1>5, <1>6, <1>7, <1>8, <1>9 DEF PartsNext

\* The run implements every component: what is proved of one holds of it there.
THEOREM PartsAreTheComponents ==
    PartsSpec =>
    /\ Init /\ [][Next]_vars
    /\ LeasesSpec
    /\ ShipSpec
    /\ AlertsSpec
    /\ ScalingSpec
    /\ TiersSpec
    /\ GuardSpec
    /\ NightSpec
<1>1. PartsInit => /\ part \in Parts /\ Init /\ LeasesInit /\ ShipInit /\ AlertsInit
                  /\ ScalingInit /\ TiersInit /\ GuardInit /\ NightInit
  BY DEF PartsInit
<1> QED
  BY <1>1, PartsStep, PTL
  DEF PartsSpec, LeasesSpec, ShipSpec, AlertsSpec, ScalingSpec, TiersSpec, GuardSpec, NightSpec

\* The eight components keep their types in the run.
THEOREM PartsTypeCorrect == PartsSpec => []PartsTypeOK
<1>1. PartsSpec => [](part \in Parts)
  <2>1. PartsInit => part \in Parts
    BY DEF PartsInit
  <2>2. part \in Parts /\ [PartsNext]_PartsVars => (part \in Parts)'
    BY PartsStep
  <2> QED BY <2>1, <2>2, PTL DEF PartsSpec
<1>2. ASSUME part \in Parts, TypeOK, LeasesTypeOK, ShipTypeOK, AlertsTypeOK,
             ScalingTypeOK, TiersTypeOK, GuardTypeOK, NightTypeOK
      PROVE  PartsTypeOK
  BY <1>2 DEF PartsTypeOK
<1> QED
  BY <1>1, <1>2, PartsAreTheComponents, MutexSafe, LeasesTypeCorrect, ShipTypeCorrect,
     AlertsTypeCorrect, ScalingTypeCorrect, TiersTypeCorrect, GuardTypeCorrect,
     NightTypeCorrect, PTL

\* Every safety property the run checks, for every value of the constants.
THEOREM PartsAreSafe ==
    PartsSpec =>
    /\ []ExclusiveUntilAnExit
    /\ []NoLineSkipped
    /\ []OutageReportedOnce
    /\ []OneRunnerPerDeficit
    /\ []OutstandingBounded
    /\ JobsSpareEachOther
    /\ DismissedStaysQuiet
    /\ OffHostStaysDrained
BY PartsAreTheComponents, MutexSafe, OffsetPassesNothing, OneAlertPerOutage,
   NoMoreThanDemand, FewTicksOutstanding, OverlappingJobsSpared, DismissalsLast,
   OffStaysDrained, PTL
=============================================================================
