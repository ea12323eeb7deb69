---------------------------- MODULE DecisionShip ----------------------------
(***************************************************************************)
(* How the decisions of a host's hooks reach the coordinator's table.  The *)
(* hooks append lines to a log (hooks/common.sh).  On the coordinator's    *)
(* own host lib/admission.js reads it; on another host the agent sends the *)
(* new lines with its heartbeat (lib/admission-ship.js, agent.js) and      *)
(* moves its offset by what the coordinator says it took (fleetd.js).      *)
(*                                                                         *)
(* Lines are numbered as they are written; offsets count lines.            *)
(***************************************************************************)
EXTENDS Integers, FiniteSets, Sequences, SequencesExt

CONSTANTS
    Beats,        \* heartbeats that may be under way at once
    MaxLines,     \* bound: lines written
    BatchLines,   \* SHIP_MAX_LINES, SHIP_MAX_BYTES: lines of one heartbeat
    MaxLosses     \* bound: requests or answers lost, rows refused

ASSUME ShipAssumption ==
    /\ IsFiniteSet(Beats)
    /\ MaxLines \in Nat /\ BatchLines \in Nat \ {0} /\ MaxLosses \in Nat

VARIABLES
    reader,      \* who reads the log: "local" (fleetd itself) or "agent"
    log,         \* the lines in the file
    written,     \* how many lines there have been
    offset,      \* the saved offset; NoOffset before the agent's first start
    beat,        \* beat[b]: a heartbeat under way, from its read to its answer
    tabled,        \* lines in the coordinator's table
    newest,      \* the line of the newest row, which is what the pages show
    refused,     \* lines whose row could not be inserted
    skipped,     \* history: lines that were there before the agent's first start
    file,        \* which file this is: 2 after a rotation
    offsetFile,  \* history: the file the saved offset was read from
    misread,     \* history: a new file was read from an offset of the old one
    overlapped,  \* history: a heartbeat was sent while another was under way
    losses

shipVars == <<reader, log, written, offset, beat, tabled, newest, refused, skipped,
              file, offsetFile, misread, overlapped, losses>>

NoOffset == -1
NoBeat == [stage |-> "none", from |-> 0, lines |-> <<>>, file |-> 1]

\* orphan: the agent has given up (15 s), the request is still on its way.
Stages == {"none", "sent", "answered", "orphan"}

ShipTypeOK ==
    /\ reader \in {"local", "agent"}
    /\ written \in 0..MaxLines /\ losses \in 0..MaxLosses
    /\ Range(log) \cup tabled \cup refused \cup skipped \subseteq 1..written
    /\ newest \in 0..written /\ offset \in NoOffset..MaxLines
    /\ \A b \in Beats : /\ beat[b].stage \in Stages
                        /\ Range(beat[b].lines) \subseteq 1..written
    /\ file \in 1..2 /\ offsetFile \in 1..2
    /\ misread \in BOOLEAN /\ overlapped \in BOOLEAN

ShipInit ==
    /\ reader \in {"local", "agent"}
    /\ log = <<>> /\ written = 0
    /\ offset = IF reader = "local" THEN 0 ELSE NoOffset
    /\ beat = [b \in Beats |-> NoBeat]
    /\ tabled = {} /\ newest = 0 /\ refused = {} /\ skipped = {}
    /\ file = 1 /\ offsetFile = 1
    /\ misread = FALSE /\ overlapped = FALSE /\ losses = 0

-----------------------------------------------------------------------------
\* admit_log of a hook.
AppendLine ==
    /\ written < MaxLines
    /\ written' = written + 1
    /\ log' = Append(log, written')
    /\ UNCHANGED <<reader, offset, beat, tabled, newest, refused, skipped, file,
                   offsetFile, misread, overlapped, losses>>

Rotate ==
    /\ file = 1 /\ log # <<>>
    /\ log' = <<>> /\ file' = 2
    /\ UNCHANGED <<reader, written, offset, beat, tabled, newest, refused, skipped, offsetFile,
                   misread, overlapped, losses>>

\* loadOffset: no offset file is the end of the log.
FirstStart ==
    /\ offset = NoOffset
    /\ offset' = Len(log) /\ skipped' = Range(log) /\ offsetFile' = file
    /\ UNCHANGED <<reader, log, written, beat, tabled, newest, refused, file, misread,
                   overlapped, losses>>

\* A mutant: a file shorter than the offset is not noticed.
ReadFromOffset == offset

\* readPending: a file shorter than the offset is read from its start.
ReadFrom == IF Len(log) < offset THEN 0 ELSE offset

Pending ==
    LET upto == IF reader = "local" THEN Len(log) ELSE ReadFrom + BatchLines IN
    SubSeq(log, ReadFrom + 1, IF upto < Len(log) THEN upto ELSE Len(log))

\* The offset is of a file that is gone, and the new one has reached it.
Misplaced == offsetFile # file /\ offset > 0 /\ offset <= Len(log)

\* ingestLines: a row that fails is logged and counted as taken all the same.
Ingest(lines, bad) ==
    /\ tabled' = tabled \cup (Range(lines) \ bad)
    /\ refused' = refused \cup (bad \ tabled)
    /\ newest' = IF Last(lines) \in bad THEN newest ELSE Last(lines)
    /\ losses' = losses + Cardinality(bad)
    /\ losses' <= MaxLosses

Outstanding == {b \in Beats : beat[b].stage # "none"}

\* fleetd reads and inserts in one go, and saves the offset after.
ReadLocal(b) ==
    /\ reader = "local" /\ Outstanding = {} /\ Pending # <<>>
    /\ \E bad \in SUBSET Range(Pending) : Ingest(Pending, bad)
    /\ beat' = [beat EXCEPT ![b] = [stage |-> "answered", from |-> ReadFrom,
                                         lines |-> Pending, file |-> file]]
    /\ misread' = (misread \/ Misplaced)
    /\ UNCHANGED <<reader, log, written, offset, skipped, file, offsetFile, overlapped>>

\* A heartbeat with new lines.  setInterval does not wait for the one before.
SendBeat(b) ==
    /\ reader = "agent" /\ offset # NoOffset
    /\ beat[b].stage = "none" /\ Pending # <<>>
    /\ beat' = [beat EXCEPT ![b] = [stage |-> "sent", from |-> ReadFrom,
                                         lines |-> Pending, file |-> file]]
    /\ misread' = (misread \/ Misplaced)
    /\ overlapped' = (overlapped \/ Outstanding # {})
    /\ UNCHANGED <<reader, log, written, offset, tabled, newest, refused, skipped, file,
                   offsetFile, losses>>

\* The heartbeat handler of fleetd; the answer carries the number of lines.
HandleBeat(b) ==
    /\ beat[b].stage \in {"sent", "orphan"}
    /\ \E bad \in SUBSET Range(beat[b].lines) : Ingest(beat[b].lines, bad)
    /\ beat' = [beat EXCEPT ![b] = IF @.stage = "sent" THEN [@ EXCEPT !.stage = "answered"]
                                   ELSE NoBeat]
    /\ UNCHANGED <<reader, log, written, offset, skipped, file, offsetFile, misread, overlapped>>

\* A mutant: the offset moves to the end of the file, whatever was taken.
AdvanceToEnd(b) ==
    /\ beat[b].stage = "answered"
    /\ offset' = Len(log) /\ offsetFile' = file
    /\ beat' = [beat EXCEPT ![b] = NoBeat]
    /\ UNCHANGED <<reader, log, written, tabled, newest, refused, skipped, file, misread,
                   overlapped, losses>>

\* advance, saveOffset; setOffset.
Advance(b) ==
    /\ beat[b].stage = "answered"
    /\ offset' = beat[b].from + Len(beat[b].lines)
    /\ offsetFile' = beat[b].file
    /\ beat' = [beat EXCEPT ![b] = NoBeat]
    /\ UNCHANGED <<reader, log, written, tabled, newest, refused, skipped, file, misread,
                   overlapped, losses>>

\* The request is slow or lost, the answer is lost, or the reader is killed
\* before it has saved its offset.
GiveUpBeat(b) ==
    /\ losses < MaxLosses /\ losses' = losses + 1
    /\ \/ beat[b].stage = "sent" /\ beat' = [beat EXCEPT ![b].stage = "orphan"]
       \/ beat[b].stage \in {"answered", "orphan"} /\ beat' = [beat EXCEPT ![b] = NoBeat]
    /\ UNCHANGED <<reader, log, written, offset, tabled, newest, refused, skipped, file,
                   offsetFile, misread, overlapped>>

ShipNext ==
    \/ AppendLine \/ Rotate \/ FirstStart
    \/ \E b \in Beats : ReadLocal(b) \/ SendBeat(b) \/ HandleBeat(b) \/ Advance(b) \/ GiveUpBeat(b)

ShipSpec == ShipInit /\ [][ShipNext]_shipVars

-----------------------------------------------------------------------------
\* "At-least-once, by construction" (admission-ship.js 9-12): the offset never
\* passes a line of its file that is not in the table, whatever overlaps, is lost
\* or killed, but for a row the table refused and a file misread after a rotation.
NoLineSkipped ==
    misread \/ offsetFile # file
        \/ \A i \in 1..Len(log) : i <= offset => log[i] \in tabled \cup refused \cup skipped

\* Once the hooks write nothing more, the table gets every line that is in the
\* file, rotated or not, and its newest row is the last line, by which a page says
\* whether a runner is held right now (admission.js 116-119).  Heartbeats that
\* overlap may leave an older line as the newest row.
TableCatchesUp ==
    <>[](\/ misread \/ Misplaced \/ offset = NoOffset
         \/ /\ Range(log) \subseteq tabled \cup refused \cup skipped
            /\ \/ overlapped \/ refused # {} \/ log = <<>>
               \/ newest = Last(log) \/ Last(log) \in skipped)
=============================================================================
