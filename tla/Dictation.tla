----------------------------- MODULE Dictation -----------------------------
(* Dictation: the helper that listens and types (native/voice, Controller),  *)
(* the app that shows its phase, spells its words and keeps the history      *)
(* (voice.rs), and the two pipes between them. A piece of a dictation is its *)
(* number, which stands for its words as well; the id under which its answer *)
(* is awaited starts over in every helper. Models and permissions are left   *)
(* out.                                                                      *)
EXTENDS Integers, Sequences, SequencesExt, FiniteSets, FiniteSetsExt

CONSTANTS
  HISTORY_LIMIT,
  MaxDictations,  \* dictations begun
  MaxPieces,      \* pieces said
  MaxDowns,       \* crashes of the helper and switches of the feature
  Racing          \* TRUE: the user switches, forgets and dictates at any moment

VARIABLES
  helper,   \* the process: off, boot, up or down (before its restart)
  ctl,      \* Controller: [phase, dictation, spoke, outstanding, pending, work, ids]
  stdin, stdout,
  late,     \* lines of a helper that was switched off, not read yet
  shown,    \* DictationStatus: [helper, phase]
  starting, \* apply has still to show the helper as Starting
  history,  \* history.json: entries [of, pieces], newest first
  typed,    \* the inserts, in their order: [piece, words], the piece it was for
            \* and the one whose words it typed
  strays,   \* pieces said to the app by a helper switched off before it read them
  begun, pieces, downs

dvars == <<helper, ctl, stdin, stdout, late, shown, starting, history, typed,
           strays, begun, pieces, downs>>

Booted == [phase |-> "idle", dictation |-> 0, spoke |-> FALSE, outstanding |-> 0,
           pending |-> {}, work |-> <<>>, ids |-> 0]
Ready == [type |-> "ready", id |-> 0, words |-> 0, of |-> 0, continues |-> FALSE,
          phase |-> "idle"]
PhaseLine(p) == [Ready EXCEPT !.type = "phase", !.phase = p]
Transcript(k, n, d, c) ==
  [Ready EXCEPT !.type = "transcript", !.id = k, !.words = n, !.of = d, !.continues = c]
Toggle == [Ready EXCEPT !.type = "toggle"]
InsertLine(k, n) == [Ready EXCEPT !.type = "insert", !.id = k, !.words = n]

DictationInit ==
  /\ helper = "boot" /\ ctl = Booted /\ stdin = <<>> /\ stdout = <<>> /\ late = <<>>
  /\ shown = [helper |-> "Starting", phase |-> "idle"] /\ starting = FALSE
  /\ history = <<>> /\ typed = <<>> /\ strays = {} /\ begun = 0 /\ pieces = 0 /\ downs = 0

app == <<shown, starting, history, late, strays>>

\* The new state of the Controller; a changed phase is sent, after the lines `said`
Becomes(c, said) ==
  /\ ctl' = c
  /\ stdout' = stdout \o said
               \o (IF c.phase # ctl.phase THEN <<PhaseLine(c.phase)>> ELSE <<>>)

\* settle: the dictation ends once it is released and no piece is outstanding
settle(c) ==
  IF c.phase = "busy" /\ c.outstanding = 0 THEN [c EXCEPT !.phase = "idle"] ELSE c

Settled(c) == Racing \/ (c.work = <<>> /\ c.pending = {})

\* start without clearing what the last dictation said
StartSpoken(c) ==
  [c EXCEPT !.phase = "listening", !.dictation = begun + 1, !.outstanding = 0]

\* start: from idle, with the model loaded and the microphone allowed
start(c) ==
  [c EXCEPT !.phase = "listening", !.dictation = begun + 1, !.outstanding = 0,
            !.spoke = FALSE]

Enqueued(c, last) ==
  [c EXCEPT !.outstanding = @ + 1,
            !.work = Append(@, [n |-> pieces + 1, of |-> c.dictation, last |-> last])]

\* finish: the rest is a last piece, or there was nothing to hear
finish(c, rest) ==
  IF rest THEN settle(Enqueued([c EXCEPT !.phase = "busy"], TRUE))
  ELSE IF ~c.spoke /\ c.outstanding = 0 THEN [c EXCEPT !.phase = "idle"]
  ELSE settle([c EXCEPT !.phase = "busy"])

\* A tap on the hotkey, or the title bar's mic: listening begins or ends
Tapped ==
  \/ /\ ctl.phase = "idle" /\ begun < MaxDictations /\ Settled(ctl)
     /\ begun' = begun + 1 /\ Becomes(start(ctl), <<>>) /\ UNCHANGED pieces
  \/ /\ ctl.phase = "listening"
     /\ \E rest \in BOOLEAN :
          /\ rest => pieces < MaxPieces
          /\ Becomes(finish(ctl, rest), <<>>)
          /\ pieces' = IF rest THEN pieces + 1 ELSE pieces
     /\ UNCHANGED begun

Tap ==
  /\ helper = "up" /\ Tapped
  /\ UNCHANGED <<helper, stdin, typed, downs, app>>

\* Another key, or escape: what is under way is dropped, late answers with it
Cancel ==
  /\ helper = "up" /\ ctl.phase = "listening"
  /\ Becomes([ctl EXCEPT !.phase = "idle", !.dictation = 0, !.pending = {}], <<>>)
  /\ UNCHANGED <<helper, stdin, typed, begun, pieces, downs, app>>

\* typeOnPause: a piece while the key is still held
TypeOnPause ==
  /\ helper = "up" /\ ctl.phase = "listening" /\ pieces < MaxPieces
  /\ Becomes(Enqueued(ctl, FALSE), <<>>) /\ pieces' = pieces + 1
  /\ UNCHANGED <<helper, stdin, typed, begun, downs, app>>

\* A piece is heard and gets the next id, nothing is, or the transcriber fails
Heard(p, c) ==
  \/ /\ ctl' = [c EXCEPT !.spoke = TRUE, !.ids = @ + 1,
                         !.pending = @ \cup {[id |-> c.ids + 1, n |-> p.n, of |-> p.of]}]
     /\ stdout' = Append(stdout, Transcript(c.ids + 1, p.n, p.of, c.spoke))
  \/ LET out == [c EXCEPT !.outstanding = @ - 1] IN
       Becomes(IF p.last /\ ~out.spoke /\ out.outstanding = 0
               THEN [out EXCEPT !.phase = "idle"] ELSE settle(out), <<>>)
  \/ LET out == [c EXCEPT !.outstanding = @ - 1] IN
       Becomes(IF out.phase = "busy" /\ ~out.spoke
               THEN [out EXCEPT !.phase = "idle"] ELSE settle(out), <<>>)

\* One of ctl.work, with what is left of it
Transcribed(p, rest) ==
  LET c == [ctl EXCEPT !.work = rest] IN
  /\ IF p.of = ctl.dictation THEN Heard(p, c) ELSE Becomes(c, <<>>)
  /\ UNCHANGED <<helper, stdin, typed, begun, pieces, downs, app>>

\* Pieces are transcribed as they come, each in a task of its own
TranscribeAny ==
  helper = "up" /\ \E i \in DOMAIN ctl.work : Transcribed(ctl.work[i], RemoveAt(ctl.work, i))

\* Each piece waits for the one before it
Transcribe == helper = "up" /\ ctl.work # <<>> /\ Transcribed(Head(ctl.work), Tail(ctl.work))

Awaiting(k) == {p \in ctl.pending : p.id = k}

\* What is typed is the text of the line, for whatever piece waits for its id
TypedFor(ps, n) == typed' = Append(typed, [piece |-> (CHOOSE p \in ps : TRUE).n, words |-> n])

\* The insert is typed without being counted
InsertsUncounted(k, n) ==
  IF Awaiting(k) = {} THEN Becomes(ctl, <<>>) /\ UNCHANGED typed
  ELSE /\ Becomes(settle([ctl EXCEPT !.pending = @ \ Awaiting(k)]), <<>>)
       /\ TypedFor(Awaiting(k), n)

\* insert: for a piece still pending under that id
insert(k, n) ==
  IF Awaiting(k) = {} THEN Becomes(ctl, <<>>) /\ UNCHANGED typed
  ELSE /\ Becomes(settle([ctl EXCEPT !.pending = @ \ Awaiting(k), !.outstanding = @ - 1]), <<>>)
       /\ TypedFor(Awaiting(k), n)

\* The helper handles the next line of its stdin
Handle ==
  /\ helper = "up" /\ stdin # <<>> /\ stdin' = Tail(stdin)
  /\ \/ /\ Head(stdin).type = "insert" /\ insert(Head(stdin).id, Head(stdin).words)
        /\ UNCHANGED <<begun, pieces>>
     \/ Head(stdin).type = "toggle" /\ Tapped /\ UNCHANGED typed
     \/ /\ Head(stdin).type = "toggle" /\ ctl.phase # "listening"   \* busy, or refused
        /\ UNCHANGED <<ctl, stdout, typed, begun, pieces>>
  /\ UNCHANGED <<helper, downs, app>>

\* insertTimeout: the answer never came
InsertTimeout ==
  /\ helper = "up"
  /\ \E p \in ctl.pending :
       Becomes(settle([ctl EXCEPT !.pending = @ \ {p}, !.outstanding = @ - 1]), <<>>)
  /\ UNCHANGED <<helper, stdin, typed, begun, pieces, downs, app>>
-----------------------------------------------------------------------------
Calm == Racing \/ (/\ ctl.phase = "idle" /\ shown.phase = "idle" /\ Settled(ctl)
                  /\ late = <<>> /\ stdin = <<>> /\ stdout = <<>>)

\* Supervisor::send; a helper that is not running takes nothing
Sent(line) == IF helper \in {"boot", "up"} THEN Append(stdin, line) ELSE stdin

\* record_dictation: a continuing piece joins the newest entry
record_dictation(n, d, continues) ==
  IF continues /\ history # <<>>
  THEN [history EXCEPT ![1] = [of |-> @.of \cup {d}, pieces |-> Append(@.pieces, n)]]
  ELSE LET all == <<[of |-> {d}, pieces |-> <<n>>]>> \o history
       IN SubSeq(all, 1, Min({HISTORY_LIMIT, Len(all)}))

\* on_voice_line
OnLine(line) ==
  \/ /\ line.type = "ready"
     /\ shown' = [shown EXCEPT !.helper = "Running"]
     /\ UNCHANGED <<stdin, history>>
  \/ /\ line.type = "phase"
     /\ shown' = [shown EXCEPT !.phase = line.phase]
     /\ UNCHANGED <<stdin, history>>
  \/ /\ line.type = "transcript"
     /\ stdin' = Sent(InsertLine(line.id, line.words))
     /\ \/ history' = record_dictation(line.words, line.of, line.continues)
        \/ Racing /\ UNCHANGED history   \* the history could not be saved
     /\ UNCHANGED shown

\* The supervisor's thread reads a line, also after its helper is gone
ReadLine ==
  /\ stdout # <<>> /\ stdout' = Tail(stdout)
  /\ OnLine(Head(stdout))
  /\ UNCHANGED <<helper, ctl, late, starting, typed, strays, begun, pieces, downs>>

ReadLate ==
  /\ late # <<>> /\ late' = Tail(late)
  /\ OnLine(Head(late))
  /\ UNCHANGED <<helper, ctl, stdout, starting, typed, strays, begun, pieces, downs>>

\* dictation_toggle: the title bar's mic
ToggleCommand ==
  /\ helper \in {"boot", "up"} /\ Len(stdin) < 1
  /\ stdin' = Append(stdin, Toggle)
  /\ UNCHANGED <<helper, ctl, stdout, typed, begun, pieces, downs, app>>

\* dictation_forget: one entry, or every one
Forget ==
  /\ Calm /\ history # <<>>
  /\ \E keep \in {<<>>} \cup {RemoveAt(history, i) : i \in DOMAIN history} : history' = keep
  /\ UNCHANGED <<helper, ctl, stdin, stdout, late, shown, starting, typed, strays,
                 begun, pieces, downs>>

\* The helper starts, says so, and is configured
Boot ==
  /\ helper = "boot" /\ helper' = "up"
  /\ stdout' = Append(stdout, Ready)
  /\ UNCHANGED <<ctl, stdin, typed, begun, pieces, downs, app>>

\* The helper crashes; what it wrote can still be read
Crash ==
  /\ helper = "up" /\ downs < MaxDowns /\ downs' = downs + 1
  /\ helper' = "down" /\ ctl' = Booted /\ stdin' = <<>>
  /\ UNCHANGED <<stdout, typed, begun, pieces, app>>

\* The crash is shown; the phase is not
DownKeepsPhase ==
  /\ helper = "down" /\ stdout = <<>> /\ helper' = "boot"
  /\ shown' = [shown EXCEPT !.helper = "Crashed"]
  /\ UNCHANGED <<ctl, stdin, stdout, late, starting, history, typed, strays,
                 begun, pieces, downs>>

\* Its last line is read: on_down, and the restart after the backoff
Down ==
  /\ helper = "down" /\ stdout = <<>> /\ helper' = "boot"
  /\ shown' = [helper |-> "Crashed", phase |-> "idle"]
  /\ UNCHANGED <<ctl, stdin, stdout, late, starting, history, typed, strays,
                 begun, pieces, downs>>

Transcripts(lines) == {i \in DOMAIN lines : lines[i].type = "transcript"}

\* apply, the feature off: the supervisor is dropped and its helper killed
SwitchOff ==
  /\ Calm /\ helper \in {"up", "down"} /\ ~starting
  /\ downs < MaxDowns /\ downs' = downs + 1
  /\ helper' = "off" /\ ctl' = Booted /\ stdin' = <<>> /\ stdout' = <<>>
  /\ late' = late \o stdout
  /\ strays' = strays \cup {stdout[i].words : i \in Transcripts(stdout)}
  /\ UNCHANGED <<shown, starting, history, typed, begun, pieces>>

\* apply, the feature on: a new supervisor, then its helper is shown as Starting
SwitchOn ==
  /\ helper = "off" /\ helper' = "boot"
  /\ starting' = TRUE
  /\ UNCHANGED <<ctl, stdin, stdout, late, shown, history, typed, strays,
                 begun, pieces, downs>>

ShowStarting ==
  /\ starting /\ starting' = FALSE
  /\ shown' = [shown EXCEPT !.helper = "Starting"]
  /\ UNCHANGED <<helper, ctl, stdin, stdout, late, history, typed, strays, begun,
                 pieces, downs>>

DictationNext ==
  \/ Tap \/ Cancel \/ TypeOnPause \/ Transcribe \/ Handle \/ InsertTimeout
  \/ (Racing \/ ~starting) /\ ReadLine
  \/ ReadLate \/ ToggleCommand \/ Forget \/ Boot \/ Crash \/ Down
  \/ SwitchOff \/ SwitchOn \/ ShowStarting

\* The helper's tasks and timers, the supervisor's thread
DictationFairness ==
  /\ WF_dvars(Transcribe) /\ WF_dvars(Handle) /\ WF_dvars(InsertTimeout)
  /\ WF_dvars(ReadLine) /\ WF_dvars(Down) /\ WF_dvars(Boot)
DictationSpec == DictationInit /\ [][DictationNext]_dvars /\ DictationFairness

\* "Pieces of one dictation are one entry": an entry of the history holds pieces
\* of one dictation, in the order they were said, and no dictation has two
PiecesTogether ==
  /\ \A i \in DOMAIN history :
       /\ Cardinality(history[i].of) = 1
       /\ \A j, k \in DOMAIN history[i].pieces :
            j < k => history[i].pieces[j] < history[i].pieces[k]
  /\ \A i, j \in DOMAIN history : i # j => history[i].of # history[j].of

\* "Typed in the order they were said", over pauses, cancels, crashes and answers
\* that come after their timeout; and the words that are typed for a piece are its
\* own, but for those of a helper that was switched off before they were read:
\* they can meet a piece of the next helper that waits under the same id
TypedAsSaid ==
  LET own == {i \in DOMAIN typed : typed[i].words = typed[i].piece} IN
  /\ \A i, j \in own : i < j => typed[i].piece < typed[j].piece
  /\ \A i \in DOMAIN typed \ own : typed[i].words \in strays

\* "Waiting for their insert", as the comment has it: refuted by those
InsertsAreTheirs == \A i \in DOMAIN typed : typed[i].words = typed[i].piece

\* What the title bar shows once every line is read is what the helper does
\* (phase and helper state, through crashes, restarts and switches)
PhaseShown ==
  helper = "up" /\ stdout = <<>> /\ late = <<>> /\ ~starting =>
    shown = [helper |-> "Running", phase |-> ctl.phase]

\* "Ends the dictation once it's released and every piece is typed"
BusyEnds == (ctl.phase = "busy") ~> (ctl.phase # "busy")
============================================================================
