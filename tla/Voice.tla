------------------------------- MODULE Voice --------------------------------
(***************************************************************************)
(* Meeting recording (src-tauri/src/voice.rs): the app's recording status  *)
(* and the folders of meetings on disk, the supervised helper it talks to  *)
(* over stdin and stdout (native/voice, MeetingsHelper), and the automatic *)
(* recording of calls.  One call app; a title, a track and a transcript    *)
(* are their folder's number, which create_meeting never gives twice.      *)
(***************************************************************************)
EXTENDS Naturals, Sequences, SequencesExt, FiniteSetsExt

CONSTANTS
    MaxMeetings,    \* bound: recordings begun
    MaxDowns,       \* bound: helper crashes, app restarts and switches of the feature
    MaxCalls,       \* bound: changes of who holds the microphone
    Racing          \* whether a start is two steps, and recordings in use are deleted or switched off

VARIABLES
    enabled,        \* settings.features.recording, hence meetings_helper
    helper, phase,  \* of RecordingStatus
    folder,         \* Voice::folder; 0 is None
    begun,          \* the folder of a start between its message and its status
    meeting,        \* the status in each folder's meeting.json
    saves,          \* save() under way, by folder
    mic, watched,   \* the call app is among mic_apps; watched_call
    timers,         \* AUTO_STOP_AFTER threads asleep
    process,        \* the Supervisor: "off", "spawn" (or its backoff), "up", "dead"
    stdin, stdout,  \* the helper's pipes
    tape, jobs,     \* the helper's Recording and its transcriptions
    call, heard,    \* the call app uses the microphone; what the helper last said of it
    downs, calls

appSide == <<enabled, helper, phase, folder, begun, meeting, saves, mic, watched, timers>>
helperSide == <<process, stdin, stdout, tape, jobs, call, heard>>
voiceVars == <<appSide, helperSide, downs, calls>>

Folders == 1 .. MaxMeetings
Msg(t, f) == [type |-> t, folder |-> f]
Unfinished == {"recording", "transcribing"}
is_recording == phase \in {"Recording", "Paused"}

VoiceInit ==
    /\ enabled = TRUE /\ helper = "Starting" /\ phase = "Idle" /\ folder = 0 /\ begun = 0
    /\ meeting = [f \in Folders |-> "none"] /\ saves = {}
    /\ mic = FALSE /\ watched = FALSE /\ timers = 0
    /\ process = "spawn" /\ stdin = <<>> /\ stdout = <<>> /\ tape = 0 /\ jobs = <<>>
    /\ call = FALSE /\ heard = FALSE /\ downs = 0 /\ calls = 0

-----------------------------------------------------------------------------
(* Supervisor::send: a dead helper's pipe may still take the line          *)
Sends(msgs) == stdin' = IF process = "up" THEN stdin \o msgs ELSE stdin
SendOutcomes == [off |-> {FALSE}, spawn |-> {FALSE}, up |-> {TRUE}, dead |-> BOOLEAN][process]

Fresh == {f \in Folders : meeting[f] = "none"}
CanStart == helper = "Running" /\ phase = "Idle" /\ Fresh # {}

Shown(f, p) == folder' = f /\ phase' = p

(* recording_start up to its message: the folder is made first             *)
recording_start(sent, two_steps) ==
    LET f == Min(Fresh) IN
    /\ meeting' = [meeting EXCEPT ![f] = "recording"]
    /\ IF ~sent THEN UNCHANGED <<stdin, folder, phase, begun>>
       ELSE /\ Sends(<<Msg("record", f)>>)
            /\ IF two_steps THEN begun' = f /\ UNCHANGED <<folder, phase>>
               ELSE Shown(f, "Recording") /\ UNCHANGED begun

recording_stop(sent) ==
    IF ~sent THEN UNCHANGED <<stdin, meeting, phase>>
    ELSE /\ Sends(<<Msg("stop", 0)>>)
         /\ meeting' = [f \in Folders |-> IF f = folder /\ meeting[f] # "trashed"
                                          THEN "transcribing" ELSE meeting[f]]
         /\ phase' = "Saving"

(* The commands of the windows, on the main thread                         *)
StartCommand ==
    /\ begun = 0 /\ CanStart
    /\ \E sent \in SendOutcomes : recording_start(sent, Racing)
    /\ UNCHANGED <<enabled, helper, saves, mic, watched, timers>>
    /\ UNCHANGED <<process, stdout, tape, jobs, call, heard, downs, calls>>

StartShown ==
    /\ begun # 0 /\ Shown(begun, "Recording") /\ begun' = 0
    /\ UNCHANGED <<enabled, helper, meeting, saves, mic, watched, timers, downs, calls>>
    /\ UNCHANGED helperSide

Pause ==
    /\ begun = 0 /\ is_recording /\ TRUE \in SendOutcomes
    /\ phase' = IF phase = "Paused" THEN "Recording" ELSE "Paused"
    /\ UNCHANGED <<enabled, helper, folder, begun, meeting, saves, mic, watched, timers>>
    /\ UNCHANGED helperSide /\ UNCHANGED <<downs, calls>>

StopCommand ==
    /\ begun = 0 /\ is_recording
    /\ \E sent \in SendOutcomes : recording_stop(sent)
    /\ UNCHANGED <<enabled, helper, folder, begun, saves, mic, watched, timers>>
    /\ UNCHANGED <<process, stdout, tape, jobs, call, heard, downs, calls>>

Delete(f) ==
    /\ meeting[f] \notin {"none", "trashed"} /\ (Racing \/ f # folder)
    /\ meeting' = [meeting EXCEPT ![f] = "trashed"]
    /\ UNCHANGED <<enabled, helper, phase, folder, begun, saves, mic, watched, timers, downs, calls>>
    /\ UNCHANGED helperSide

(* The thread auto_record spawned on a Release, AUTO_STOP_AFTER later      *)
TimerFires ==
    /\ timers > 0 /\ timers' = timers - 1
    /\ IF ~watched /\ is_recording THEN \E sent \in SendOutcomes : recording_stop(sent)
       ELSE UNCHANGED <<stdin, meeting, phase>>
    /\ UNCHANGED <<enabled, helper, folder, begun, saves, mic, watched>>
    /\ UNCHANGED <<process, stdout, tape, jobs, call, heard, downs, calls>>

-----------------------------------------------------------------------------
recoverNone == UNCHANGED stdin

(* Recordings a crash or a quit left are transcribed now                   *)
recover ==
    LET left == {f \in Folders : meeting[f] \in Unfinished /\ f # folder}
    IN  Sends([i \in 1 .. Cardinality(left) |-> Msg("transcribe", SetToSeq(left)[i])])

LineReady ==
    /\ helper' = "Running" /\ recover
    /\ UNCHANGED <<phase, folder, begun, meeting, saves, mic, watched, timers>>

(* auto_step and auto_record, with recording.auto on or off                *)
LineMic(held) ==
    /\ mic' = held
    /\ \E auto \in BOOLEAN :
         CASE watched /\ ~held ->
                /\ watched' = FALSE /\ timers' = timers + 1
                /\ UNCHANGED <<stdin, folder, phase, begun, meeting>>
           [] ~watched /\ held /\ is_recording ->
                watched' = TRUE /\ UNCHANGED <<timers, stdin, folder, phase, begun, meeting>>
           [] ~watched /\ held /\ ~is_recording /\ auto ->
                /\ UNCHANGED timers
                /\ IF CanStart
                   THEN \E sent \in SendOutcomes : recording_start(sent, FALSE) /\ watched' = sent
                   ELSE UNCHANGED <<watched, stdin, folder, phase, begun, meeting>>
           [] OTHER -> UNCHANGED <<watched, timers, stdin, folder, phase, begun, meeting>>
    /\ UNCHANGED <<helper, saves>>

LineStopped(f) ==
    /\ Sends(<<Msg("transcribe", f)>>)
    /\ UNCHANGED <<helper, phase, folder, begun, meeting, saves, mic, watched, timers>>

LineTranscript(f) ==   \* spawns save(), which reads meeting.json first
    /\ saves' = IF meeting[f] = "trashed" THEN saves ELSE saves \cup {f}
    /\ UNCHANGED <<stdin, helper, phase, folder, begun, meeting, mic, watched, timers>>

EndsAnyFolder(f, s) ==
    /\ meeting' = [meeting EXCEPT ![f] = IF @ = "trashed" THEN @ ELSE s]
    /\ folder' = 0 /\ phase' = "Idle"

(* The recording shown ends with the folder it is about, no other          *)
Ends(f, s) ==
    /\ meeting' = [meeting EXCEPT ![f] = IF @ = "trashed" THEN @ ELSE s]
    /\ IF f = folder THEN Shown(0, "Idle") ELSE UNCHANGED <<folder, phase>>

LineError(f) ==
    /\ Ends(f, "failed")
    /\ UNCHANGED <<stdin, helper, begun, saves, mic, watched, timers>>

(* on_meetings_line, on the thread that reads the helper's stdout          *)
ReadLine ==
    /\ stdout # <<>> /\ stdout' = Tail(stdout)
    /\ LET line == Head(stdout) IN
       CASE line.type = "ready" -> LineReady
         [] line.type = "mic" -> LineMic(line.folder = 1)
         [] line.type = "stopped" -> LineStopped(line.folder)
         [] line.type = "transcript" -> LineTranscript(line.folder)
         [] line.type = "error" -> LineError(line.folder)
    /\ UNCHANGED <<enabled, process, tape, jobs, call, heard, downs, calls>>

(* save() after the note is written, or claude took too long               *)
SaveEnds(f) ==
    /\ f \in saves /\ saves' = saves \ {f} /\ Ends(f, "done")
    /\ UNCHANGED <<enabled, helper, begun, mic, watched, timers, downs, calls>> /\ UNCHANGED helperSide

-----------------------------------------------------------------------------
(* The supervisor's thread                                                 *)
Spawn ==
    /\ process = "spawn" /\ process' = "up"
    /\ stdin' = <<>> /\ stdout' = Append(stdout, Msg("ready", 0))
    /\ UNCHANGED <<tape, jobs, call, heard, downs, calls>> /\ UNCHANGED appSide

Gone == stdin' = <<>> /\ tape' = 0 /\ jobs' = <<>> /\ heard' = FALSE

HelperCrashes ==
    /\ process = "up" /\ downs < MaxDowns /\ downs' = downs + 1
    /\ process' = "dead" /\ Gone
    /\ UNCHANGED <<stdout, call, calls>> /\ UNCHANGED appSide

DownKeepsFolder ==
    /\ process = "dead" /\ stdout = <<>> /\ process' = "spawn"
    /\ helper' = "Crashed" /\ phase' = "Idle" /\ UNCHANGED folder
    /\ UNCHANGED <<enabled, begun, meeting, saves, mic, watched, timers>>
    /\ UNCHANGED <<stdin, stdout, tape, jobs, call, heard, downs, calls>>

DownKeepsPhase ==
    /\ process = "dead" /\ stdout = <<>> /\ process' = "spawn"
    /\ helper' = "Crashed" /\ UNCHANGED <<phase, folder>>
    /\ UNCHANGED <<enabled, begun, meeting, saves, mic, watched, timers>>
    /\ UNCHANGED <<stdin, stdout, tape, jobs, call, heard, downs, calls>>

(* on_down, after the last line                                            *)
Down ==
    /\ process = "dead" /\ stdout = <<>> /\ process' = "spawn"
    /\ helper' = "Crashed" /\ Shown(0, "Idle")
    /\ UNCHANGED <<enabled, begun, meeting, saves, mic, watched, timers>>
    /\ UNCHANGED <<stdin, stdout, tape, jobs, call, heard, downs, calls>>

(* apply(): the feature is switched off, which kills the helper, or on     *)
Apply ==
    /\ begun = 0 /\ downs < MaxDowns /\ downs' = downs + 1
    /\ enabled' = ~enabled
    /\ IF enabled THEN /\ Racing \/ folder = 0
                       /\ process' = "off" /\ Gone /\ UNCHANGED helper
       ELSE process' = "spawn" /\ helper' = "Starting" /\ UNCHANGED <<stdin, tape, jobs, heard>>
    /\ UNCHANGED <<phase, folder, begun, meeting, saves, mic, watched, timers, stdout, call, calls>>

(* exit() and the next setup(); a crash of the app leaves the same         *)
Restart ==
    /\ downs < MaxDowns /\ downs' = downs + 1
    /\ helper' = "Starting" /\ Shown(0, "Idle") /\ begun' = 0 /\ saves' = {}
    /\ mic' = FALSE /\ watched' = FALSE /\ timers' = 0
    /\ process' = (IF enabled THEN "spawn" ELSE "off") /\ Gone /\ stdout' = <<>>
    /\ UNCHANGED <<enabled, meeting, call, calls>>

-----------------------------------------------------------------------------
(* The helper, one message at a time on its main queue                     *)
Takes ==
    /\ process = "up" /\ stdin # <<>> /\ stdin' = Tail(stdin)
    /\ LET m == Head(stdin) IN
       CASE m.type = "record" ->
              /\ UNCHANGED jobs
              /\ \/ tape = 0 /\ tape' = m.folder /\ UNCHANGED stdout
                 \/ UNCHANGED tape /\ stdout' = Append(stdout, Msg("error", m.folder))
         [] m.type = "stop" ->
              /\ tape' = 0 /\ UNCHANGED jobs
              /\ stdout' = IF tape = 0 THEN stdout ELSE Append(stdout, Msg("stopped", tape))
         [] m.type = "transcribe" ->
              jobs' = Append(jobs, m.folder) /\ UNCHANGED <<tape, stdout>>
    /\ UNCHANGED <<process, call, heard, downs, calls>> /\ UNCHANGED appSide

Transcribes ==
    /\ process = "up" /\ jobs # <<>> /\ jobs' = Tail(jobs)
    /\ \E t \in {"transcript", "error"} : stdout' = Append(stdout, Msg(t, Head(jobs)))
    /\ UNCHANGED <<process, stdin, tape, call, heard, downs, calls>> /\ UNCHANGED appSide

CallChanges ==
    /\ calls < MaxCalls /\ calls' = calls + 1 /\ call' = ~call
    /\ UNCHANGED <<process, stdin, stdout, tape, jobs, heard, downs>> /\ UNCHANGED appSide

pollMicrophone ==
    /\ process = "up" /\ heard # call /\ heard' = call
    /\ stdout' = Append(stdout, Msg("mic", IF call THEN 1 ELSE 0))
    /\ UNCHANGED <<process, stdin, tape, jobs, call, downs, calls>> /\ UNCHANGED appSide

VoiceNext ==
    \/ StartCommand \/ StartShown \/ Pause \/ StopCommand \/ TimerFires
    \/ (\E f \in Folders : Delete(f) \/ SaveEnds(f))
    \/ ReadLine \/ Spawn \/ HelperCrashes \/ Down \/ Apply \/ Restart
    \/ Takes \/ Transcribes \/ CallChanges \/ pollMicrophone

(* Threads run; a transcription and a note end (NOTE_TIMEOUT); the         *)
(* supervisor starts the helper again.  Users and callers owe nothing.     *)
VoiceFairness ==
    /\ WF_voiceVars(StartShown) /\ WF_voiceVars(ReadLine) /\ WF_voiceVars(Spawn)
    /\ WF_voiceVars(Down) /\ WF_voiceVars(Takes) /\ WF_voiceVars(Transcribes)
    /\ \A f \in Folders : WF_voiceVars(SaveEnds(f))

VoiceSpec == VoiceInit /\ [][VoiceNext]_voiceVars /\ VoiceFairness

-----------------------------------------------------------------------------
(* The state's shape: a folder is current exactly while a recording is     *)
(* shown, whatever crashes, restarts or comes late (voice.rs, folder).     *)
VoiceTypeOK ==
    /\ helper \in {"Starting", "Running", "Crashed"}
    /\ phase \in {"Idle", "Recording", "Paused", "Saving"}
    /\ folder \in 0 .. MaxMeetings /\ (folder = 0 <=> phase = "Idle")
    /\ \A f \in Folders : meeting[f] \in Unfinished \cup {"none", "done", "failed", "trashed"}
    /\ timers \in 0 .. MaxCalls /\ tape \in 0 .. MaxMeetings

(* Nobody is recorded unseen: once both sides have read what the other     *)
(* said, a helper that records does so into the folder the app shows as    *)
(* being recorded (recording_start, on_meetings_line).                     *)
TapeIsShown ==
    process = "up" /\ stdin = <<>> /\ stdout = <<>> /\ tape # 0 => folder = tape /\ is_recording

(* auto_record's delayed stop never cuts off a call that came back: the    *)
(* app ends no recording by a timer while it knows the call app to hold    *)
(* the microphone.                                                         *)
CallNotCutOff ==
    [][timers' < timers /\ phase' = "Saving" /\ phase # "Saving" => ~mic]_voiceVars

(* No meeting is lost to a crash, a quit or a failed start: a folder left  *)
(* recording or transcribing, and not the current one, gets its transcript *)
(* or its error, as long as the feature stays on (recover).                *)
MeetingsFinish ==
    \A f \in Folders : (enabled /\ meeting[f] \in Unfinished /\ f # folder)
                       ~> (~enabled \/ meeting[f] \notin Unfinished)

(* A stopped recording is saved: Saving does not last, whatever dies on    *)
(* the way (recording_stop's promise that `Saved` follows).                *)
SavingEnds == phase = "Saving" ~> phase # "Saving"
=============================================================================
