------------------------------ MODULE MCAppLive ------------------------------
(* What the app must come to, one part per behaviour: the                    *)
(* initial state picks the part, whose steps are the only ones that follow;  *)
(* the others rest where none of their fair steps is possible, so that the   *)
(* fairness of every part can be assumed as its module states it.            *)
EXTENDS Integers

VARIABLES
  part,   \* the component this behaviour is of
  socket, link, hello, writer, wired, link_call, pending, keeps, streams, link_page,
  got, attached, out, in, losses,
  enabled, voice_helper, phase, folder, voice_begun, meeting, saves, mic,
  voice_watched, timers, voice_process, voice_stdin, voice_stdout, tape, jobs,
  voice_call, heard, voice_downs, calls,
  now, plan, files, limits_watched, last, ask, bar, usage_on,
  lsp_process, lsp_stdout, said, reader, input, inputs, unread, sends, task, lsp_page,
  output, stopped,
  dictation_helper, ctl, dictation_stdin, dictation_stdout, late, shown, starting,
  history, typed, strays, dictation_begun, pieces, dictation_downs

L == INSTANCE DaemonLink WITH
  Calls <- {"c1"}, MaxLosses <- 2, call <- link_call, page <- link_page
V == INSTANCE Voice WITH
  MaxMeetings <- 2, MaxDowns <- 1, MaxCalls <- 1, Racing <- FALSE,
  helper <- voice_helper, begun <- voice_begun, watched <- voice_watched,
  process <- voice_process, stdin <- voice_stdin, stdout <- voice_stdout,
  call <- voice_call, downs <- voice_downs
M == INSTANCE Limits WITH
  MaxTime <- 3, Window <- 1, MaxUsed <- 1, Calls <- {"c1"}, Desktop <- TRUE,
  Racing <- FALSE, watched <- limits_watched
Q == INSTANCE Lsp WITH
  MaxMessages <- 2, MaxPipe <- 1, process <- lsp_process, stdout <- lsp_stdout,
  page <- lsp_page
D == INSTANCE Dictation WITH
  HISTORY_LIMIT <- 2, MaxDictations <- 2, MaxPieces <- 2, MaxDowns <- 1,
  Racing <- FALSE, helper <- dictation_helper, stdin <- dictation_stdin,
  stdout <- dictation_stdout, begun <- dictation_begun, downs <- dictation_downs

linkVars == <<socket, link, hello, writer, wired, link_call, pending, keeps, streams,
              link_page, got, attached, out, in, losses>>
voiceVars == <<enabled, voice_helper, phase, folder, voice_begun, meeting, saves, mic,
               voice_watched, timers, voice_process, voice_stdin, voice_stdout, tape,
               jobs, voice_call, heard, voice_downs, calls>>
limitsVars == <<now, plan, files, limits_watched, last, ask, bar, usage_on>>
lspVars == <<lsp_process, lsp_stdout, said, reader, input, inputs, unread, sends,
             task, lsp_page, output, stopped>>
dictationVars == <<dictation_helper, ctl, dictation_stdin, dictation_stdout, late,
                   shown, starting, history, typed, strays, dictation_begun,
                   pieces, dictation_downs>>
vars == <<part, linkVars, voiceVars, limitsVars, lspVars, dictationVars>>

\* The app stays connected
LinkRests ==
  /\ socket = "ours" /\ link = "up" /\ hello = TRUE /\ writer = TRUE /\ wired = TRUE
  /\ link_call = [r \in {"c1"} |-> "idle"] /\ pending = {} /\ keeps = {} /\ streams = {}
  /\ link_page = [r \in {"c1"} |-> TRUE] /\ got = [r \in {"c1"} |-> "nothing"]
  /\ attached = {} /\ out = <<>> /\ in = <<>> /\ losses = 0

\* The recording feature stays off
VoiceRests ==
  /\ enabled = FALSE /\ voice_helper = "Off" /\ phase = "Idle" /\ folder = 0
  /\ voice_begun = 0 /\ meeting = [f \in 1 .. 2 |-> "none"] /\ saves = {} /\ mic = FALSE
  /\ voice_watched = FALSE /\ timers = 0 /\ voice_process = "off" /\ voice_stdin = <<>>
  /\ voice_stdout = <<>> /\ tape = 0 /\ jobs = <<>> /\ voice_call = FALSE /\ heard = FALSE
  /\ voice_downs = 0 /\ calls = 0

\* Nobody asks for the limits
LimitsRests ==
  /\ now = 1 /\ plan = [used |-> 0, resets_at |-> 2]
  /\ files = [s \in M!Sources |-> M!None] /\ limits_watched = FALSE /\ last = M!None
  /\ bar = M!None /\ usage_on = FALSE
  /\ ask = [c \in {"c1"} |-> [at |-> "done", limits |-> M!None]]

\* The dictation feature stays off
DictationRests ==
  /\ dictation_helper = "off" /\ ctl = D!Booted /\ dictation_stdin = <<>> /\ dictation_stdout = <<>> /\ late = <<>>
  /\ shown = [helper |-> "Off", phase |-> "idle"] /\ starting = FALSE /\ history = <<>>
  /\ typed = <<>> /\ strays = {} /\ dictation_begun = 0 /\ pieces = 0 /\ dictation_downs = 0

Init ==
  /\ part \in {"link", "voice", "limits", "lsp", "dictation"}
  /\ IF part = "link" THEN L!LinkInit ELSE LinkRests
  /\ IF part = "voice" THEN V!VoiceInit ELSE VoiceRests
  /\ IF part = "limits" THEN M!LimitsInit ELSE LimitsRests
  /\ Q!LspInit
  /\ IF part = "dictation" THEN D!DictationInit ELSE DictationRests

Next ==
  /\ UNCHANGED part
  /\ \/ /\ part = "link" /\ L!LinkNext
        /\ UNCHANGED <<voiceVars, limitsVars, lspVars, dictationVars>>
     \/ /\ part = "voice" /\ V!VoiceNext
        /\ UNCHANGED <<linkVars, limitsVars, lspVars, dictationVars>>
     \/ /\ part = "limits" /\ M!LimitsNext
        /\ UNCHANGED <<linkVars, voiceVars, lspVars, dictationVars>>
     \/ /\ part = "lsp" /\ Q!LspNext
        /\ UNCHANGED <<linkVars, voiceVars, limitsVars, dictationVars>>
     \/ /\ part = "dictation" /\ D!DictationNext
        /\ UNCHANGED <<linkVars, voiceVars, limitsVars, lspVars>>

Spec == Init /\ [][Next]_vars
  /\ L!LinkFairness
  /\ V!VoiceFairness
  /\ M!LimitsFairness
  /\ WF_lspVars(Q!Tasks)
  /\ D!DictationFairness
-----------------------------------------------------------------------------
\* What the connection to ptyd comes to
LinkRecovers ==
  \* ptyd lets go of a channel whose page is gone
  /\ L!LeakHealed
  \* Whatever daemon it finds, the app ends up connected to one of its build
  /\ L!EventuallyConnected

\* What recordings, dictations, language servers and readings of limits come to
EndsCome ==
  \* A meeting left by a crash or a failed start gets its transcript or its
  \* error (recover)
  /\ V!MeetingsFinish
  \* Saving does not last, whatever dies on the way
  /\ V!SavingEnds
  \* A released dictation ends once its pieces are typed or given up
  /\ D!BusyEnds
  \* After a stop the language server ends and its exit is told, unless the task
  \* waits on it for good
  /\ Q!StopKills
  \* A page behind the newest reading gets it (watch_limits)
  /\ M!PageCatchesUp

\* What the app shows and keeps of recordings, dictations and limits is so
ShownIsSo ==
  \* Nobody is recorded unseen: a helper that records does so into the folder
  \* the app shows
  /\ part = "voice" => V!TapeIsShown
  \* Pieces of one dictation are one entry of the history, in their order
  /\ part = "dictation" => D!PiecesTogether
  \* The title bar shows what the dictation helper does once its lines are read
  /\ part = "dictation" => D!PhaseShown
  \* No reading names a reset that is behind it (newest_limits)
  /\ part = "limits" => M!NoPastReset
  \* A source with reset times never says more than the plan has used
  /\ part = "limits" => M!NeverOverstated
=============================================================================
