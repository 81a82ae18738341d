-------------------------------- MODULE Lsp --------------------------------
(* A language server of the editor (apps/desktop/src-tauri/src/lsp.rs): its  *)
(* process, the task that reads its messages, the task that writes to it and *)
(* waits for its end, and the page at the other end of the channel.          *)
EXTENDS Integers, Sequences

CONSTANTS
  MaxMessages,  \* messages each way
  MaxPipe       \* bodies the pipe to the server holds

VARIABLES
  process,   \* run, mute (its output is closed) or dead
  stdout,    \* messages written and not read
  said,      \* messages the server wrote
  reader,    \* read_messages: run, eof or refused
  input,     \* the sender is in Servers.inputs
  inputs,    \* bodies sent and not taken by the task
  unread,    \* bodies in the server's input that it has not read
  sends,     \* lsp_send calls that were taken
  task,      \* the writing task: loop, write, kill, wait, tail, done
  page,      \* the page that started it is there
  output,    \* what came on the channel
  stopped    \* lsp_stop was called

svars == <<process, stdout, said, reader, input, inputs, unread, sends, task,
           page, output, stopped>>

\* lsp_start: the process runs, its sender is in the map, the tasks are spawned
LspInit ==
  /\ process = "run" /\ stdout = 0 /\ said = 0 /\ reader = "run"
  /\ input = TRUE /\ inputs = 0 /\ unread = 0 /\ sends = 0 /\ task = "loop"
  /\ page = TRUE /\ output = <<>> /\ stopped = FALSE

\* The server writes a message (external)
ServerSays ==
  /\ process = "run" /\ said < MaxMessages
  /\ said' = said + 1 /\ stdout' = stdout + 1
  /\ UNCHANGED <<process, reader, input, inputs, unread, sends, task, page,
                 output, stopped>>

\* The server reads a body of its input (external): one that hangs never does
ServerReads ==
  /\ process # "dead" /\ unread > 0
  /\ unread' = unread - 1
  /\ UNCHANGED <<process, stdout, said, reader, input, inputs, sends, task, page,
                 output, stopped>>

\* The server ends, or only closes its output (external)
ServerEnds ==
  /\ process # "dead"
  /\ process' \in {"dead"} \cup (IF process = "run" THEN {"mute"} ELSE {})
  /\ UNCHANGED <<stdout, said, reader, input, inputs, unread, sends, task, page,
                 output, stopped>>

\* read_messages hands over the next body; a page that is gone refuses it
ReaderSends ==
  /\ reader = "run" /\ stdout > 0
  /\ stdout' = stdout - 1
  /\ IF page THEN output' = Append(output, "message") /\ reader' = reader
             ELSE output' = output /\ reader' = "refused"
  /\ UNCHANGED <<process, said, input, inputs, unread, sends, task, page,
                 stopped>>

ReaderEnds ==
  /\ reader = "run" /\ stdout = 0 /\ process # "run"
  /\ reader' = "eof"
  /\ UNCHANGED <<process, stdout, said, input, inputs, unread, sends, task,
                 page, output, stopped>>

\* lsp_send, refused once the sender is gone
lsp_send ==
  /\ page /\ input /\ sends < MaxMessages
  /\ sends' = sends + 1 /\ inputs' = inputs + 1
  /\ UNCHANGED <<process, stdout, said, reader, input, unread, task, page,
                 output, stopped>>

lsp_stop ==
  /\ page /\ ~stopped
  /\ stopped' = TRUE /\ input' = FALSE
  /\ UNCHANGED <<process, stdout, said, reader, inputs, unread, sends, task,
                 page, output>>

\* The page reloads or closes
PageGoes ==
  /\ page /\ page' = FALSE
  /\ UNCHANGED <<process, stdout, said, reader, input, inputs, unread, sends,
                 task, output, stopped>>

\* The select: a body to write, ...
TaskTakes ==
  /\ task = "loop" /\ inputs > 0
  /\ task' = "write" /\ inputs' = inputs - 1
  /\ UNCHANGED <<process, stdout, said, reader, input, unread, sends, page, output,
                 stopped>>

\* (which is awaited within its arm, so nothing else is seen until the pipe has
\* room for it or the server is dead and the write fails)
TaskWrites ==
  /\ task = "write" /\ task' = "loop"
  /\ \/ process = "dead" /\ UNCHANGED unread
     \/ process # "dead" /\ unread < MaxPipe /\ unread' = unread + 1
  /\ UNCHANGED <<process, stdout, said, reader, input, inputs, sends, page, output,
                 stopped>>

\* ... no sender left, ...
TaskStopped ==
  /\ task = "loop" /\ ~input /\ inputs = 0
  /\ task' = "kill"
  /\ UNCHANGED <<process, stdout, said, reader, input, inputs, unread, sends,
                 page, output, stopped>>

\* The task waits for the process, not for the reader
TaskSeesExit ==
  /\ task = "loop" /\ (reader # "run" \/ process = "dead")
  /\ task' = IF reader = "refused" THEN "kill" ELSE "wait"
  /\ UNCHANGED <<process, stdout, said, reader, input, inputs, unread, sends,
                 page, output, stopped>>

\* ... or the reader ended: a page that is gone leaves the server unread
TaskReaderEnds ==
  /\ task = "loop" /\ reader # "run"
  /\ task' = IF reader = "refused" THEN "kill" ELSE "wait"
  /\ UNCHANGED <<process, stdout, said, reader, input, inputs, unread, sends,
                 page, output, stopped>>

\* A stop leaves the server alone
KillSkipped ==
  /\ task = "kill" /\ task' = "wait"
  /\ UNCHANGED <<process, stdout, said, reader, input, inputs, unread, sends,
                 page, output, stopped>>

\* A server nobody reads is killed
Kill ==
  /\ task = "kill" /\ task' = "wait" /\ process' = "dead"
  /\ UNCHANGED <<stdout, said, reader, input, inputs, unread, sends, page,
                 output, stopped>>

\* The process has ended: its sender leaves the map, then the exit goes out
TaskWaited ==
  /\ task = "wait" /\ process = "dead"
  /\ task' = "tail" /\ input' = FALSE
  /\ UNCHANGED <<process, stdout, said, reader, inputs, unread, sends, page,
                 output, stopped>>

SendExit ==
  /\ task = "tail" /\ task' = "done"
  /\ output' = IF page THEN Append(output, "exit") ELSE output
  /\ UNCHANGED <<process, stdout, said, reader, input, inputs, unread, sends,
                 page, stopped>>

LspDone == task = "done" /\ reader # "run" /\ UNCHANGED svars

Tasks == \/ ReaderSends \/ ReaderEnds \/ TaskTakes \/ TaskWrites \/ TaskStopped \/ TaskReaderEnds
         \/ Kill \/ TaskWaited \/ SendExit
LspNext == \/ Tasks \/ ServerSays \/ ServerReads \/ ServerEnds
           \/ lsp_send \/ lsp_stop \/ PageGoes \/ LspDone
LspSpec == LspInit /\ [][LspNext]_svars /\ WF_svars(Tasks)

\* "Its messages, then its exit, come on output": a server that ended by itself
\* has said everything before its exit is told
ExitIsLast ==
  /\ \A i \in DOMAIN output : output[i] = "exit" => i = Len(output) \/ stopped
  /\ task = "done" /\ page /\ ~stopped => Len(output) = said + 1

\* As the comment has it, also for a server that was stopped
ExitIsAlwaysLast == \A i \in DOMAIN output : output[i] = "exit" => i = Len(output)

\* The task waits on the server and hears nothing else: for room in the input
\* of one that does not read, or for the end of one that closed its output
TaskDeaf ==
  \/ task = "write" /\ process # "dead" /\ unread = MaxPipe
  \/ task = "wait" /\ process = "mute"

\* After a stop the process ends and its exit is told, also with a backlog of
\* bodies to write; only a server on which the task waits for good survives it
StopKills == <>[]TaskDeaf \/ (stopped ~> process = "dead" /\ task = "done")

\* "Kills a server", as the comment of lsp_stop has it, of a server that has not
\* closed its output by itself: refuted by one that no longer reads its input
StopAlwaysKills == stopped ~> process # "run"
============================================================================
