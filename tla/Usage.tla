------------------------------- MODULE Usage -------------------------------
(* What the agents spent, from their logs (core/agents/usage.rs): a Claude   *)
(* transcript and a codex rollout that grow, and that codex archives, while  *)
(* scans read them through a cache file kept by size and time. Tokens are    *)
(* counted in one kind; a log's size is its number of lines. Its time is left *)
(* out: logs only grow, so the size alone must tell one content from another. *)
EXTENDS Integers, Sequences, SequencesExt, FiniteSets, FiniteSetsExt

CONSTANTS
  Scans,      \* calls of agent_usage
  Replies,    \* ids of Claude's API replies, one token each
  MaxLines,   \* lines of each log
  MaxTurn,    \* tokens of one codex turn
  Larger      \* TRUE: totals that start over may begin above the last one

VARIABLES
  logs,      \* lines by log: the transcript and the rollout
  archived,  \* where the rollout is
  spent,     \* what codex really spent
  cache,     \* usage-cache.json: by path [size, tokens], or torn
  scan       \* the scans under way

uvars == <<logs, archived, spent, cache, scan>>

\* The order the files are read in
Turn == [claude |-> 1, sessions |-> 2, archived_sessions |-> 3]
Log(path) == IF path = "claude" THEN "transcript" ELSE "rollout"
\* A path with a file behind it
IsFile(path) ==
  CASE path = "claude" -> TRUE
    [] path = "sessions" -> ~archived
    [] path = "archived_sessions" -> archived

NoFiles == [p \in {} |-> 0]
Idle == [at |-> "idle", cached |-> NoFiles, todo |-> {}, files |-> NoFiles,
         meta |-> [path |-> "", size |-> 0], read |-> FALSE,
         least |-> 0, moved |-> FALSE, answer |-> 0]

UsageInit ==
  /\ logs = [transcript |-> <<>>, rollout |-> <<>>]
  /\ archived = FALSE /\ spent = 0
  /\ cache = [whole |-> TRUE, files |-> NoFiles]
  /\ scan = [s \in Scans |-> Idle]

\* Claude repeats a reply's usage on each content block: every line counts
ClaudeRepeated(lines) == Len(lines)

\* Claude repeats a reply's usage on each content block: a reply counts once
claude_rows(lines) == Cardinality(ToSet(lines))

\* The total before is kept only when the total grew
CodexKeepsTotal(lines) ==
  FoldLeft(LAMBDA acc, l :
             IF l.total >= acc.previous
             THEN [tokens |-> acc.tokens + (l.total - acc.previous), previous |-> l.total]
             ELSE [acc EXCEPT !.tokens = @ + l.last],
           [tokens |-> 0, previous |-> 0], lines).tokens

\* Codex reports totals: an event adds what grew since the last one, and the
\* turn's own usage when the total shrank
codex_rows(lines) ==
  FoldLeft(LAMBDA acc, l :
             [tokens |-> acc.tokens + (IF l.total >= acc.previous
                                       THEN l.total - acc.previous ELSE l.last),
              previous |-> l.total],
           [tokens |-> 0, previous |-> 0], lines).tokens

Tokens(path, lines) ==
  IF path = "claude" THEN claude_rows(lines) ELSE codex_rows(lines)

\* The conversation's total of transcripts.rs: the last one codex wrote
codex_usage(lines) == IF lines = <<>> THEN 0 ELSE Last(lines).total

Written(log, line) ==
  /\ Len(logs[log]) < MaxLines
  /\ logs' = [logs EXCEPT ![log] = Append(@, line)]
  /\ UNCHANGED <<archived, cache, scan>>

\* A content block of a reply
ClaudeWrites == \E r \in Replies : Written("transcript", r) /\ UNCHANGED spent

\* A turn's token_count: the total grows, or starts over with the turn
CodexTurn ==
  \E n \in 1 .. MaxTurn :
    /\ LET before == codex_usage(logs.rollout) IN
         \/ Written("rollout", [total |-> before + n, last |-> n])
         \/ /\ before > 0 /\ (Larger \/ n < before)
            /\ Written("rollout", [total |-> n, last |-> n])
    /\ spent' = spent + n

\* Codex repeats the last event
CodexRepeats ==
  /\ logs.rollout # <<>>
  /\ Written("rollout", Last(logs.rollout)) /\ UNCHANGED spent

\* Codex archives the rollout, which the scans under way may miss
Archive ==
  /\ ~archived /\ logs.rollout # <<>>
  /\ archived' = TRUE
  /\ scan' = [s \in Scans |-> IF scan[s].at = "idle" THEN scan[s]
                              ELSE [scan[s] EXCEPT !.moved = TRUE]]
  /\ UNCHANGED <<logs, spent, cache>>

Real == Cardinality(ToSet(logs.transcript)) + spent

\* The cache file is loaded (a torn one is no cache) and the transcripts and
\* sessions are listed
Load(s) ==
  /\ scan[s].at = "idle"
  /\ scan' = [scan EXCEPT ![s] =
       [Idle EXCEPT !.at = "list", !.least = Real,
                    !.cached = IF cache.whole THEN cache.files ELSE NoFiles,
                    !.todo = {p \in {"claude", "sessions"} : IsFile(p)}]]
  /\ UNCHANGED <<logs, archived, spent, cache>>

\* The archive is listed last: a rollout on its way is in one list at least
ListArchived(s) ==
  /\ scan[s].at = "list"
  /\ scan' = [scan EXCEPT ![s].at = "stat",
                          ![s].todo = @ \cup {p \in {"archived_sessions"} : IsFile(p)}]
  /\ UNCHANGED <<logs, archived, spent, cache>>

Meta(path) == [path |-> path, size |-> Len(logs[Log(path)])]

\* The rows of a file under its path
Put(files, p, rows) == [q \in DOMAIN files \cup {p} |-> IF q = p THEN rows ELSE files[q]]

\* A listed file's size and time: gone, known, or to be read
Stat(s) ==
  /\ scan[s].at = "stat"
  /\ scan[s].todo # {}
  /\ LET p == CHOOSE q \in scan[s].todo : \A o \in scan[s].todo : Turn[q] <= Turn[o]
         c == [scan[s] EXCEPT !.todo = @ \ {p}]
         known == p \in DOMAIN c.cached /\ c.cached[p].size = Meta(p).size
     IN scan' = [scan EXCEPT ![s] =
          IF ~IsFile(p) THEN c
          ELSE IF known THEN [c EXCEPT !.files = Put(@, p, c.cached[p])]
          ELSE [c EXCEPT !.meta = Meta(p), !.at = "read"]]
  /\ UNCHANGED <<logs, archived, spent, cache>>

\* The size and time are taken after the lines are read, not before
ReadThenStat(s) ==
  /\ scan[s].at = "read"
  /\ LET p == scan[s].meta.path
         lines == IF IsFile(p) THEN logs[Log(p)] ELSE <<>>
     IN \E n \in 0 .. Len(lines) :
          scan' = [scan EXCEPT ![s].at = "stat", ![s].read = TRUE,
            ![s].files = Put(@, p, [size |-> Len(logs[Log(p)]),
                                    tokens |-> Tokens(p, SubSeq(lines, 1, n))])]
  /\ UNCHANGED <<logs, archived, spent, cache>>

\* The lines of the file, none when it moved away since, under the size and time
\* seen before
ReadLines(s) ==
  /\ scan[s].at = "read"
  /\ LET m == scan[s].meta
         lines == IF IsFile(m.path) THEN logs[Log(m.path)] ELSE <<>>
     IN scan' = [scan EXCEPT ![s].at = "stat", ![s].read = TRUE,
          ![s].files = Put(@, m.path, [size |-> m.size,
                                       tokens |-> Tokens(m.path, lines)])]
  /\ UNCHANGED <<logs, archived, spent, cache>>

Counted(files) == MapThenSumSet(LAMBDA p : files[p].tokens, DOMAIN files)

\* Nothing was read and no file is gone: the cache file stays
Unchanged(s) ==
  /\ scan[s].at = "stat" /\ scan[s].todo = {} /\ ~scan[s].read
  /\ Cardinality(DOMAIN scan[s].cached) = Cardinality(DOMAIN scan[s].files)
  /\ scan' = [scan EXCEPT ![s].at = "done", ![s].answer = Counted(scan[s].files)]
  /\ UNCHANGED <<logs, archived, spent, cache>>

\* fs::write truncates the cache file, then fills it
TruncateCache(s) ==
  /\ scan[s].at = "stat" /\ scan[s].todo = {}
  /\ \/ scan[s].read
     \/ Cardinality(DOMAIN scan[s].cached) # Cardinality(DOMAIN scan[s].files)
  /\ scan' = [scan EXCEPT ![s].at = "write"]
  /\ cache' = [whole |-> FALSE, files |-> NoFiles]
  /\ UNCHANGED <<logs, archived, spent>>

WriteCache(s) ==
  /\ scan[s].at = "write"
  /\ cache' = [whole |-> TRUE, files |-> scan[s].files]
  /\ scan' = [scan EXCEPT ![s].at = "done", ![s].answer = Counted(scan[s].files)]
  /\ UNCHANGED <<logs, archived, spent>>

UsageDone == (\A s \in Scans : scan[s].at = "done") /\ UNCHANGED uvars

UsageNext ==
  \/ ClaudeWrites \/ CodexTurn \/ CodexRepeats \/ Archive
  \/ \E s \in Scans : \/ Load(s) \/ ListArchived(s) \/ Stat(s) \/ ReadLines(s)
                      \/ Unchanged(s) \/ TruncateCache(s) \/ WriteCache(s)
  \/ UsageDone
UsageSpec == UsageInit /\ [][UsageNext]_uvars

\* "Logs are read again only when their size or time changed": an entry of the
\* cache file that passes for the log as it is counts that log exactly, though
\* logs grow and move while they are read and two scans write one cache
CacheIsTrue ==
  \A p \in DOMAIN cache.files :
    IsFile(p) /\ cache.files[p].size = Meta(p).size
    => cache.files[p].tokens = Tokens(p, logs[Log(p)])

\* A scan's answer is what was spent at some time while it ran: nothing counts
\* twice (a reply's blocks, an event codex repeats, a rollout in two folders),
\* and nothing is left out unless the rollout moved meanwhile
AnswerInRange ==
  \A s \in Scans : scan[s].at = "done" =>
    /\ scan[s].answer <= Real
    /\ ~scan[s].moved => scan[s].answer >= scan[s].least
============================================================================
