------------------------------- MODULE GetRss -------------------------------
(***************************************************************************)
(* static/coding/get_rss.c: one file per feed, its first line the feed's   *)
(* URL.  The main loop forks a process for every file of the directory;    *)
(* the process fetches the feed and rewrites the file.  It does not exit   *)
(* then: it returns into the loop and forks for the files that follow, its *)
(* copy of the directory stream being as far as its parent's was.          *)
(***************************************************************************)
EXTENDS Integers, FiniteSets

\* Definitions named <Action>_<Bug> are not part of the program: each is the
\* definition that follows it with a plausible slip, and a check must catch it.

CONSTANTS
  RssFiles,     \* number of files in the directory, in its order
  RssMaxRuns    \* bound: how often the program is started

ASSUME RssFilesAssumption == RssFiles \in Nat /\ RssMaxRuns \in Nat

Files == 1..RssFiles

\* A process forks at most once at each file, so it is named by the files its
\* ancestors and itself were forked for; the first process is {}.
Procs == SUBSET Files

VARIABLES
  rssDir,      \* the directory: there, absent, denied, or made and empty
  rssUrl,      \* per file: its first line, "url" or "empty", on the disk
  rssPc,       \* per process: label
  rssAt,       \* per process: the file it is at
  rssLine,     \* per process: the line it read, "url" or "empty"
  rssRuns,
  rssCut       \* history: files whose writer died with the line unwritten

rssVars == <<rssDir, rssUrl, rssPc, rssAt, rssLine, rssRuns, rssCut>>

RssInit ==
  /\ rssDir \in {"there", "absent", "denied"}
  /\ rssUrl = [f \in Files |-> "url"]
  /\ rssPc = [p \in Procs |-> "none"]
  /\ rssAt = [p \in Procs |-> 0] /\ rssLine = [p \in Procs |-> "url"]
  /\ rssRuns = 0 /\ rssCut = {}

Over(p) == rssPc[p] \in {"none", "ended", "died"}
AllOver == \A p \in Procs : Over(p)

\* main is started, again too, when nothing of the last run is left.
RssStart ==
  /\ AllOver /\ rssRuns < RssMaxRuns
  /\ rssRuns' = rssRuns + 1
  /\ rssPc' = [p \in Procs |-> IF p = {} THEN "opendir" ELSE "none"]
  /\ rssAt' = [p \in Procs |-> 0]
  /\ rssLine' = [p \in Procs |-> "url"]
  /\ UNCHANGED <<rssDir, rssUrl, rssCut>>

RssGoto(p, from, to) == rssPc[p] = from /\ rssPc' = [rssPc EXCEPT ![p] = to]

\* opendir; when the directory is not there it is made (or not, and the
\* program ends) and opened again.
Opendir(p) ==
  /\ \/ rssDir = "there" /\ RssGoto(p, "opendir", "loop") /\ UNCHANGED rssDir
     \/ rssDir = "empty" /\ RssGoto(p, "opendir", "loop") /\ UNCHANGED rssDir
     \/ rssDir = "absent" /\ RssGoto(p, "opendir", "opendir") /\ rssDir' = "empty"
     \/ rssDir \in {"absent", "denied"} /\ RssGoto(p, "opendir", "died") /\ UNCHANGED rssDir
  /\ UNCHANGED <<rssUrl, rssAt, rssLine, rssRuns, rssCut>>

\* readdir has another file.
MoreFiles(p) == rssDir = "there" /\ rssAt[p] < RssFiles

\* The next file: fork, and the parent goes on ...
Fork(p) ==
  /\ MoreFiles(p)
  /\ LET f == rssAt[p] + 1  child == p \cup {f} IN
     /\ rssPc[p] = "loop" /\ rssPc' = [rssPc EXCEPT ![child] = "read"]
     /\ rssAt' = [rssAt EXCEPT ![p] = f, ![child] = f]
  /\ UNCHANGED <<rssDir, rssUrl, rssLine, rssRuns, rssCut>>

\* ... or the fork fails and the loop is left.
ForkFails(p) ==
  /\ MoreFiles(p) /\ RssGoto(p, "loop", "ended")
  /\ UNCHANGED <<rssDir, rssUrl, rssAt, rssLine, rssRuns, rssCut>>

RssEnd(p) ==
  /\ ~MoreFiles(p) /\ RssGoto(p, "loop", "ended")
  /\ UNCHANGED <<rssDir, rssUrl, rssAt, rssLine, rssRuns, rssCut>>

\* The child reads the first line (of an empty file nothing, and line 92
\* then stores before the array).
ReadUrl(p) ==
  /\ RssGoto(p, "read", "fetch")
  /\ rssLine' = [rssLine EXCEPT ![p] = rssUrl[rssAt[p]]]
  /\ UNCHANGED <<rssDir, rssUrl, rssAt, rssRuns, rssCut>>

Fetch_UncheckedUrl(p) ==
  /\ \E to \in {"receive", "rewrite", "died"} : RssGoto(p, "fetch", to)
  /\ UNCHANGED <<rssDir, rssUrl, rssAt, rssLine, rssRuns, rssCut>>

\* get_rss up to select.  A line without "http://" is a null pointer that is
\* followed; a name that is not found and a socket or a connection that fails end
\* the process too.  The server begins to answer within five seconds, or nothing is
\* read (and a channel without a title in what the buffer holds is fatal).
Fetch(p) ==
  /\ \/ rssLine[p] = "url" /\ \E to \in {"receive", "rewrite"} : RssGoto(p, "fetch", to)
     \/ RssGoto(p, "fetch", "died")
  /\ UNCHANGED <<rssDir, rssUrl, rssAt, rssLine, rssRuns, rssCut>>

\* The loop that reads the answer, 164-180: it is left when the server closes the
\* connection or the buffer is full.  The request asks for the connection to be kept
\* and no time is set for these reads, so a silent server keeps the process here.
Receive(p) ==
  /\ \E to \in {"rewrite", "died"} : RssGoto(p, "receive", to)
  /\ UNCHANGED <<rssDir, rssUrl, rssAt, rssLine, rssRuns, rssCut>>

\* fopen(.., "wb+") empties the file ...
Rewrite(p) ==
  /\ RssGoto(p, "rewrite", "write")
  /\ rssUrl' = [rssUrl EXCEPT ![rssAt[p]] = "empty"]
  /\ UNCHANGED <<rssDir, rssAt, rssLine, rssRuns, rssCut>>

\* ... the line reaches the disk when the buffer is full or at the latest when the
\* file is closed, and the process goes on in main's loop.
WriteUrl(p) ==
  /\ RssGoto(p, "write", "items") \/ RssGoto(p, "write", "loop")
  /\ rssUrl' = [rssUrl EXCEPT ![rssAt[p]] = rssLine[p]]
  /\ UNCHANGED <<rssDir, rssAt, rssLine, rssRuns, rssCut>>

WriteItems(p) ==
  /\ RssGoto(p, "items", "loop")
  /\ UNCHANGED <<rssDir, rssUrl, rssAt, rssLine, rssRuns, rssCut>>

\* A process dies at any point: it is killed, or an item without a title, a
\* link or an end (185-195) is a null pointer that is followed.
Dies(p) ==
  /\ ~Over(p)
  /\ rssPc' = [rssPc EXCEPT ![p] = "died"]
  /\ rssCut' = IF rssPc[p] = "write" THEN rssCut \cup {rssAt[p]} ELSE rssCut
  /\ UNCHANGED <<rssDir, rssUrl, rssAt, rssLine, rssRuns>>

\* What a process does by itself: all but Receive, which waits for the server.
RssWork(p) ==
  \/ Opendir(p) \/ Fork(p) \/ ForkFails(p) \/ RssEnd(p) \/ ReadUrl(p)
  \/ Fetch(p) \/ Rewrite(p) \/ WriteUrl(p) \/ WriteItems(p)
RssNext == RssStart \/ \E p \in Procs : RssWork(p) \/ Receive(p) \/ Dies(p)
RssSpec == RssInit /\ [][RssNext]_rssVars

RssTypeOK ==
  /\ rssDir \in {"there", "absent", "denied", "empty"}
  /\ rssUrl \in [Files -> {"url", "empty"}]
  /\ rssPc \in [Procs -> {"none", "opendir", "loop", "read", "fetch", "receive", "rewrite",
                          "write", "items", "ended", "died"}]
  /\ rssAt \in [Procs -> 0..RssFiles] /\ rssLine \in [Procs -> {"url", "empty"}]
  /\ rssRuns \in 0..RssMaxRuns /\ rssCut \subseteq Files

\* Several processes may rewrite one file at a time, one may read what
\* another has just emptied, and any may die: still a file is without its URL
\* only while one of them is about to write it (181-203) or because one died there.
UrlKept ==
  \A f \in Files : rssUrl[f] = "empty" =>
    f \in rssCut \/ \E p \in Procs : rssPc[p] = "write" /\ rssAt[p] = f

\* A process reads an empty line, and stores before its array (92), only
\* where several processes share a file: the directory's first file has one
\* process in a run, which finds its URL unless an earlier writer died.
FirstFileWhole == \A p \in Procs : p = {1} /\ rssLine[p] = "empty" => 1 \in rssCut

\* Both: what is on the disk and what is read from it is whole, but for deaths.
RssSound == UrlKept /\ FirstFileWhole

\* Whatever the forks, failures and deaths, the program comes to an end, but for
\* processes that a silent server keeps in the loop of line 166.
RssEnds == []<>(\A p \in Procs : Over(p) \/ rssPc[p] = "receive")
=============================================================================
