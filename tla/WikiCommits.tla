---------------------------- MODULE WikiCommits ----------------------------
(****************************************************************************)
(* Commits of wiki pages (internal/gitutil/commit.go): calls of wiki_write  *)
(* and wiki_delete stage and commit their page, an ingest run moves and     *)
(* writes pages and commits the whole tree once, unless it ended with an    *)
(* error or digested nothing (internal/mcp/tools.go, cmd/cogvault/ingest.go).*)
(* Commits are best effort: a call whose commit fails only logs it.         *)
(*                                                                          *)
(* git add and git commit hold .git/index.lock while they run, so at most   *)
(* one git runs and one that finds the lock taken fails at once. commit     *)
(* commits whatever is staged. The lock file of cogvault is held by the     *)
(* process and not by the git it started: a git outlives a killed process.  *)
(****************************************************************************)
EXTENDS Naturals, FiniteSets

CONSTANTS
  Pages,
  Calls,      \* concurrent tool calls of the server
  Ingest,     \* the ingest run, a process of its own
  AutoCommit, \* git.auto_commit of the configuration
  MaxVersion, \* bound of the model: versions of a page
  MaxFaults,  \* bound of the model: timeouts and killed processes
  None

ASSUME WikiCommitsAssumption ==
  /\ Ingest \notin Calls
  /\ AutoCommit \in {"off", "write", "write+ingest"}
  /\ MaxVersion \in Nat \ {0}
  /\ MaxFaults \in Nat
  /\ None \notin Calls \cup {Ingest}

VARIABLES
  work,   \* page on disk: its version, 0, or Torn
  latest, \* versions the page has had
  staged, \* page in the git index
  head,   \* page in the last commit
  lock,   \* who holds cogvault's lock file
  git,    \* the git that holds .git/index.lock, or what is left of it
  call,   \* calls and the ingest run
  cut,    \* pages whose change was in a commit that was cut short
  left,   \* pages an ingest run changed and ended without a commit
  faults

vars == <<work, latest, staged, head, lock, git, call, cut, left, faults>>

-----------------------------------------------------------------------------
Callers == Calls \cup {Ingest}

(* A page is truncated, then written: in between it is of no version.        *)
Torn    == MaxVersion + 1
Content == 0 .. Torn

IdleCall == [at |-> "idle", pages |-> {}, page |-> None, version |-> 0, digested |-> 0]

NoGit   == [by |-> None, op |-> "none", paths |-> {}]
LeftBehind == [by |-> None, op |-> "left", paths |-> {}]
Orphan(g) == [g EXCEPT !.by = None]

CommitsOnWrite_Exact == AutoCommit = "write"

CommitsOnWrite  == AutoCommit \in {"write", "write+ingest"}
CommitsOnIngest == AutoCommit = "write+ingest"

Fault == faults < MaxFaults /\ faults' = faults + 1

(* The pathspecs of a commit: the page of a tool call, or the whole tree.    *)
Pathspecs(c) == IF c = Ingest THEN Pages ELSE call[c].pages

TypeOK ==
  /\ {work, staged, head, latest} \subseteq [Pages -> Content]
  /\ lock \in Callers \cup {None}
  /\ git \in [by : Callers \cup {None}, op : {"none", "add", "commit", "left"},
              paths : SUBSET Pages]
  /\ call \in [Callers -> [at : {"idle", "write", "run", "lock", "add", "commit", "git"},
                           pages : SUBSET Pages, page : Pages \cup {None},
                           version : 0 .. MaxVersion, digested : 0 .. 1]]
  /\ cut \subseteq Pages /\ left \subseteq Pages
  /\ faults \in 0 .. MaxFaults

Init ==
  /\ latest \in [Pages -> {0, 1}]
  /\ work = latest
  /\ head = latest
  /\ staged = head
  /\ lock = None
  /\ git = NoGit
  /\ call = [c \in Callers |-> IdleCall]
  /\ cut = {}
  /\ left = {}
  /\ faults = 0

-----------------------------------------------------------------------------
(* Changes of pages. Writes of one process exclude each other.               *)

StartWrite(c, p) ==
  /\ call[c].at = "idle" \/ call[c].at = "run"
  /\ latest[p] < MaxVersion
  /\ c \in Calls => \A d \in Calls : call[d].at # "write"
  /\ work' = [work EXCEPT ![p] = Torn]
  /\ latest' = [latest EXCEPT ![p] = @ + 1]
  /\ call' = [call EXCEPT ![c] = [@ EXCEPT !.at = "write", !.page = p,
                    !.pages = call[c].pages \cup {p}, !.version = latest[p] + 1]]
  /\ cut' = cut \ {p}
  /\ left' = left \ {p}
  /\ UNCHANGED <<staged, head, lock, git, faults>>

FinishWrite(c) ==
  /\ c \in Calls
  /\ call[c].at = "write"
  /\ work' = [work EXCEPT ![call[c].page] = call[c].version]
  /\ call' = [call EXCEPT ![c] =
       IF CommitsOnWrite THEN [@ EXCEPT !.at = "lock", !.page = None, !.version = 0] ELSE IdleCall]
  /\ UNCHANGED <<latest, staged, head, lock, git, cut, left, faults>>

(* A page of the ingest run counts as digested only when the index and the   *)
(* ledger took it too.                                                      *)
FinishPage(c) ==
  /\ c = Ingest
  /\ call[c].at = "write"
  /\ work' = [work EXCEPT ![call[c].page] = call[c].version]
  /\ \E counted \in {1, call[c].digested} :
       call' = [call EXCEPT ![c] = [@ EXCEPT !.at = "run", !.page = None, !.version = 0,
                                             !.digested = counted]]
  /\ UNCHANGED <<latest, staged, head, lock, git, cut, left, faults>>

(* The sweep moves the page of a source that is gone, before any digest.     *)
Sweep(c, p) ==
  /\ c = Ingest
  /\ call[c].at = "idle"
  /\ work[p] # 0
  /\ work' = [work EXCEPT ![p] = 0]
  /\ call' = [call EXCEPT ![c] = [IdleCall EXCEPT !.at = "run", !.pages = {p}]]
  /\ cut' = cut \ {p}
  /\ left' = left \ {p}
  /\ UNCHANGED <<latest, staged, head, lock, git, faults>>

(* Run returns. An error may come after pages were digested.                 *)
EndRun(c) ==
  /\ call[c].at = "run"
  /\ \/ /\ CommitsOnIngest /\ call[c].digested > 0
        /\ call' = [call EXCEPT ![c].at = "lock"]
        /\ UNCHANGED left
     \/ /\ left' = left \cup call[c].pages
        /\ call' = [call EXCEPT ![c] = IdleCall]
  /\ UNCHANGED <<work, latest, staged, head, lock, git, cut, faults>>

Delete(c, p) ==
  /\ c \in Calls
  /\ call[c].at = "idle"
  /\ \A d \in Calls : call[d].at # "write"
  /\ work[p] # 0
  /\ work' = [work EXCEPT ![p] = 0]
  /\ call' = [call EXCEPT ![c] = [IdleCall EXCEPT !.at = "lock", !.pages = {p}]]
  /\ cut' = cut \ {p}
  /\ left' = left \ {p}
  /\ UNCHANGED <<latest, staged, head, lock, git, faults>>

-----------------------------------------------------------------------------
(* Commit: lock, git add, git commit, each with its own time.                *)

(* The commit ends here without its pages: the caller logs it and goes on.   *)
Drop(c) ==
  /\ cut' = cut \cup call[c].pages
  /\ call' = [call EXCEPT ![c] = IdleCall]

lockRepo_Shared(c) ==
  /\ call[c].at = "lock"
  /\ lock' = c
  /\ call' = [call EXCEPT ![c].at = "add"]
  /\ UNCHANGED <<work, latest, staged, head, git, cut, left, faults>>

lockRepo(c) ==
  /\ call[c].at = "lock"
  /\ lock = None
  /\ lock' = c
  /\ call' = [call EXCEPT ![c].at = "add"]
  /\ UNCHANGED <<work, latest, staged, head, git, cut, left, faults>>

LockTimeout(c) ==
  /\ call[c].at = "lock"
  /\ lock # None
  /\ Fault
  /\ Drop(c)
  /\ UNCHANGED <<work, latest, staged, head, lock, git, left>>

StartGit(c, op) ==
  /\ call[c].at = op
  /\ git = NoGit
  /\ git' = [by |-> c, op |-> op, paths |-> Pathspecs(c)]
  /\ call' = [call EXCEPT ![c].at = "git"]
  /\ UNCHANGED <<work, latest, staged, head, lock, cut, left, faults>>

(* index.lock is there already: git fails and so does the commit.            *)
GitIsLockedOut(c, op) ==
  /\ call[c].at = op
  /\ git # NoGit
  /\ Drop(c)
  /\ lock' = None
  /\ UNCHANGED <<work, latest, staged, head, git, left, faults>>

(* git add of a path that is neither on disk nor tracked matches nothing and *)
(* fails; so it does when an earlier git staged the deletion and did not get *)
(* to commit it.                                                             *)
NoMatch == \E p \in Pages : git.paths = {p} /\ work[p] = 0 /\ staged[p] = 0

Owner(g) == git.by = g /\ g # None

FinishAdd ==
  /\ git.op = "add"
  /\ staged' = [p \in Pages |-> IF p \in git.paths THEN work[p] ELSE staged[p]]
  /\ git' = NoGit
  /\ \/ /\ git.by = None
        /\ UNCHANGED <<call, lock, cut>>
     \/ \E c \in Callers :
          /\ Owner(c)
          /\ call' = [call EXCEPT ![c] = IF NoMatch THEN IdleCall ELSE [@ EXCEPT !.at = "commit"]]
          /\ lock' = IF NoMatch THEN None ELSE lock
          /\ cut' = cut \cup IF NoMatch THEN {p \in git.paths : head[p] # work[p]} ELSE {}
  /\ UNCHANGED <<work, latest, head, left, faults>>

(* With nothing staged git commit fails too, and nothing is lost.            *)
FinishCommit ==
  /\ git.op = "commit"
  /\ head' = staged
  /\ git' = NoGit
  /\ \/ git.by = None /\ UNCHANGED <<call, lock>>
     \/ \E c \in Callers : /\ Owner(c)
                           /\ call' = [call EXCEPT ![c] = IdleCall]
                           /\ lock' = None
  /\ UNCHANGED <<work, latest, staged, cut, left, faults>>

(* Out of time: SIGTERM, upon which git removes index.lock; SIGKILL if it    *)
(* is still there after the grace, and then the lock stays.                  *)
AfterTimeout == {NoGit, LeftBehind}

GitTimeout(c) ==
  /\ Owner(c)
  /\ Fault
  /\ git' \in AfterTimeout
  /\ Drop(c)
  /\ lock' = None
  /\ UNCHANGED <<work, latest, staged, head, left>>

(* The server or the ingest run is killed, its git is not. The lock file is  *)
(* let go with the process.                                                  *)
Kill(dead) ==
  /\ Fault
  /\ \E c \in dead : call[c].at # "idle"
  /\ cut' = cut \cup UNION {call[c].pages : c \in dead}
  /\ call' = [c \in Callers |-> IF c \in dead THEN IdleCall ELSE call[c]]
  /\ lock' = IF lock \in dead THEN None ELSE lock
  /\ git' = IF git.by \in dead THEN Orphan(git) ELSE git
  /\ UNCHANGED <<work, latest, staged, head, left>>

CallStep(c) ==
  \/ FinishWrite(c) \/ FinishPage(c) \/ EndRun(c) \/ lockRepo(c)
  \/ \E op \in {"add", "commit"} : StartGit(c, op) \/ GitIsLockedOut(c, op)

GitStep == FinishAdd \/ FinishCommit

Next ==
  \/ \E c \in Callers : \/ \E p \in Pages : StartWrite(c, p) \/ Delete(c, p) \/ Sweep(c, p)
                        \/ CallStep(c) \/ LockTimeout(c) \/ GitTimeout(c)
  \/ GitStep
  \/ Kill(Calls) \/ Kill({Ingest})

Spec == Init /\ [][Next]_vars

(* A waiter tries the lock every 20 ms until its time is up, and the others  *)
(* end: a call is not passed over for ever. Every git ends.                  *)
FairSpec ==
  /\ Spec
  /\ \A c \in Callers : SF_vars(CallStep(c))
  /\ WF_vars(GitStep)

-----------------------------------------------------------------------------
(* Calls and ingest runs that commit at the same time do not cost each other *)
(* a commit: one is cut short only by time running out or a killed process,  *)
(* the loss the lock file is there to prevent ("a best-effort failure that   *)
(* silently drops a commit the safety net exists to guarantee").             *)
CutOnlyByFaults == cut # {} => faults > 0

(* A change ends up in a commit unless its own commit was cut short or the   *)
(* ingest run that made it ended without one, whatever happened to the       *)
(* commits of other pages before and after it, and also when a git that was  *)
(* killed left .git/index.lock behind and every later commit fails on it.    *)
CommittedUnlessCut == <>[](\A p \in Pages : head[p] = work[p] \/ p \in cut \cup left)
=============================================================================
