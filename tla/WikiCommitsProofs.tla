--------------------------- MODULE WikiCommitsProofs ---------------------------
(****************************************************************************)
(* Theorems about WikiCommits for any pages, callers and settings: as long  *)
(* as nothing times out and nothing is killed, the lock file keeps every    *)
(* commit from being cut short by another one.                              *)
(****************************************************************************)
EXTENDS WikiCommits, TLAPS

Holding(c) == call[c].at \in {"add", "commit", "git"}

(* What one caller staged and has not committed.                            *)
Staging == git.op = "commit" \/ \E c \in Callers : call[c].at = "commit"

(* Without a fault: who works on the repository holds the lock, a git that    *)
(* runs is the holder's, and the index differs from the last commit only     *)
(* between the holder's add and its commit.                                 *)
Orderly ==
  /\ cut = {}
  /\ \A c \in Callers : Holding(c) => lock = c
  /\ git # NoGit => /\ git.by \in Callers /\ call[git.by].at = "git"
                    /\ git.op \in {"add", "commit"}
  /\ Staging \/ staged = head

CommitInv == TypeOK /\ (faults = 0 => Orderly)

-----------------------------------------------------------------------------
(* The types.                                                               *)

Call == [at : {"idle", "write", "run", "lock", "add", "commit", "git"},
         pages : SUBSET Pages, page : Pages \cup {None}, version : 0 .. MaxVersion,
         digested : 0 .. 1]

Git == [by : Callers \cup {None}, op : {"none", "add", "commit", "left"}, paths : SUBSET Pages]

LEMMA Typed ==
  TypeOK <=> /\ work \in [Pages -> Content] /\ staged \in [Pages -> Content]
             /\ head \in [Pages -> Content] /\ latest \in [Pages -> Content]
             /\ lock \in Callers \cup {None}
             /\ git \in Git
             /\ call \in [Callers -> Call]
             /\ cut \subseteq Pages /\ left \subseteq Pages
             /\ faults \in 0 .. MaxFaults
BY DEF TypeOK, Call, Git

LEMMA Versions ==
  /\ MaxVersion \in Nat /\ 0 < MaxVersion /\ MaxFaults \in Nat
  /\ Torn \in Content /\ 0 \in Content /\ 0 .. MaxVersion \subseteq Content
  /\ \A v \in Content : v < MaxVersion => v + 1 \in Content /\ v + 1 \in 0 .. MaxVersion
BY WikiCommitsAssumption DEF Torn, Content

LEMMA NoGitIsTyped == NoGit \in Git /\ LeftBehind \in Git
BY DEF NoGit, LeftBehind, Git

LEMMA IdleIsTyped == IdleCall \in Call
BY Versions DEF IdleCall, Call

LEMMA InitCommits == Init => CommitInv
<1> SUFFICES ASSUME Init PROVE CommitInv  OBVIOUS
<1>1. latest \in [Pages -> Content]
  <2>1. {0, 1} \subseteq Content  BY Versions
  <2>2. QED BY <2>1 DEF Init
<1>2. TypeOK
  BY <1>1, Typed, Versions, NoGitIsTyped, IdleIsTyped DEF Init
<1>3. Orderly
  BY DEF Init, Orderly, Holding, IdleCall, NoGit
<1>4. QED BY <1>2, <1>3 DEF CommitInv

(* A call that changes its place only keeps its type.                        *)
LEMMA Placed ==
  ASSUME NEW old \in Call, NEW at \in {"idle", "write", "run", "lock", "add", "commit", "git"}
  PROVE  [old EXCEPT !.at = at] \in Call /\ [old EXCEPT !.at = at].at = at
BY DEF Call

LEMMA Renewed ==
  ASSUME NEW old \in Call, NEW at \in {"idle", "write", "run", "lock", "add", "commit", "git"},
         NEW pages \in SUBSET Pages, NEW page \in Pages \cup {None}, NEW version \in 0 .. MaxVersion
  PROVE  /\ [old EXCEPT !.at = at, !.page = page, !.version = version] \in Call
         /\ [old EXCEPT !.at = at, !.page = page, !.pages = pages, !.version = version] \in Call
BY DEF Call

LEMMA Counted ==
  ASSUME NEW old \in Call, NEW at \in {"idle", "write", "run", "lock", "add", "commit", "git"},
         NEW page \in Pages \cup {None}, NEW version \in 0 .. MaxVersion, NEW counted \in 0 .. 1
  PROVE  [old EXCEPT !.at = at, !.page = page, !.version = version, !.digested = counted] \in Call
BY DEF Call

LEMMA FaultsTyped ==
  ASSUME TypeOK, Fault
  PROVE  faults' \in 0 .. MaxFaults /\ faults' > 0
BY Versions DEF TypeOK, Fault

LEMMA CommitTypes ==
  ASSUME TypeOK, [Next]_vars
  PROVE  TypeOK'
<1> USE Versions, NoGitIsTyped, IdleIsTyped
<1>1. /\ work \in [Pages -> Content] /\ staged \in [Pages -> Content]
      /\ head \in [Pages -> Content] /\ latest \in [Pages -> Content]
      /\ lock \in Callers \cup {None} /\ git \in Git
      /\ call \in [Callers -> Call] /\ cut \subseteq Pages /\ left \subseteq Pages
      /\ faults \in 0 .. MaxFaults
  BY Typed
<1>2. /\ work' \in [Pages -> Content] /\ staged' \in [Pages -> Content]
      /\ head' \in [Pages -> Content] /\ latest' \in [Pages -> Content]
      /\ lock' \in Callers \cup {None} /\ git' \in Git
      /\ call' \in [Callers -> Call] /\ cut' \subseteq Pages /\ left' \subseteq Pages
      /\ faults' \in 0 .. MaxFaults
      => TypeOK'
  BY DEF TypeOK, Call, Git
<1>3. \A c \in Callers : call[c] \in Call /\ call[c].pages \subseteq Pages
                        /\ call[c].page \in Pages \cup {None} /\ call[c].version \in Content
  BY <1>1 DEF Call
<1>4. \A c \in Callers, at \in {"idle", "write", "run", "lock", "add", "commit", "git"} :
        [call EXCEPT ![c].at = at] \in [Callers -> Call]
  <2>1. SUFFICES ASSUME NEW c \in Callers,
                        NEW at \in {"idle", "write", "run", "lock", "add", "commit", "git"}
                 PROVE  [call EXCEPT ![c] = [call[c] EXCEPT !.at = at]] \in [Callers -> Call]
    OBVIOUS
  <2>2. [call[c] EXCEPT !.at = at] \in Call  BY <1>3, Placed
  <2>3. QED BY <1>1, <2>2
<1>5. \A c \in Callers : [call EXCEPT ![c] = IdleCall] \in [Callers -> Call]  BY <1>1
<1>6. ASSUME NEW c \in Callers, NEW p \in Pages, StartWrite(c, p)
      PROVE  TypeOK'
  <2>1. latest[p] + 1 \in Content /\ latest[p] + 1 \in 0 .. MaxVersion
    BY <1>1, <1>6 DEF StartWrite
  <2>a. PICK pages, version : pages = call[c].pages \cup {p} /\ version = latest[p] + 1
    OBVIOUS
  <2>2. PICK new : new = [call[c] EXCEPT !.at = "write", !.page = p, !.pages = pages,
                                         !.version = version]
    OBVIOUS
  <2>3. new \in Call
    <3>1. call[c] \in Call /\ pages \in SUBSET Pages /\ version \in 0 .. MaxVersion
      BY <1>3, <2>1, <2>a
    <3>2. QED BY <2>2, <3>1, Renewed
  <2>4. call' = [call EXCEPT ![c] = new]  BY <1>1, <1>6, <2>2, <2>a DEF StartWrite
  <2>5. call' \in [Callers -> Call]  BY <1>1, <2>3, <2>4
  <2>6. work' \in [Pages -> Content] /\ latest' \in [Pages -> Content]
    BY <1>1, <1>6, <2>1 DEF StartWrite
  <2>7. QED BY <1>1, <1>2, <1>6, <2>5, <2>6 DEF StartWrite
<1>7. ASSUME NEW c \in Callers, FinishWrite(c)
      PROVE  TypeOK'
  <2>1. PICK waiting : waiting = [call[c] EXCEPT !.at = "lock", !.page = None, !.version = 0]
    OBVIOUS
  <2>2. waiting \in Call
    <3>1. call[c] \in Call /\ None \in Pages \cup {None} /\ 0 \in 0 .. MaxVersion  BY <1>3
    <3>2. call[c].pages \in SUBSET Pages  BY <1>3
    <3>3. QED BY <2>1, <3>1, <3>2, Renewed
  <2>3. call' = [call EXCEPT ![c] = waiting] \/ call' = [call EXCEPT ![c] = IdleCall]
    BY <1>7, <2>1 DEF FinishWrite
  <2>4. call' \in [Callers -> Call]  BY <1>1, <2>2, <2>3
  <2>5. work' \in [Pages -> Content]  BY <1>1, <1>3, <1>7 DEF FinishWrite
  <2>6. QED BY <1>1, <1>2, <1>7, <2>4, <2>5 DEF FinishWrite
<1>8. ASSUME NEW c \in Callers, NEW p \in Pages, Delete(c, p)
      PROVE  TypeOK'
  <2>1. PICK new : new = [IdleCall EXCEPT !.at = "lock", !.pages = {p}]  OBVIOUS
  <2>2. new \in Call  BY <2>1 DEF Call, IdleCall
  <2>3. call' = [call EXCEPT ![c] = new]  BY <1>8, <2>1 DEF Delete
  <2>4. QED BY <1>1, <1>2, <1>8, <2>2, <2>3 DEF Delete
<1>8a. ASSUME NEW c \in Callers, FinishPage(c)
       PROVE  TypeOK'
  <2>1. PICK counted \in {1, call[c].digested} :
          call' = [call EXCEPT ![c] = [@ EXCEPT !.at = "run", !.page = None, !.version = 0,
                                                !.digested = counted]]
    BY <1>8a DEF FinishPage
  <2>2. PICK new : new = [call[c] EXCEPT !.at = "run", !.page = None, !.version = 0,
                                         !.digested = counted]
    OBVIOUS
  <2>3. new \in Call
    <3>1. call[c] \in Call /\ None \in Pages \cup {None} /\ 0 \in 0 .. MaxVersion  BY <1>3
    <3>2. counted \in 0 .. 1  BY <3>1 DEF Call
    <3>3. QED BY <2>2, <3>1, <3>2, Counted
  <2>4. call' \in [Callers -> Call]
    <3>1. call' = [call EXCEPT ![c] = new]  BY <1>1, <2>1, <2>2
    <3>2. QED BY <1>1, <2>3, <3>1
  <2>5. work' \in [Pages -> Content]  BY <1>1, <1>3, <1>8a DEF FinishPage
  <2>6. UNCHANGED <<latest, staged, head, lock, git, cut, left, faults>>  BY <1>8a DEF FinishPage
  <2>7. QED BY <1>1, <1>2, <2>4, <2>5, <2>6
<1>8b. ASSUME NEW c \in Callers, NEW p \in Pages, Sweep(c, p)
       PROVE  TypeOK'
  <2>1. PICK new : new = [IdleCall EXCEPT !.at = "run", !.pages = {p}]  OBVIOUS
  <2>2. new \in Call  BY <2>1 DEF Call, IdleCall
  <2>3. call' = [call EXCEPT ![c] = new]  BY <1>8b, <2>1 DEF Sweep
  <2>4. QED BY <1>1, <1>2, <1>8b, <2>2, <2>3 DEF Sweep
<1>8c. ASSUME NEW c \in Callers, EndRun(c)
       PROVE  TypeOK'
  <2>1. call' \in [Callers -> Call]
    <3>1. call' = [call EXCEPT ![c].at = "lock"] \/ call' = [call EXCEPT ![c] = IdleCall]
      BY <1>8c DEF EndRun
    <3>2. CASE call' = [call EXCEPT ![c].at = "lock"]  BY <1>4, <3>2
    <3>3. CASE call' = [call EXCEPT ![c] = IdleCall]  BY <1>5, <3>3
    <3>4. QED BY <3>1, <3>2, <3>3
  <2>2. left' \subseteq Pages  BY <1>1, <1>3, <1>8c DEF EndRun
  <2>3. QED BY <1>1, <1>2, <1>8c, <2>1, <2>2 DEF EndRun
<1>9. ASSUME NEW c \in Callers, lockRepo(c)
      PROVE  TypeOK'
  <2>1. call' \in [Callers -> Call]  BY <1>4, <1>9 DEF lockRepo
  <2>2. QED BY <1>1, <1>2, <1>9, <2>1 DEF lockRepo
<1>10. ASSUME NEW c \in Callers, LockTimeout(c)
       PROVE  TypeOK'
  BY <1>1, <1>2, <1>3, <1>5, <1>10, FaultsTyped DEF LockTimeout, Drop
<1>11. ASSUME NEW c \in Callers, NEW op \in {"add", "commit"}, StartGit(c, op)
       PROVE  TypeOK'
  <2>1. call' \in [Callers -> Call]  BY <1>4, <1>11 DEF StartGit
  <2>2. Pathspecs(c) \subseteq Pages  BY <1>3 DEF Pathspecs
  <2>3. git' \in Git  BY <1>11, <2>2 DEF StartGit, Git
  <2>4. QED BY <1>1, <1>2, <1>11, <2>1, <2>3 DEF StartGit
<1>12. ASSUME NEW c \in Callers, NEW op \in {"add", "commit"}, GitIsLockedOut(c, op)
       PROVE  TypeOK'
  BY <1>1, <1>2, <1>3, <1>5, <1>12 DEF GitIsLockedOut, Drop
<1>13. CASE FinishAdd
  <2>1. git.paths \subseteq Pages  BY <1>1 DEF Git
  <2>2. staged' \in [Pages -> Content]  BY <1>1, <1>13 DEF FinishAdd
  <2>3. CASE git.by = None /\ UNCHANGED <<call, lock, cut>>
    BY <1>1, <1>2, <1>13, <2>2, <2>3 DEF FinishAdd
  <2>4. ASSUME NEW c \in Callers,
               call' = [call EXCEPT ![c] = IF NoMatch THEN IdleCall ELSE [@ EXCEPT !.at = "commit"]],
               lock' = IF NoMatch THEN None ELSE lock,
               cut' = cut \cup IF NoMatch THEN {p \in git.paths : head[p] # work[p]} ELSE {}
        PROVE  TypeOK'
    <3>1. call' \in [Callers -> Call]
      <4>1. CASE NoMatch  BY <1>5, <2>4, <4>1
      <4>2. CASE ~NoMatch
        <5>1. call' = [call EXCEPT ![c].at = "commit"]  BY <2>4, <4>2
        <5>2. QED BY <1>4, <5>1
      <4>3. QED BY <4>1, <4>2
    <3>2. cut' \subseteq Pages  BY <1>1, <2>1, <2>4
    <3>3. QED BY <1>1, <1>2, <1>13, <2>2, <2>4, <3>1, <3>2 DEF FinishAdd
  <2>5. QED BY <1>13, <2>3, <2>4 DEF FinishAdd
<1>14. CASE FinishCommit
  <2>1. call' \in [Callers -> Call]  BY <1>1, <1>5, <1>14 DEF FinishCommit
  <2>2. QED BY <1>1, <1>2, <1>14, <2>1 DEF FinishCommit
<1>15. ASSUME NEW c \in Callers, GitTimeout(c)
       PROVE  TypeOK'
  <2>1. git' \in Git  BY <1>15 DEF GitTimeout, AfterTimeout
  <2>2. QED BY <1>1, <1>2, <1>3, <1>5, <1>15, <2>1, FaultsTyped DEF GitTimeout, Drop
<1>16. ASSUME NEW dead \in SUBSET Callers, Kill(dead)
       PROVE  TypeOK'
  <2>1. call' \in [Callers -> Call]  BY <1>1, <1>16 DEF Kill
  <2>2. git' \in Git  BY <1>1, <1>16 DEF Kill, Orphan, Git
  <2>3. UNION {call[c].pages : c \in dead} \subseteq Pages  BY <1>3
  <2>4. QED BY <1>1, <1>2, <1>16, <2>1, <2>2, <2>3, FaultsTyped DEF Kill
<1>17. CASE UNCHANGED vars  BY <1>1, <1>2, <1>17 DEF vars
<1>18. Calls \subseteq Callers /\ {Ingest} \subseteq Callers  BY DEF Callers
<1>19. QED
  BY <1>6, <1>7, <1>8, <1>8a, <1>8b, <1>8c, <1>9, <1>10, <1>11, <1>12, <1>13, <1>14, <1>15,
     <1>16, <1>17, <1>18
  DEF Next, CallStep, GitStep

-----------------------------------------------------------------------------
(* The order.                                                               *)

(* A step that changes one call, which neither works on the repository before *)
(* nor after it, keeps the order.                                           *)
LEMMA OtherCallsKeepOrder ==
  ASSUME TypeOK, Orderly, NEW c \in Callers, NEW new, ~Holding(c),
         call' = [call EXCEPT ![c] = new], new.at \notin {"add", "commit", "git"},
         UNCHANGED <<lock, git, staged, head>>, cut' \subseteq cut
  PROVE  Orderly'
<1>1. call \in [Callers -> Call]  BY Typed
<1>2. \A d \in Callers : d # c => call'[d] = call[d]  BY <1>1
<1>3. call'[c] = new  BY <1>1
<1>4. \A d \in Callers : Holding(d)' <=> Holding(d)  BY <1>2, <1>3 DEF Holding
<1>5. git # NoGit => git.by # c  BY DEF Orderly, Holding
<1>6. Staging => Staging'  BY <1>2 DEF Staging, Holding
<1>7. QED BY <1>2, <1>4, <1>5, <1>6 DEF Orderly

(* Of two that hold the lock one is the other.                               *)
LEMMA OrderKept ==
  ASSUME TypeOK, Orderly, Next, faults' = 0
  PROVE  Orderly'
<1>1. call \in [Callers -> Call] /\ faults \in Nat /\ git \in Git  BY Versions, Typed
<1>2. ~Fault  BY <1>1 DEF Fault
<1>3. None \notin Callers  BY WikiCommitsAssumption DEF Callers
<1>4. ASSUME NEW c \in Callers, NEW p \in Pages, StartWrite(c, p)
      PROVE  Orderly'
  <2>1. PICK pages, version, new :
          /\ pages = call[c].pages \cup {p} /\ version = latest[p] + 1
          /\ new = [call[c] EXCEPT !.at = "write", !.page = p, !.pages = pages,
                                   !.version = version]
    OBVIOUS
  <2>2. new.at = "write"  BY <1>1, <2>1 DEF Call
  <2>3. call' = [call EXCEPT ![c] = new]  BY <1>1, <1>4, <2>1 DEF StartWrite
  <2>4. ~Holding(c)  BY <1>4 DEF StartWrite, Holding
  <2>5. UNCHANGED <<lock, git, staged, head>> /\ cut' \subseteq cut  BY <1>4 DEF StartWrite
  <2>6. QED BY <2>2, <2>3, <2>4, <2>5, OtherCallsKeepOrder
<1>5. ASSUME NEW c \in Callers, FinishWrite(c)
      PROVE  Orderly'
  <2>1. PICK waiting : waiting = [call[c] EXCEPT !.at = "lock", !.page = None, !.version = 0]
    OBVIOUS
  <2>2. waiting.at = "lock" /\ IdleCall.at = "idle"  BY <1>1, <2>1 DEF Call, IdleCall
  <2>3. PICK new : call' = [call EXCEPT ![c] = new] /\ new.at \notin {"add", "commit", "git"}
    BY <1>5, <2>1, <2>2 DEF FinishWrite
  <2>4. ~Holding(c)  BY <1>5 DEF FinishWrite, Holding
  <2>5. UNCHANGED <<lock, git, staged, head>> /\ cut' \subseteq cut  BY <1>5 DEF FinishWrite
  <2>6. QED BY <2>3, <2>4, <2>5, OtherCallsKeepOrder
<1>6. ASSUME NEW c \in Callers, NEW p \in Pages, Delete(c, p)
      PROVE  Orderly'
  <2>1. PICK new : new = [IdleCall EXCEPT !.at = "lock", !.pages = {p}]  OBVIOUS
  <2>2. new.at = "lock"  BY <2>1 DEF IdleCall
  <2>3. call' = [call EXCEPT ![c] = new]  BY <1>6, <2>1 DEF Delete
  <2>4. ~Holding(c)  BY <1>6 DEF Delete, Holding
  <2>5. UNCHANGED <<lock, git, staged, head>> /\ cut' \subseteq cut  BY <1>6 DEF Delete
  <2>6. QED BY <2>2, <2>3, <2>4, <2>5, OtherCallsKeepOrder
<1>6a. ASSUME NEW c \in Callers, FinishPage(c)
       PROVE  Orderly'
  <2>1. PICK counted : call' = [call EXCEPT ![c] = [@ EXCEPT !.at = "run", !.page = None,
                                                   !.version = 0, !.digested = counted]]
    BY <1>6a DEF FinishPage
  <2>2. PICK new : new = [call[c] EXCEPT !.at = "run", !.page = None, !.version = 0,
                                         !.digested = counted]
    OBVIOUS
  <2>3. new.at = "run"  BY <1>1, <2>2 DEF Call
  <2>4. call' = [call EXCEPT ![c] = new]  BY <1>1, <2>1, <2>2
  <2>5. ~Holding(c)  BY <1>6a DEF FinishPage, Holding
  <2>6. UNCHANGED <<lock, git, staged, head>> /\ cut' \subseteq cut  BY <1>6a DEF FinishPage
  <2>7. QED BY <2>3, <2>4, <2>5, <2>6, OtherCallsKeepOrder
<1>6b. ASSUME NEW c \in Callers, NEW p \in Pages, Sweep(c, p)
       PROVE  Orderly'
  <2>1. PICK new : new = [IdleCall EXCEPT !.at = "run", !.pages = {p}]  OBVIOUS
  <2>2. new.at = "run"  BY <2>1 DEF IdleCall
  <2>3. call' = [call EXCEPT ![c] = new]  BY <1>6b, <2>1 DEF Sweep
  <2>4. ~Holding(c)  BY <1>6b DEF Sweep, Holding
  <2>5. UNCHANGED <<lock, git, staged, head>> /\ cut' \subseteq cut  BY <1>6b DEF Sweep
  <2>6. QED BY <2>2, <2>3, <2>4, <2>5, OtherCallsKeepOrder
<1>6c. ASSUME NEW c \in Callers, EndRun(c)
       PROVE  Orderly'
  <2>1. PICK waiting : waiting = [call[c] EXCEPT !.at = "lock"]  OBVIOUS
  <2>2. waiting.at = "lock" /\ IdleCall.at = "idle"  BY <1>1, <2>1 DEF Call, IdleCall
  <2>3. PICK new : call' = [call EXCEPT ![c] = new] /\ new.at \notin {"add", "commit", "git"}
    BY <1>6c, <2>1, <2>2 DEF EndRun
  <2>4. ~Holding(c)  BY <1>6c DEF EndRun, Holding
  <2>5. UNCHANGED <<lock, git, staged, head>> /\ cut' \subseteq cut  BY <1>6c DEF EndRun
  <2>6. QED BY <2>3, <2>4, <2>5, OtherCallsKeepOrder
<1>7. ASSUME NEW c \in Callers, lockRepo(c)
      PROVE  Orderly'
  <2>1. \A d \in Callers : ~Holding(d)  BY <1>3, <1>7 DEF lockRepo, Orderly
  <2>2. git = NoGit  BY <2>1 DEF Orderly, Holding
  <2>3. ~Staging  BY <2>1, <2>2 DEF Staging, Holding, NoGit
  <2>4. \A d \in Callers : d # c => call'[d] = call[d]  BY <1>1, <1>7 DEF lockRepo
  <2>5. \A d \in Callers : Holding(d)' => d = c  BY <2>1, <2>4 DEF Holding
  <2>6. QED BY <1>7, <2>2, <2>3, <2>5 DEF lockRepo, Orderly
<1>8. ASSUME NEW c \in Callers, NEW op \in {"add", "commit"}, StartGit(c, op)
      PROVE  Orderly'
  <2>1. Holding(c) /\ lock = c  BY <1>8 DEF StartGit, Holding, Orderly
  <2>2. \A d \in Callers : d # c => ~Holding(d)  BY <2>1 DEF Orderly
  <2>3. \A d \in Callers : d # c => call'[d] = call[d]  BY <1>1, <1>8 DEF StartGit
  <2>4. call'[c].at = "git"
    <3>1. call'[c] = [call[c] EXCEPT !.at = "git"]  BY <1>1, <1>8 DEF StartGit
    <3>2. QED BY <1>1, <3>1, Placed
  <2>5. git'.by = c /\ git'.op = op  BY <1>8 DEF StartGit
  <2>6. op = "add" => ~Staging
    <3>1. op = "add" => call[c].at # "commit"  BY <1>8 DEF StartGit
    <3>2. git.op = "none"  BY <1>8 DEF StartGit, NoGit
    <3>3. QED BY <2>2, <3>1, <3>2 DEF Staging, Holding
  <2>7. op = "commit" => Staging'  BY <2>5 DEF Staging
  <2>8. Staging' \/ staged' = head'  BY <1>8, <2>6, <2>7 DEF StartGit, Orderly
  <2>9. \A d \in Callers : Holding(d)' => lock' = d
    BY <1>8, <2>1, <2>2, <2>3 DEF StartGit, Holding
  <2>10. QED BY <1>8, <2>4, <2>5, <2>8, <2>9 DEF StartGit, Orderly
<1>9. ASSUME NEW c \in Callers, NEW op \in {"add", "commit"}, GitIsLockedOut(c, op)
      PROVE  FALSE
  <2>1. call[c].at = op /\ git # NoGit  BY <1>9 DEF GitIsLockedOut
  <2>2. lock = c  BY <2>1 DEF Orderly, Holding
  <2>3. lock = git.by /\ call[git.by].at = "git"  BY <2>1 DEF Orderly, Holding
  <2>4. QED BY <2>1, <2>2, <2>3
<1>10. ASSUME FinishAdd \/ FinishCommit
       PROVE  /\ git.by \in Callers /\ Holding(git.by) /\ lock = git.by
              /\ \A d \in Callers : d # git.by => ~Holding(d)
              /\ call[git.by].at = "git"
  <2>1. git # NoGit  BY <1>10 DEF FinishAdd, FinishCommit, NoGit
  <2>2. QED BY <2>1 DEF Orderly, Holding
<1>11. CASE FinishAdd
  <2>1. PICK c \in Callers :
          /\ git.by = c
          /\ call' = [call EXCEPT ![c] = IF NoMatch THEN IdleCall ELSE [@ EXCEPT !.at = "commit"]]
          /\ lock' = IF NoMatch THEN None ELSE lock
          /\ cut' = cut \cup IF NoMatch THEN {p \in git.paths : head[p] # work[p]} ELSE {}
    BY <1>3, <1>10, <1>11 DEF FinishAdd, Owner
  <2>2. ~Staging /\ staged = head
    <3>1. git.op = "add"  BY <1>11 DEF FinishAdd
    <3>2. \A d \in Callers : call[d].at # "commit"  BY <1>10, <1>11 DEF Holding
    <3>3. QED BY <3>1, <3>2 DEF Staging, Orderly
  <2>3. \A d \in Callers : d # c => call'[d] = call[d] /\ ~Holding(d)
    BY <1>1, <1>10, <1>11, <2>1
  <2>4. git' = NoGit /\ head' = head  BY <1>11 DEF FinishAdd
  <2>5. staged' = [p \in Pages |-> IF p \in git.paths THEN work[p] ELSE staged[p]]
    BY <1>11 DEF FinishAdd
  <2>6. staged \in [Pages -> Content]  BY Typed
  <2>7. CASE NoMatch
    <3>1. PICK p \in Pages : git.paths = {p} /\ work[p] = 0 /\ staged[p] = 0
      BY <2>7 DEF NoMatch
    <3>2. \A q \in Pages : staged'[q] = staged[q]  BY <2>5, <3>1
    <3>3. staged' = staged  BY <2>5, <2>6, <3>2
    <3>4. cut' = {}
      <4>1. head[p] = work[p]  BY <2>2, <3>1
      <4>2. cut' = cut \cup {q \in git.paths : head[q] # work[q]}  BY <2>1, <2>7
      <4>3. QED BY <3>1, <4>1, <4>2 DEF Orderly
    <3>5. call'[c] = IdleCall  BY <1>1, <2>1, <2>7
    <3>6. \A d \in Callers : ~Holding(d)'  BY <2>3, <3>5 DEF Holding, IdleCall
    <3>7. QED BY <2>2, <2>4, <3>3, <3>4, <3>6 DEF Orderly
  <2>8. CASE ~NoMatch
    <3>1. call'[c].at = "commit"
      <4>1. call'[c] = [call[c] EXCEPT !.at = "commit"]  BY <1>1, <2>1, <2>8
      <4>2. QED BY <1>1, <4>1, Placed
    <3>2. Staging'  BY <3>1 DEF Staging
    <3>3. \A d \in Callers : Holding(d)' => d = c  BY <2>3 DEF Holding
    <3>4. lock' = c  BY <1>10, <1>11, <2>1, <2>8
    <3>5. cut' = {}  BY <2>1, <2>8 DEF Orderly
    <3>6. QED BY <2>4, <3>2, <3>3, <3>4, <3>5 DEF Orderly
  <2>9. QED BY <2>7, <2>8
<1>12. CASE FinishCommit
  <2>1. PICK c \in Callers : git.by = c /\ call' = [call EXCEPT ![c] = IdleCall]
    BY <1>3, <1>10, <1>12 DEF FinishCommit, Owner
  <2>2. call'[c] = IdleCall /\ \A d \in Callers : d # c => call'[d] = call[d]
    BY <1>1, <2>1
  <2>3. \A d \in Callers : ~Holding(d)'
    BY <1>10, <1>12, <2>1, <2>2 DEF Holding, IdleCall
  <2>4. git' = NoGit /\ cut' = cut /\ staged' = staged /\ head' = staged
    BY <1>12 DEF FinishCommit
  <2>5. QED BY <2>3, <2>4 DEF Orderly
<1>13. QED
  BY <1>2, <1>4, <1>5, <1>6, <1>6a, <1>6b, <1>6c, <1>7, <1>8, <1>9, <1>11, <1>12
  DEF Next, CallStep, GitStep, LockTimeout, GitTimeout, Kill

LEMMA NextCommits == CommitInv /\ [Next]_vars => CommitInv'
<1> SUFFICES ASSUME CommitInv, [Next]_vars PROVE CommitInv'  OBVIOUS
<1>1. TypeOK'  BY CommitTypes DEF CommitInv
<1>2. faults \in Nat /\ (faults' = 0 => faults = 0)
  <2>1. faults \in Nat  BY Versions, Typed DEF CommitInv
  <2>2. faults' = faults \/ faults' = faults + 1
    BY DEF Next, vars, StartWrite, Delete, Sweep, CallStep, FinishWrite, FinishPage, EndRun, lockRepo, StartGit,
           GitIsLockedOut, GitStep, FinishAdd, FinishCommit, LockTimeout, GitTimeout, Kill, Fault
  <2>3. QED BY <2>1, <2>2
<1>3. ASSUME faults' = 0, Next PROVE Orderly'
  BY <1>2, <1>3, OrderKept DEF CommitInv
<1>4. ASSUME UNCHANGED vars, faults' = 0 PROVE Orderly'
  BY <1>2, <1>4 DEF CommitInv, vars, Orderly, Holding, Staging
<1>5. QED BY <1>1, <1>3, <1>4 DEF CommitInv

-----------------------------------------------------------------------------
(* What holds while nothing goes wrong, and the types, whatever does.          *)
THEOREM CommitInvariantHolds == Spec => []CommitInv
BY InitCommits, NextCommits, PTL DEF Spec

(* Pages, index, lock file, git and calls keep their types (commit.go).        *)
THEOREM CommitsTyped == Spec => []TypeOK
<1>1. CommitInv => TypeOK  BY DEF CommitInv
<1>2. QED BY <1>1, CommitInvariantHolds, PTL

(* Any number of calls and an ingest run do not cost each other a commit: only *)
(* time that runs out or a killed process does (lockRepo, commit.go).          *)
THEOREM CutsAreFaults == Spec => []CutOnlyByFaults
<1>1. CommitInv => CutOnlyByFaults
  <2>1. TypeOK => faults \in Nat  BY Versions, Typed
  <2>2. QED BY <2>1 DEF CommitInv, Orderly, CutOnlyByFaults
<1>2. QED BY <1>1, CommitInvariantHolds, PTL
=============================================================================
