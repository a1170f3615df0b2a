--------------------------- MODULE DeletionProofs ---------------------------
(****************************************************************************)
(* Theorems about Deletion and BackupRestore for every set of objects,      *)
(* every derivation graph and every order of actions, stops and replays.    *)
(*                                                                          *)
(* An object moves by the records that name it, or along with the sources   *)
(* it was made from. The code keeps no order between the two: where an      *)
(* object has a record of its own and follows a source as well (Mixed), the *)
(* properties fail (DeletionDerived.cfg). Each theorem therefore speaks of  *)
(* the other objects (Plain), whatever happens to the mixed ones; and, as a *)
(* consequence, of all objects where none is mixed.                         *)
(****************************************************************************)
EXTENDS BackupRestore, WellFoundedInduction, TLAPS

State(o) == rows[o].state

(* Objects with a record of their own that follow a source as well: operators *)
(* acted on what was derived, or an import made bytes that had a record. The *)
(* code does not keep them in line (DeletionDerived.cfg).                    *)
Mixed == {o \in Logged : SourcesOf(o) # {}}

(* An object that moves by its own records only, or with its sources only, and *)
(* so do its sources.                                                       *)
Plain(o) == o \notin Mixed /\ (o \in captured \/ SourcesOf(o) \cap Mixed = {})

(* An object that moves along with its sources, and those by their records.   *)
Follower(d) == d \notin captured /\ SourcesOf(d) # {} /\ Plain(d)

(* The bytes are where an action puts them.                                 *)
Put(places, action) ==
  CASE action = "quarantine" -> places = {"quarantine"}
    [] action = "restore"    -> "active" \in places
    [] action = "purge"      -> places = {}

-----------------------------------------------------------------------------
(* What holds at every moment.                                              *)

TablesAgree ==
  /\ \A p \in links : p[2] \in captured /\ State(p[1]) # "absent"
  /\ \A o \in captured \cup Logged : State(o) # "absent"
  /\ \A o \in Objects : State(o) # "absent" => o \in captured \/ SourcesOf(o) # {}
  /\ Logged \subseteq Targets
  /\ pending \subseteq Logged

(* The last record of o, if it has any.                                     *)
LatestIs(o, rec) ==
  \E n \in 1..Len(log) :
    log[n] = rec /\ rec.object = o /\ \A k \in (n + 1)..Len(log) : log[k].object # o

EveryLatestExists == \A o \in Logged : \E rec \in Record : LatestIs(o, rec)

(* The last record of an object was possible in the state of its row, and has  *)
(* or has not been applied; its bytes are wherever it may have left them.    *)
OwnRecord(o, action) ==
  CASE action = "quarantine" -> \/ State(o) = "active" /\ files[o] # {}
                                \/ State(o) = "quarantined" /\ files[o] = {"quarantine"}
    [] action = "restore"    -> \/ State(o) = "active" /\ "active" \in files[o]
                                \/ State(o) = "quarantined" /\ files[o] # {}
    [] action = "purge"      -> \/ State(o) = "quarantined"
                                \/ State(o) = "purged" /\ files[o] = {}

SourcesKeepToLog ==
  \A o \in captured \ Mixed :
    /\ o \in Logged => OwnRecord(o, Latest(o).action)
    /\ o \notin Logged => State(o) = "active" /\ "active" \in files[o]

FollowersKeepBytes ==
  \A d \in Objects : Follower(d) =>
    /\ State(d) = "purged" => files[d] = {}
    /\ State(d) = "purged" \/ files[d] = {} => \A s \in SourcesOf(d) : State(s) = "purged"
    /\ (\E s \in SourcesOf(d) : s \notin Logged) => State(d) = "active" /\ "active" \in files[d]

-----------------------------------------------------------------------------
(* While a record is applied.                                               *)

ApplyingIsSound ==
  applying # NotApplying =>
    LET o == applying.object
        action == applying.action
    IN
    /\ o \in pending /\ action = Latest(o).action
    /\ applying.left # {}
    /\ \A d \in applying.left \ {o} : d \notin captured /\ <<d, o>> \in links
    /\ applying.moved # {} =>
         applying.moved = {NextObject} /\ (Plain(NextObject) => Put(files[NextObject], action))
    /\ o \notin applying.left => State(o) = StateFor(action)
    /\ \A d \in applying.left \ {o} : action # "restore" => ~NeededByOther(d, o, action)
    /\ \A d \in Objects : Follower(d) /\ <<d, o>> \in links =>
         \/ d \in applying.left
         \/ State(d) = StateFor(action) /\ Put(files[d], action)
         \/ action # "restore" /\ NeededByOther(d, o, action)

-----------------------------------------------------------------------------
(* What has been brought in line: every record outside pending, once nothing   *)
(* was left unapplied before or the replay of Open has begun.               *)

InLine == opening \/ ~stale

Done(d) == {s \in SourcesOf(d) : s \notin pending}

RecordsApplied ==
  \A o \in Logged \ (pending \cup Mixed) : State(o) = StateFor(Latest(o).action)

FollowersApplied ==
  \A d \in Objects : Follower(d) =>
    /\ (\E s \in Done(d) : State(s) = "active") => State(d) = "active" /\ "active" \in files[d]
    /\ d \notin applying.left /\ (\A s \in SourcesOf(d) : State(s) # "active") =>
         /\ (\E s \in Done(d) : State(s) = "quarantined")
              => State(d) = "quarantined" /\ files[d] = {"quarantine"}
         /\ Done(d) # {} /\ (\A s \in SourcesOf(d) : State(s) = "purged") => State(d) = "purged"

(* During a replay of an archive that is in line nothing is to be done.       *)
AllInLine ==
  /\ \A o \in Logged \ Mixed : State(o) = StateFor(Latest(o).action)
  /\ \A d \in Objects : Follower(d) => FollowsSources(d) /\ InPlace(d)

IInv ==
  /\ TypeOK
  /\ TablesAgree
  /\ EveryLatestExists
  /\ SourcesKeepToLog
  /\ FollowersKeepBytes
  /\ ApplyingIsSound
  /\ opening => pending # {}
  /\ InLine => RecordsApplied /\ FollowersApplied
  /\ opening /\ ~stale => AllInLine

-----------------------------------------------------------------------------
(* Helpers.                                                                 *)

LEMMA LeastMember ==
  ASSUME NEW S, S \subseteq Nat, S # {}
  PROVE  Least(S) \in S /\ \A y \in S : Least(S) <= y
<1> DEFINE R == OpToRel(<, Nat)
<1> HIDE DEF R
<1>1. IsWellFoundedOn(R, Nat)  BY NatLessThanWellFounded DEF R
<1>2. PICK x \in S : \A y \in S : ~(<<y, x>> \in R)  BY <1>1, WFMin
<1>3. \A y \in S : ~(y < x)  BY <1>2 DEF R, OpToRel
<1>4. \A y \in S : x <= y  BY <1>3
<1>5. QED BY <1>4 DEF Least

(* A log has at most one last record of an object.                          *)
LEMMA LastIsUnique ==
  ASSUME NEW l, Len(l) \in Nat, NEW o, NEW n \in 1..Len(l), l[n].object = o,
         \A k \in (n + 1)..Len(l) : l[k].object # o
  PROVE  (CHOOSE m \in 1..Len(l) :
            l[m].object = o /\ \A k \in (m + 1)..Len(l) : l[k].object # o) = n
<1> DEFINE P(m) == l[m].object = o /\ \A k \in (m + 1)..Len(l) : l[k].object # o
<1>1. P(n)  OBVIOUS
<1>2. ASSUME NEW m \in 1..Len(l), P(m) PROVE m = n
  <2>1. ~(m < n)  BY <1>2
  <2>2. ~(n < m)  BY <1>2
  <2>3. QED BY <2>1, <2>2
<1>3. (CHOOSE m \in 1..Len(l) : P(m)) \in 1..Len(l) /\ P(CHOOSE m \in 1..Len(l) : P(m))
  BY <1>1
<1>4. QED BY <1>2, <1>3

LEMMA LatestFound ==
  ASSUME log \in Seq(Record), NEW o, NEW rec, LatestIs(o, rec)
  PROVE  Latest(o) = rec /\ rec.object = o /\ o \in Logged
<1>1. PICK n \in 1..Len(log) :
        log[n] = rec /\ rec.object = o /\ \A k \in (n + 1)..Len(log) : log[k].object # o
  BY DEF LatestIs
<1>2. Len(log) \in Nat  OBVIOUS
<1>3. Latest(o) = log[n]  BY <1>1, <1>2, LastIsUnique DEF Latest
<1>4. QED BY <1>1, <1>3 DEF Logged

LEMMA LatestFoundNext ==
  ASSUME log' \in Seq(Record), NEW o, NEW rec, LatestIs(o, rec)'
  PROVE  Latest(o)' = rec /\ rec.object = o /\ o \in Logged'
<1>1. PICK n \in 1..Len(log') :
        log'[n] = rec /\ rec.object = o /\ \A k \in (n + 1)..Len(log') : log'[k].object # o
  BY DEF LatestIs
<1>2. Len(log') \in Nat  OBVIOUS
<1>3. Latest(o)' = log'[n]  BY <1>1, <1>2, LastIsUnique DEF Latest
<1>4. QED BY <1>1, <1>3 DEF Logged

(* What appending a record does to the last records.                        *)
LEMMA LatestAfterAppend ==
  ASSUME TypeOK, EveryLatestExists, NEW rec \in Record, log' = Append(log, rec)
  PROVE  /\ Logged' = Logged \cup {rec.object}
         /\ Latest(rec.object)' = rec
         /\ \A o \in Logged \ {rec.object} : Latest(o)' = Latest(o)
         /\ EveryLatestExists'
<1>1. /\ log \in Seq(Record) /\ log' \in Seq(Record) /\ Len(log) \in Nat
      /\ Len(log') = Len(log) + 1 /\ log'[Len(log) + 1] = rec
      /\ \A n \in 1..Len(log) : log'[n] = log[n]
  BY DEF TypeOK
<1>2. Logged' = Logged \cup {rec.object}
  <2>1. \A n \in 1..Len(log') : n \in 1..Len(log) \/ n = Len(log) + 1  BY <1>1
  <2>2. Len(log) + 1 \in 1..Len(log') /\ \A n \in 1..Len(log) : n \in 1..Len(log')  BY <1>1
  <2>3. QED BY <1>1, <2>1, <2>2 DEF Logged
<1>3. LatestIs(rec.object, rec)'
  <2>1. Len(log) + 1 \in 1..Len(log') /\ ((Len(log) + 1) + 1)..Len(log') = {}  BY <1>1
  <2>2. QED BY <1>1, <2>1 DEF LatestIs
<1>4. ASSUME NEW o \in Logged \ {rec.object}, NEW r \in Record, LatestIs(o, r)
      PROVE  LatestIs(o, r)'
  <2>1. PICK n \in 1..Len(log) :
          log[n] = r /\ r.object = o /\ \A k \in (n + 1)..Len(log) : log[k].object # o
    BY <1>4 DEF LatestIs
  <2>2. n \in 1..Len(log') /\ log'[n] = r  BY <1>1, <2>1
  <2>3. ASSUME NEW k \in (n + 1)..Len(log') PROVE log'[k].object # o
    <3>1. CASE k = Len(log) + 1  BY <1>1, <1>4, <3>1
    <3>2. CASE k # Len(log) + 1
      <4>1. k \in (n + 1)..Len(log) /\ k \in 1..Len(log)  BY <1>1, <3>2
      <4>2. QED BY <1>1, <2>1, <4>1
    <3>3. QED BY <3>1, <3>2
  <2>4. QED BY <2>1, <2>2, <2>3 DEF LatestIs
<1>5. Latest(rec.object)' = rec  BY <1>1, <1>3, LatestFoundNext
<1>6. \A o \in Logged \ {rec.object} : Latest(o)' = Latest(o)
  BY <1>1, <1>4, LatestFound, LatestFoundNext DEF EveryLatestExists
<1>7. EveryLatestExists'  BY <1>2, <1>3, <1>4 DEF EveryLatestExists
<1>8. QED BY <1>2, <1>5, <1>6, <1>7

LEMMA LatestAfterAgeing ==
  ASSUME TypeOK, EveryLatestExists,
         log' = [n \in 1..Len(log) |-> [log[n] EXCEPT !.at = "ripe"]]
  PROVE  /\ log' \in Seq(Record)
         /\ Logged' = Logged
         /\ \A o \in Logged : Latest(o)'.action = Latest(o).action
         /\ EveryLatestExists'
<1>1. log \in Seq(Record) /\ Len(log) \in Nat  BY DEF TypeOK
<1>2. ASSUME NEW rec \in Record
      PROVE  /\ [rec EXCEPT !.at = "ripe"] \in Record
             /\ [rec EXCEPT !.at = "ripe"].object = rec.object
             /\ [rec EXCEPT !.at = "ripe"].action = rec.action
  BY DEF Record, Ages
<1>3. \A n \in 1..Len(log) : log[n] \in Record  BY <1>1
<1>4. \A n \in 1..Len(log) : log'[n] = [log[n] EXCEPT !.at = "ripe"]  OBVIOUS
<1>5. \A n \in 1..Len(log) : /\ log'[n] \in Record /\ log'[n].object = log[n].object
                             /\ log'[n].action = log[n].action
  BY <1>2, <1>3, <1>4
<1>6. log' = [n \in 1..Len(log) |-> log'[n]]  OBVIOUS
<1>7. log' \in Seq(Record) /\ Len(log') = Len(log)  BY <1>1, <1>5, <1>6
<1>8. Logged' = Logged  BY <1>5, <1>7 DEF Logged
<1>9. ASSUME NEW o \in Logged
      PROVE  \E rec \in Record : LatestIs(o, rec)' /\ rec.action = Latest(o).action
  <2>1. PICK r \in Record : LatestIs(o, r)  BY DEF EveryLatestExists
  <2>2. PICK n \in 1..Len(log) :
          log[n] = r /\ r.object = o /\ \A k \in (n + 1)..Len(log) : log[k].object # o
    BY <2>1 DEF LatestIs
  <2>3. ASSUME NEW k \in (n + 1)..Len(log') PROVE log'[k].object # o
    <3>1. k \in (n + 1)..Len(log) /\ k \in 1..Len(log)  BY <1>1, <1>7
    <3>2. QED BY <1>5, <2>2, <3>1
  <2>4. PICK rec : rec = log'[n]  OBVIOUS
  <2>5. rec \in Record /\ rec.object = o /\ rec.action = r.action
    BY <1>5, <2>2, <2>4
  <2>6. LatestIs(o, rec)'  BY <1>7, <2>2, <2>3, <2>4, <2>5 DEF LatestIs
  <2>7. Latest(o) = r  BY <1>1, <2>1, LatestFound
  <2>8. QED BY <2>5, <2>6, <2>7
<1>10. QED BY <1>7, <1>8, <1>9, LatestFoundNext DEF EveryLatestExists

-----------------------------------------------------------------------------
(* The shape of the tables.                                                 *)

LEMMA Shape ==
  ASSUME IInv
  PROVE  /\ \A o \in Objects : rows[o] \in Row /\ State(o) \in States /\ files[o] \in SUBSET Places
         /\ captured \subseteq Objects /\ links \subseteq Derives
         /\ Logged \subseteq Targets /\ Logged \subseteq Objects /\ pending \subseteq Logged
         /\ Logged \ Mixed \subseteq captured
         /\ \A o \in Logged : State(o) # "absent"
         /\ \A d \in Objects : Follower(d) =>
              d \notin captured /\ d \notin Logged /\ SourcesOf(d) \subseteq captured \ Mixed
         /\ \A o \in Logged : /\ Latest(o) \in Record /\ Latest(o).object = o
                              /\ Latest(o).action \in Actions
         /\ \A d \in Objects, s \in Objects : <<d, s>> \in links =>
              /\ s \in captured /\ State(s) \in {"active", "quarantined", "purged"}
              /\ State(d) # "absent"
<1>1. \A o \in Objects : rows[o] \in Row /\ files[o] \in SUBSET Places
  BY DEF IInv, TypeOK
<1>2. \A o \in Objects : State(o) \in States  BY <1>1 DEF State, Row
<1>3. captured \subseteq Objects /\ links \subseteq Derives  BY DEF IInv, TypeOK
<1>4. /\ Logged \subseteq Targets /\ Logged \subseteq Objects /\ pending \subseteq Logged
      /\ \A o \in Logged : State(o) # "absent"
  BY ObjectAssumption DEF IInv, TablesAgree
<1>8. Logged \ Mixed \subseteq captured
  BY <1>4 DEF IInv, TablesAgree, Mixed
<1>9. ASSUME NEW d \in Objects, Follower(d)
      PROVE  d \notin captured /\ d \notin Logged /\ SourcesOf(d) \subseteq captured \ Mixed
  <2>1. d \notin captured /\ SourcesOf(d) # {} /\ d \notin Mixed /\ SourcesOf(d) \cap Mixed = {}
    BY <1>9 DEF Follower, Plain
  <2>2. d \notin Logged  BY <2>1 DEF Mixed
  <2>3. SourcesOf(d) \subseteq captured  BY DEF SourcesOf, IInv, TablesAgree
  <2>4. QED BY <2>1, <2>2, <2>3
<1>5. ASSUME NEW o \in Logged
      PROVE  Latest(o) \in Record /\ Latest(o).object = o /\ Latest(o).action \in Actions
  <2>1. PICK rec \in Record : LatestIs(o, rec)  BY DEF IInv, EveryLatestExists
  <2>2. Latest(o) = rec /\ rec.object = o  BY <2>1, LatestFound DEF IInv, TypeOK
  <2>3. QED BY <2>2 DEF Record
<1>6. ASSUME NEW d \in Objects, NEW s \in Objects, <<d, s>> \in links
      PROVE  /\ s \in captured /\ State(s) \in {"active", "quarantined", "purged"}
             /\ State(d) # "absent"
  <2>1. s \in captured /\ State(d) # "absent"  BY <1>6 DEF IInv, TablesAgree
  <2>2. State(s) # "absent"  BY <2>1 DEF IInv, TablesAgree
  <2>3. QED BY <1>2, <2>1, <2>2 DEF States
<1>7. QED BY <1>1, <1>2, <1>3, <1>4, <1>5, <1>6, <1>8, <1>9

LEMMA FreeLock ==
  ASSUME IInv, LockFree
  PROVE  /\ pending = {} /\ applying = NotApplying /\ applying.left = {} /\ ~opening
BY DEF IInv, LockFree, NotApplying

LEMMA InitIInv == ASSUME Init PROVE IInv
<1>1. \A o \in Objects : rows[o].state = "absent" /\ files[o] = {}  BY DEF Init
<1>2. Logged = {} /\ links = {} /\ captured = {} /\ pending = {} /\ applying = NotApplying
      /\ opening = FALSE /\ stale = FALSE
  BY DEF Init, Logged
<1>3. TypeOK
  <2>1. rows \in [Objects -> Row]  BY DEF Init, Row, States, Ages
  <2>2. NotApplying \in Applying  BY DEF NotApplying, Applying, Ages
  <2>3. log \in Seq(Record)  BY DEF Init
  <2>4. files \in [Objects -> SUBSET Places]  BY DEF Init
  <2>5. opening \in BOOLEAN /\ stale \in BOOLEAN  BY <1>2
  <2>6. applying \in Applying  BY <1>2, <2>2
  <2>7. QED BY <1>2, <2>1, <2>3, <2>4, <2>5, <2>6 DEF TypeOK
<1>4. \A d \in Objects : ~Follower(d)  BY <1>2 DEF Follower, SourcesOf
<1>5. TablesAgree  BY <1>1, <1>2 DEF TablesAgree, State
<1>6. EveryLatestExists  BY <1>2 DEF EveryLatestExists
<1>7. FollowersKeepBytes /\ FollowersApplied  BY <1>4 DEF FollowersKeepBytes, FollowersApplied
<1>8. ApplyingIsSound /\ RecordsApplied  BY <1>2 DEF ApplyingIsSound, RecordsApplied
<1>9. SourcesKeepToLog  BY <1>2 DEF SourcesKeepToLog
<1>10. QED BY <1>2, <1>3, <1>5, <1>6, <1>7, <1>8, <1>9 DEF IInv

-----------------------------------------------------------------------------
(* Adding objects.                                                          *)

LEMMA WithRowFacts ==
  ASSUME rows \in [Objects -> Row], NEW o \in Objects, Usable(o), rows' = WithRow(o)
  PROVE  /\ rows' \in [Objects -> Row]
         /\ State(o)' = "active"
         /\ \A x \in Objects \ {o} : State(x)' = State(x)
         /\ \A x \in Objects : State(x) # "absent" => State(x)' = State(x)
<1>1. PICK new : new = [state |-> "active", at |-> "recent"]  OBVIOUS
<1>2. new \in Row /\ new.state = "active"  BY <1>1 DEF Row, States, Ages
<1>3. CASE rows[o].state = "absent"
  <2>1. rows' = [rows EXCEPT ![o] = new]  BY <1>1, <1>3 DEF WithRow
  <2>2. QED BY <1>2, <1>3, <2>1 DEF State
<1>4. CASE rows[o].state # "absent"
  <2>1. rows' = rows  BY <1>4 DEF WithRow
  <2>2. rows[o].state = "active"  BY <1>4 DEF Usable
  <2>3. QED BY <2>1, <2>2 DEF State
<1>5. QED BY <1>3, <1>4

LEMMA SameLog ==
  ASSUME UNCHANGED log
  PROVE  /\ Logged' = Logged /\ \A o : Latest(o)' = Latest(o)
         /\ EveryLatestExists => EveryLatestExists'
<1>1. Logged' = Logged  BY DEF Logged
<1>2. \A o : Latest(o)' = Latest(o)  BY DEF Latest
<1>3. \A o, rec : LatestIs(o, rec)' <=> LatestIs(o, rec)  BY DEF LatestIs
<1>4. QED BY <1>1, <1>2, <1>3 DEF EveryLatestExists

(* While the lock is free an object gains an active file, and maybe a row, a   *)
(* capture or a link to an active source.                                   *)
LEMMA AddStep ==
  ASSUME IInv, LockFree, NEW o \in Objects, Usable(o),
         files' = [files EXCEPT ![o] = @ \cup {"active"}],
         UNCHANGED <<log, pending, applying, opening, stale>>,
         \/ UNCHANGED <<rows, captured, links>>
         \/ rows' = WithRow(o) /\ captured' = captured \cup {o} /\ UNCHANGED links
         \/ \E s \in Objects : /\ rows' = WithRow(o) /\ UNCHANGED captured
                               /\ <<o, s>> \in Derives
                               /\ s \in captured /\ State(s) = "active"
                               /\ links' = links \cup {<<o, s>>}
  PROVE  IInv'
<1>1. /\ pending = {} /\ applying = NotApplying /\ applying.left = {} /\ ~opening
      /\ pending' = {} /\ applying' = NotApplying /\ applying'.left = {} /\ ~opening'
  BY FreeLock
<1>2. /\ \A x \in Objects : rows[x] \in Row /\ State(x) \in States /\ files[x] \in SUBSET Places
      /\ captured \subseteq Objects /\ links \subseteq Derives
      /\ Logged \subseteq Targets /\ Logged \subseteq Objects /\ Logged \ Mixed \subseteq captured
  BY Shape
<1>3. /\ files' \in [Objects -> SUBSET Places]
      /\ "active" \in files'[o]
      /\ \A x \in Objects \ {o} : files'[x] = files[x]
      /\ \A x \in Objects : files[x] \subseteq files'[x]
  BY <1>2 DEF IInv, TypeOK, Places
<1>4. State(o) \in {"absent", "active"}  BY DEF Usable, State
<1>5. /\ rows' \in [Objects -> Row]
      /\ \A x \in Objects \ {o} : State(x)' = State(x)
      /\ \A x \in Objects : State(x) # "absent" => State(x)' = State(x)
      /\ State(o)' \in {"absent", "active"}
  BY <1>4, WithRowFacts DEF IInv, TypeOK, State
<1>6. /\ Logged' = Logged /\ \A x : Latest(x)' = Latest(x)
      /\ EveryLatestExists'
  BY SameLog DEF IInv
<1>7. TypeOK'  BY <1>2, <1>3, <1>5 DEF IInv, TypeOK
<1>8. /\ captured \subseteq captured' /\ captured' \subseteq captured \cup {o}
      /\ links \subseteq links' /\ \A p \in links' \ links : p[1] = o /\ p[2] \in captured
      /\ (captured' # captured \/ links' # links) => State(o)' = "active"
  <2>1. CASE UNCHANGED <<rows, captured, links>>  BY <2>1
  <2>2. CASE rows' = WithRow(o) /\ captured' = captured \cup {o} /\ UNCHANGED links
    BY <2>2, WithRowFacts DEF IInv, TypeOK
  <2>3. ASSUME NEW s \in Objects, rows' = WithRow(o), UNCHANGED captured, s \in captured,
               links' = links \cup {<<o, s>>}
        PROVE  /\ links \subseteq links' /\ \A p \in links' \ links : p[1] = o /\ p[2] \in captured
               /\ State(o)' = "active"
    BY <2>3, WithRowFacts DEF IInv, TypeOK
  <2>4. QED BY <2>1, <2>2, <2>3
<1>9. TablesAgree'
  <2>1. \A p \in links' : p[2] \in captured' /\ State(p[1])' # "absent"
    <3> SUFFICES ASSUME NEW p \in links' PROVE p[2] \in captured' /\ State(p[1])' # "absent"
      OBVIOUS
    <3>1. CASE p \in links
      <4>1. p[2] \in captured /\ State(p[1]) # "absent" /\ p[1] \in Objects
        BY <1>2, <3>1, ObjectAssumption DEF IInv, TablesAgree
      <4>2. QED BY <1>5, <1>8, <4>1
    <3>2. CASE p \notin links  BY <1>8, <3>2
    <3>3. QED BY <3>1, <3>2
  <2>2. \A x \in captured' \cup Logged' : State(x)' # "absent"
    BY <1>2, <1>5, <1>6, <1>8 DEF IInv, TablesAgree
  <2>3. \A x \in Objects : State(x)' # "absent" => x \in captured' \/ SourcesOf(x)' # {}
    <3> SUFFICES ASSUME NEW x \in Objects, State(x)' # "absent", x \notin captured'
                 PROVE  SourcesOf(x)' # {}
      OBVIOUS
    <3>1. CASE State(x) # "absent"
      <4>1. SourcesOf(x) # {}  BY <1>8, <3>1 DEF IInv, TablesAgree
      <4>2. QED BY <1>8, <4>1 DEF SourcesOf
    <3>2. CASE State(x) = "absent"
      <4>1. x = o /\ rows' # rows  BY <1>5, <3>2 DEF State
      <4>2. PICK s \in Objects : links' = links \cup {<<o, s>>}  BY <4>1
      <4>3. QED BY <4>1, <4>2 DEF SourcesOf
    <3>3. QED BY <3>1, <3>2
  <2>4. QED BY <1>1, <1>2, <1>6, <1>8, <2>1, <2>2, <2>3 DEF TablesAgree
<1>18. Mixed \subseteq Mixed' /\ \A x : SourcesOf(x) \subseteq SourcesOf(x)'
  BY <1>6, <1>8 DEF Mixed, SourcesOf
<1>10. SourcesKeepToLog'
  <2> SUFFICES ASSUME NEW x \in captured' \ Mixed'
               PROVE  /\ x \in Logged => OwnRecord(x, Latest(x).action)'
                      /\ x \notin Logged => State(x)' = "active" /\ "active" \in files'[x]
    BY <1>6 DEF SourcesKeepToLog
  <2>1. CASE x # o
    <3>1. /\ x \in captured \ Mixed
          /\ State(x)' = State(x) /\ files'[x] = files[x] /\ Latest(x)' = Latest(x)
      BY <1>2, <1>3, <1>5, <1>6, <1>8, <1>18, <2>1
    <3>2. QED BY <3>1 DEF IInv, SourcesKeepToLog, OwnRecord, State
  <2>2. CASE x = o
    <3>1. x \in Logged => State(x) = "active" /\ State(x)' = "active"
      BY <1>2, <1>4, <1>5, <2>2 DEF IInv, TablesAgree
    <3>6. x \notin Mixed  BY <1>18
    <3>2. x \in Logged => OwnRecord(x, Latest(x).action) /\ Latest(x).action \in Actions
      BY <1>2, <3>6, Shape DEF IInv, SourcesKeepToLog
    <3>3. x \in Logged => OwnRecord(x, Latest(x).action)'
      BY <1>3, <1>6, <2>2, <3>1, <3>2 DEF OwnRecord, Actions
    <3>4. x \notin Logged => State(x)' = "active"
      BY <1>2, <1>5, <1>8, <2>2, <3>6 DEF IInv, SourcesKeepToLog
    <3>5. QED BY <1>3, <2>2, <3>3, <3>4
  <2>3. QED BY <2>1, <2>2
<1>11. ASSUME NEW d \in Objects, Follower(d)'
       PROVE  /\ d \notin captured
              /\ d # o => Follower(d) /\ SourcesOf(d)' = SourcesOf(d)
              /\ \A s \in SourcesOf(d)' : s # o => State(s)' = State(s)
              /\ \A s \in SourcesOf(d)' : s = o => State(s)' = "active"
  <2>1. d \notin captured  BY <1>8, <1>11 DEF Follower
  <2>2. d # o => SourcesOf(d)' = SourcesOf(d)  BY <1>8 DEF SourcesOf
  <2>7. d # o => Follower(d)
    <3>1. d \notin captured' /\ SourcesOf(d)' # {} /\ d \notin Mixed' /\ SourcesOf(d)' \cap Mixed' = {}
      BY <1>11 DEF Follower, Plain
    <3>2. QED BY <1>18, <2>1, <2>2, <3>1 DEF Follower, Plain
  <2>3. \A s \in SourcesOf(d)' : s # o => State(s)' = State(s)  BY <1>5 DEF SourcesOf
  <2>4. \A s \in SourcesOf(d)' : s \in captured'  BY <1>9 DEF TablesAgree, SourcesOf
  <2>5. \A s \in SourcesOf(d)' : s = o => State(s)' = "active"
    BY <1>5, <1>9, <2>4 DEF TablesAgree
  <2>6. QED BY <2>1, <2>2, <2>3, <2>5, <2>7
<1>12. ASSUME Follower(o)'
       PROVE  State(o)' = "active"
  <2>1. o \in Objects /\ State(o)' # "absent"
    BY <1>9, <1>12 DEF Follower, SourcesOf, TablesAgree
  <2>2. QED BY <1>5, <2>1
<1>13. ASSUME NEW d \in Objects, NEW s \in SourcesOf(d)'
       PROVE  State(s)' = "purged" <=> State(s) = "purged"
  <2>1. s \in Objects  BY DEF SourcesOf
  <2>2. QED BY <1>4, <1>5, <2>1
<1>14. FollowersKeepBytes'
  <2> SUFFICES ASSUME NEW d \in Objects, Follower(d)'
               PROVE  /\ State(d)' = "purged" => files'[d] = {}
                      /\ State(d)' = "purged" \/ files'[d] = {}
                           => \A s \in SourcesOf(d)' : State(s)' = "purged"
                      /\ (\E s \in SourcesOf(d)' : s \notin Logged)
                           => State(d)' = "active" /\ "active" \in files'[d]
    BY <1>6 DEF FollowersKeepBytes
  <2>1. CASE d = o  BY <1>3, <1>12, <2>1
  <2>2. CASE d # o
    <3>1. Follower(d) /\ SourcesOf(d)' = SourcesOf(d)  BY <1>11, <2>2
    <3>2. State(d)' = State(d) /\ files'[d] = files[d]  BY <1>3, <1>5, <2>2
    <3>3. QED BY <1>13, <3>1, <3>2 DEF IInv, FollowersKeepBytes
  <2>3. QED BY <2>1, <2>2
<1>15. InLine' => RecordsApplied' /\ FollowersApplied'
  <2> SUFFICES ASSUME InLine' PROVE RecordsApplied' /\ FollowersApplied'  OBVIOUS
  <2>1. RecordsApplied /\ FollowersApplied  BY DEF InLine, IInv
  <2>2. RecordsApplied'
    BY <1>1, <1>2, <1>5, <1>6, <1>18, <2>1 DEF RecordsApplied, IInv, TablesAgree
  <2>3. FollowersApplied'
    <3> SUFFICES ASSUME NEW d \in Objects, Follower(d)'
          PROVE  /\ (\E s \in SourcesOf(d)' : State(s)' = "active")
                      => State(d)' = "active" /\ "active" \in files'[d]
                 /\ (\A s \in SourcesOf(d)' : State(s)' # "active") =>
                      /\ (\E s \in SourcesOf(d)' : State(s)' = "quarantined")
                           => State(d)' = "quarantined" /\ files'[d] = {"quarantine"}
                      /\ (\A s \in SourcesOf(d)' : State(s)' = "purged") => State(d)' = "purged"
      BY <1>1 DEF FollowersApplied, Done
    <3>1. CASE d = o
      <4>1. State(d)' = "active" /\ "active" \in files'[d]  BY <1>3, <1>12, <3>1
      <4>2. \E s \in SourcesOf(d)' : State(s)' = "active"
        <5>1. CASE links' = links
          <6>2. SourcesOf(d)' = SourcesOf(d)  BY <5>1 DEF SourcesOf
          <6>1. Follower(d)
            <7>1. /\ d \notin captured' /\ SourcesOf(d)' # {}
                  /\ d \notin Mixed' /\ SourcesOf(d)' \cap Mixed' = {}
              BY DEF Follower, Plain
            <7>2. QED BY <1>8, <1>18, <6>2, <7>1 DEF Follower, Plain
          <6>3. State(d) # "absent"  BY <6>1, Shape DEF Follower, SourcesOf
          <6>4. State(d) = "active"  BY <1>4, <3>1, <6>3
          <6>5. \E s \in SourcesOf(d) : State(s) = "active"
            <7>1. SUFFICES ASSUME \A s \in SourcesOf(d) : State(s) # "active" PROVE FALSE
              OBVIOUS
            <7>2. \A s \in SourcesOf(d) : State(s) \in {"quarantined", "purged"}
              BY <7>1, Shape DEF SourcesOf
            <7>3. Done(d) = SourcesOf(d) /\ SourcesOf(d) # {}
              BY <1>1, <6>1 DEF Done, Follower
            <7>4. State(d) # "active"
              BY <1>1, <2>1, <6>1, <7>1, <7>2, <7>3 DEF FollowersApplied
            <7>5. QED BY <6>4, <7>4
          <6>6. \A s \in SourcesOf(d) : State(s) = "active" => State(s)' = "active"
            BY <1>5 DEF SourcesOf
          <6>7. QED BY <6>2, <6>5, <6>6
        <5>2. CASE links' # links
          <6>1. PICK s \in Objects : State(s) = "active" /\ links' = links \cup {<<o, s>>}
            BY <5>2
          <6>2. State(s)' = "active"  BY <1>5, <6>1
          <6>3. QED BY <3>1, <6>1, <6>2 DEF SourcesOf
        <5>3. QED BY <5>1, <5>2
      <4>3. QED BY <4>1, <4>2
    <3>2. CASE d # o
      <4>1. Follower(d) /\ SourcesOf(d)' = SourcesOf(d)  BY <1>11, <3>2
      <4>2. State(d)' = State(d) /\ files'[d] = files[d]  BY <1>3, <1>5, <3>2
      <4>3. \A s \in SourcesOf(d) : State(s)' = State(s)
        BY <1>5, Shape DEF SourcesOf
      <4>4. Done(d) = SourcesOf(d) /\ SourcesOf(d) # {}
        BY <1>1, <4>1 DEF Done, Follower
      <4>5. QED BY <1>1, <2>1, <4>1, <4>2, <4>3, <4>4 DEF FollowersApplied
    <3>3. QED BY <3>1, <3>2
  <2>4. QED BY <2>2, <2>3
<1>16. ApplyingIsSound'  BY <1>1 DEF ApplyingIsSound
<1>17. QED BY <1>1, <1>6, <1>7, <1>9, <1>10, <1>14, <1>15, <1>16 DEF IInv

-----------------------------------------------------------------------------
(* Between actions, with nothing left unapplied, followers are in line.       *)

LEMMA FollowsByCases ==
  ASSUME NEW d, SourcesOf(d) # {},
         \A s \in SourcesOf(d) : State(s) \in {"active", "quarantined", "purged"},
         (\E s \in SourcesOf(d) : State(s) = "active") => State(d) = "active",
         /\ \A s \in SourcesOf(d) : State(s) # "active"
         /\ \E s \in SourcesOf(d) : State(s) = "quarantined"
         => State(d) = "quarantined",
         (\A s \in SourcesOf(d) : State(s) = "purged") => State(d) = "purged"
  PROVE  FollowsSources(d)
BY DEF FollowsSources, State

LEMMA SettledInLine ==
  ASSUME IInv, Settled
  PROVE  AllInLine
<1>1. pending = {} /\ applying.left = {} /\ RecordsApplied /\ FollowersApplied
  BY FreeLock DEF Settled, IInv, InLine
<1>2. \A o \in Logged \ Mixed : State(o) = StateFor(Latest(o).action)
  BY <1>1 DEF RecordsApplied
<1>3. ASSUME NEW d \in Objects, Follower(d) PROVE FollowsSources(d) /\ InPlace(d)
  <2>1. Done(d) = SourcesOf(d) /\ SourcesOf(d) # {}  BY <1>1, <1>3 DEF Done, Follower
  <2>2. \A s \in SourcesOf(d) : State(s) \in {"active", "quarantined", "purged"}
    BY Shape DEF SourcesOf
  <2>3. (\E s \in SourcesOf(d) : State(s) = "active") => State(d) = "active" /\ "active" \in files[d]
    BY <1>1, <1>3, <2>1 DEF FollowersApplied
  <2>4. /\ \A s \in SourcesOf(d) : State(s) # "active"
        /\ \E s \in SourcesOf(d) : State(s) = "quarantined"
        => State(d) = "quarantined" /\ files[d] = {"quarantine"}
    BY <1>1, <1>3, <2>1 DEF FollowersApplied
  <2>5. (\A s \in SourcesOf(d) : State(s) = "purged") => State(d) = "purged" /\ files[d] = {}
    BY <1>1, <1>3, <2>1 DEF FollowersApplied, FollowersKeepBytes, IInv
  <2>6. FollowsSources(d)  BY <2>1, <2>2, <2>3, <2>4, <2>5, FollowsByCases
  <2>7. InPlace(d)
    <3>1. CASE \E s \in SourcesOf(d) : State(s) = "active"
      BY <2>3, <3>1 DEF InPlace, State
    <3>2. CASE /\ \A s \in SourcesOf(d) : State(s) # "active"
               /\ \E s \in SourcesOf(d) : State(s) = "quarantined"
      BY <2>4, <3>2 DEF InPlace, State
    <3>3. CASE \A s \in SourcesOf(d) : State(s) = "purged"
      BY <2>5, <3>3 DEF InPlace, State
    <3>4. QED BY <2>2, <3>1, <3>2, <3>3
  <2>8. QED BY <2>6, <2>7
<1>4. QED BY <1>2, <1>3 DEF AllInLine

-----------------------------------------------------------------------------
(* Recording, opening, stopping, waiting.                                   *)

LEMMA AppendStep ==
  ASSUME IInv, LockFree, NEW o \in Targets, NEW action \in Actions,
         State(o) # "absent", SourcesOf(o) = {} => OwnRecord(o, action), Append1(o, action)
  PROVE  IInv'
<1>1. PICK rec : rec = [action |-> action, object |-> o, at |-> "recent"]  OBVIOUS
<1>2. o \in Objects  BY ObjectAssumption
<1>3. rec \in Record /\ rec.object = o /\ rec.action = action
  BY <1>1, <1>2 DEF Record, Ages
<1>4. log' = Append(log, rec) /\ pending' = {o}
      /\ UNCHANGED <<rows, files, captured, links, applying, opening, stale>>
  BY <1>1 DEF Append1
<1>5. /\ Logged' = Logged \cup {o} /\ Latest(o)' = rec
      /\ \A x \in Logged \ {o} : Latest(x)' = Latest(x)
      /\ EveryLatestExists'
  BY <1>3, <1>4, LatestAfterAppend DEF IInv
<1>6. /\ pending = {} /\ applying = NotApplying /\ applying.left = {} /\ ~opening
  BY FreeLock
<1>7. /\ Mixed \subseteq Mixed' /\ (o \in Mixed' <=> SourcesOf(o) # {})
      /\ \A x : x # o => (x \in Mixed' <=> x \in Mixed)
  BY <1>4, <1>5 DEF Mixed, SourcesOf
<1>8. TypeOK'
  <2>1. log' \in Seq(Record)  BY <1>3, <1>4 DEF IInv, TypeOK
  <2>2. QED BY <1>2, <1>4, <2>1 DEF IInv, TypeOK
<1>9. TablesAgree'
  BY <1>4, <1>5 DEF IInv, TablesAgree, State, SourcesOf
<1>10. SourcesKeepToLog'
  <2> SUFFICES ASSUME NEW x \in captured \ Mixed'
               PROVE  /\ x \in Logged' => OwnRecord(x, Latest(x).action)'
                      /\ x \notin Logged' => State(x)' = "active" /\ "active" \in files'[x]
    BY <1>4 DEF SourcesKeepToLog
  <2>1. CASE x = o
    <3>1. OwnRecord(o, action)'  BY <1>4, <1>7, <2>1 DEF OwnRecord, State
    <3>2. QED BY <1>3, <1>5, <2>1, <3>1
  <2>2. CASE x # o
    <3>1. x \in Logged' <=> x \in Logged  BY <1>5, <2>2
    <3>2. x \in Logged => OwnRecord(x, Latest(x).action)' = OwnRecord(x, Latest(x).action)
      BY <1>4, <1>5, <2>2 DEF OwnRecord, State
    <3>3. State(x)' = State(x)  BY <1>4 DEF State
    <3>4. QED BY <1>4, <1>7, <3>1, <3>2, <3>3 DEF IInv, SourcesKeepToLog
  <2>3. QED BY <2>1, <2>2
<1>11. \A d \in Objects : /\ (Follower(d)' => Follower(d)) /\ SourcesOf(d)' = SourcesOf(d)
                          /\ State(d)' = State(d) /\ files'[d] = files[d]
  <2>1. \A d : SourcesOf(d)' = SourcesOf(d) /\ State(d)' = State(d)
    BY <1>4 DEF SourcesOf, State
  <2>2. \A d : Plain(d)' => Plain(d)  BY <1>4, <1>7, <2>1 DEF Plain
  <2>3. QED BY <1>4, <2>1, <2>2 DEF Follower
<1>12. FollowersKeepBytes'
  <2> SUFFICES ASSUME NEW d \in Objects, Follower(d)
               PROVE  /\ State(d) = "purged" => files[d] = {}
                      /\ State(d) = "purged" \/ files[d] = {}
                           => \A s \in SourcesOf(d) : State(s) = "purged"
                      /\ (\E s \in SourcesOf(d) : s \notin Logged')
                           => State(d) = "active" /\ "active" \in files[d]
    BY <1>4, <1>11 DEF FollowersKeepBytes, SourcesOf, State
  <2>1. QED BY <1>5 DEF IInv, FollowersKeepBytes
<1>13. ApplyingIsSound'  BY <1>4, <1>6 DEF ApplyingIsSound
<1>14. InLine' => RecordsApplied' /\ FollowersApplied'
  <2> SUFFICES ASSUME InLine' PROVE RecordsApplied' /\ FollowersApplied'  OBVIOUS
  <2>1. RecordsApplied /\ FollowersApplied  BY <1>4 DEF InLine, IInv
  <2>2. RecordsApplied'
    BY <1>4, <1>5, <1>6, <1>7, <2>1 DEF RecordsApplied, State
  <2>3. FollowersApplied'
    <3> SUFFICES ASSUME NEW d \in Objects, Follower(d)
          PROVE  /\ (\E s \in Done(d)' : State(s) = "active")
                      => State(d) = "active" /\ "active" \in files[d]
                 /\ (\A s \in SourcesOf(d) : State(s) # "active") =>
                      /\ (\E s \in Done(d)' : State(s) = "quarantined")
                           => State(d) = "quarantined" /\ files[d] = {"quarantine"}
                      /\ Done(d)' # {} /\ (\A s \in SourcesOf(d) : State(s) = "purged")
                           => State(d) = "purged"
      BY <1>4, <1>11 DEF FollowersApplied, State, SourcesOf
    <3>1. Done(d)' \subseteq Done(d)  BY <1>4, <1>6 DEF Done, SourcesOf
    <3>2. QED BY <1>6, <2>1, <3>1 DEF FollowersApplied
  <2>4. QED BY <2>2, <2>3
<1>15. ~opening'  BY <1>4, <1>6
<1>16. QED BY <1>5, <1>8, <1>9, <1>10, <1>12, <1>13, <1>14, <1>15 DEF IInv

(* A step that only changes who holds the lock and what it has to apply.      *)
TablesKept == UNCHANGED <<rows, files, captured, links, log>>

LEMMA KeptTables ==
  ASSUME IInv, TablesKept, TypeOK', pending' \subseteq Logged
  PROVE  /\ TablesAgree' /\ EveryLatestExists' /\ SourcesKeepToLog' /\ FollowersKeepBytes'
         /\ Logged' = Logged /\ (\A o : Latest(o)' = Latest(o))
         /\ Mixed' = Mixed
         /\ \A d : /\ (Follower(d)' <=> Follower(d)) /\ SourcesOf(d)' = SourcesOf(d)
                   /\ State(d)' = State(d) /\ (Plain(d)' <=> Plain(d))
         /\ AllInLine => AllInLine'
<1> USE DEF TablesKept
<1>1. Logged' = Logged /\ (\A o : Latest(o)' = Latest(o)) /\ EveryLatestExists'
  BY SameLog DEF IInv
<1>2. /\ Mixed' = Mixed
      /\ \A d : /\ (Follower(d)' <=> Follower(d)) /\ SourcesOf(d)' = SourcesOf(d)
                /\ State(d)' = State(d) /\ (Plain(d)' <=> Plain(d))
  <2>1. \A d : SourcesOf(d)' = SourcesOf(d) /\ State(d)' = State(d)  BY DEF SourcesOf, State
  <2>2. Mixed' = Mixed  BY <1>1, <2>1 DEF Mixed
  <2>3. \A d : Plain(d)' <=> Plain(d)  BY <2>1, <2>2 DEF Plain
  <2>4. QED BY <2>1, <2>2, <2>3 DEF Follower
<1>3. TablesAgree'
  BY <1>1, <1>2 DEF IInv, TablesAgree
<1>4. SourcesKeepToLog'
  BY <1>1, <1>2 DEF IInv, SourcesKeepToLog, OwnRecord
<1>5. FollowersKeepBytes'
  BY <1>1, <1>2 DEF IInv, FollowersKeepBytes
<1>6. ASSUME AllInLine PROVE AllInLine'
  <2>1. ASSUME NEW d \in Objects, Follower(d)' PROVE FollowsSources(d)' /\ InPlace(d)'
    <3>1. FollowsSources(d) /\ InPlace(d)  BY <1>2, <1>6, <2>1 DEF AllInLine
    <3>2. InPlace(d)'  BY <3>1 DEF InPlace
    <3>3. FollowsSources(d)'  BY <3>1 DEF FollowsSources, SourcesOf
    <3>4. QED BY <3>2, <3>3
  <2>2. \A o \in Logged' \ Mixed' : State(o)' = StateFor(Latest(o)'.action)
    BY <1>1, <1>2, <1>6 DEF AllInLine
  <2>3. QED BY <2>1, <2>2, Zenon DEF AllInLine
<1>7. QED BY <1>1, <1>2, <1>3, <1>4, <1>5, <1>6

LEMMA OpenStep ==
  ASSUME IInv, Open
  PROVE  IInv'
<1>1. TablesKept /\ applying' = applying /\ pending' = Logged /\ opening' = (Logged # {})
      /\ stale' = (stale /\ Logged # {})
  BY DEF Open, TablesKept
<1>2. /\ pending = {} /\ applying = NotApplying /\ applying.left = {} /\ ~opening
  BY FreeLock DEF Open
<1>3. TypeOK'
  <2>1. opening' \in BOOLEAN /\ stale' \in BOOLEAN  BY <1>1
  <2>2. Logged \subseteq Objects  BY Shape
  <2>3. QED BY <1>1, <2>1, <2>2 DEF IInv, TypeOK, TablesKept
<1>4. /\ TablesAgree' /\ EveryLatestExists' /\ SourcesKeepToLog' /\ FollowersKeepBytes'
      /\ Logged' = Logged /\ (\A o : Latest(o)' = Latest(o))
      /\ Mixed' = Mixed
      /\ \A d : /\ (Follower(d)' <=> Follower(d)) /\ SourcesOf(d)' = SourcesOf(d)
                /\ State(d)' = State(d) /\ (Plain(d)' <=> Plain(d))
      /\ AllInLine => AllInLine'
  BY <1>1, <1>3, KeptTables
<1>5. ApplyingIsSound'  BY <1>1, <1>2 DEF ApplyingIsSound
<1>6. RecordsApplied'  BY <1>1, <1>4 DEF RecordsApplied
<1>7. FollowersApplied'
  <2>1. ASSUME NEW d \in Objects, Follower(d)
        PROVE  /\ (\E s \in SourcesOf(d) \ Logged : State(s) = "active")
                    => State(d) = "active" /\ "active" \in files[d]
               /\ \A s \in SourcesOf(d) \ Logged : State(s) = "active"
    BY <2>1, Shape DEF IInv, FollowersKeepBytes, SourcesKeepToLog, SourcesOf
  <2>2. \A d : Done(d)' = SourcesOf(d) \ Logged  BY <1>1, <1>4 DEF Done
  <2>3. files' = files  BY <1>1 DEF TablesKept
  <2>4. QED BY <1>4, <2>1, <2>2, <2>3 DEF FollowersApplied
<1>8. opening' => pending' # {}  BY <1>1
<1>9. opening' /\ ~stale' => AllInLine'
  BY <1>1, <1>4, SettledInLine DEF Open, Settled
<1>10. QED BY <1>3, <1>4, <1>5, <1>6, <1>7, <1>8, <1>9 DEF IInv

LEMMA StopStep ==
  ASSUME IInv, Stop
  PROVE  IInv'
<1>1. TablesKept /\ applying' = NotApplying /\ pending' = {} /\ opening' = FALSE /\ stale' = TRUE
  BY DEF Stop, TablesKept
<1>2. NotApplying \in Applying  BY DEF NotApplying, Applying, Ages
<1>3. TypeOK'
  <2>1. opening' \in BOOLEAN /\ stale' \in BOOLEAN  BY <1>1
  <2>2. QED BY <1>1, <1>2, <2>1 DEF IInv, TypeOK, TablesKept
<1>4. TablesAgree' /\ EveryLatestExists' /\ SourcesKeepToLog' /\ FollowersKeepBytes'
  BY <1>1, <1>3, KeptTables
<1>5. ApplyingIsSound'  BY <1>1 DEF ApplyingIsSound
<1>6. ~InLine' /\ ~opening'  BY <1>1 DEF InLine
<1>7. QED BY <1>3, <1>4, <1>5, <1>6 DEF IInv

LEMMA AgeStep ==
  ASSUME IInv, ThirtyDays
  PROVE  IInv'
<1>1. /\ pending = {} /\ applying = NotApplying /\ applying.left = {} /\ ~opening
  BY FreeLock DEF ThirtyDays
<1>2. /\ rows' = [o \in Objects |-> [rows[o] EXCEPT !.at = "ripe"]]
      /\ log' = [n \in 1..Len(log) |-> [log[n] EXCEPT !.at = "ripe"]]
      /\ UNCHANGED <<files, captured, links, pending, applying, opening, stale>>
  BY DEF ThirtyDays
<1>3. /\ log' \in Seq(Record) /\ Logged' = Logged
      /\ \A o \in Logged : Latest(o)'.action = Latest(o).action
      /\ EveryLatestExists'
  BY <1>2, LatestAfterAgeing DEF IInv
<1>4. /\ rows' \in [Objects -> Row] /\ \A o \in Objects : State(o)' = State(o)
  BY <1>2 DEF IInv, TypeOK, Row, Ages, State
<1>5. TypeOK'
  BY <1>2, <1>3, <1>4 DEF IInv, TypeOK
<1>6. /\ Mixed' = Mixed
      /\ \A d \in Objects : /\ (Follower(d)' <=> Follower(d)) /\ SourcesOf(d)' = SourcesOf(d)
                            /\ SourcesOf(d) \subseteq Objects /\ Done(d)' = Done(d)
  <2>1. \A d : SourcesOf(d)' = SourcesOf(d) /\ SourcesOf(d) \subseteq Objects /\ Done(d)' = Done(d)
    BY <1>2 DEF SourcesOf, Done
  <2>2. Mixed' = Mixed  BY <1>3, <2>1 DEF Mixed
  <2>3. \A d : Plain(d)' <=> Plain(d)  BY <1>2, <2>1, <2>2 DEF Plain
  <2>4. QED BY <1>2, <2>1, <2>2, <2>3 DEF Follower
<1>7. TablesAgree'
  <2>1. \A p \in links : p[1] \in Objects  BY ObjectAssumption DEF IInv, TypeOK
  <2>2. captured \subseteq Objects /\ Logged \subseteq Objects  BY Shape
  <2>3. QED BY <1>2, <1>3, <1>4, <1>6, <2>1, <2>2 DEF IInv, TablesAgree
<1>8. SourcesKeepToLog'
  <2>1. captured \subseteq Objects /\ captured' = captured  BY <1>2 DEF IInv, TypeOK
  <2>2. \A o \in captured : \A action : OwnRecord(o, action)' = OwnRecord(o, action)
    BY <1>2, <1>4, <2>1 DEF OwnRecord
  <2>3. QED BY <1>2, <1>3, <1>4, <1>6, <2>1, <2>2 DEF IInv, SourcesKeepToLog
<1>9. FollowersKeepBytes'
  BY <1>2, <1>3, <1>4, <1>6 DEF IInv, FollowersKeepBytes
<1>10. ApplyingIsSound'  BY <1>1, <1>2 DEF ApplyingIsSound
<1>11. InLine' => RecordsApplied' /\ FollowersApplied'
  <2> SUFFICES ASSUME InLine' PROVE RecordsApplied' /\ FollowersApplied'  OBVIOUS
  <2>1. RecordsApplied /\ FollowersApplied  BY <1>2 DEF InLine, IInv
  <2>2. Logged \subseteq Objects  BY Shape
  <2>3. RecordsApplied'  BY <1>2, <1>3, <1>4, <1>6, <2>1, <2>2 DEF RecordsApplied
  <2>4. \A d \in Objects : Done(d) \subseteq Objects  BY DEF Done, SourcesOf
  <2>5. FollowersApplied'  BY <1>2, <1>4, <1>6, <2>1, <2>4 DEF FollowersApplied
  <2>6. QED BY <2>3, <2>5
<1>12. ~opening'  BY <1>1, <1>2
<1>13. QED BY <1>3, <1>5, <1>7, <1>8, <1>9, <1>10, <1>11, <1>12 DEF IInv

-----------------------------------------------------------------------------
(* Applying a record.                                                       *)

LEMMA BeginStep ==
  ASSUME IInv, BeginApply
  PROVE  IInv'
<1>1. PICK o : o = Least(pending)  OBVIOUS
<1>2. o \in pending
  <2>1. pending \subseteq Nat  BY ObjectAssumption DEF IInv, TypeOK
  <2>2. QED BY <1>1, <2>1, LeastMember DEF BeginApply
<1>3. /\ o \in Logged /\ o \in Objects
      /\ Latest(o) \in Record /\ Latest(o).object = o /\ Latest(o).action \in Actions
  BY <1>2, Shape
<1>4. PICK left : left = {o} \cup derivedObjects(o, Latest(o).action)  OBVIOUS
<1>5. left \subseteq Objects  BY <1>3, <1>4 DEF derivedObjects
<1>6. /\ applying' = [action |-> Latest(o).action, object |-> o, at |-> Latest(o).at,
                      left |-> left, moved |-> {}]
      /\ TablesKept /\ UNCHANGED <<pending, opening, stale>>
  BY <1>1, <1>3, <1>4 DEF BeginApply, TablesKept
<1>7. /\ applying = NotApplying /\ applying.left = {}
  BY DEF BeginApply, NotApplying
<1>8. TypeOK'
  <2>1. Latest(o).at \in Ages  BY <1>3 DEF Record
  <2>2. applying' \in Applying  BY <1>3, <1>5, <1>6, <2>1 DEF Applying
  <2>3. QED BY <1>6, <2>2 DEF IInv, TypeOK, TablesKept
<1>9. /\ TablesAgree' /\ EveryLatestExists' /\ SourcesKeepToLog' /\ FollowersKeepBytes'
      /\ Logged' = Logged /\ (\A x : Latest(x)' = Latest(x))
      /\ Mixed' = Mixed
      /\ \A d : /\ (Follower(d)' <=> Follower(d)) /\ SourcesOf(d)' = SourcesOf(d)
                /\ State(d)' = State(d) /\ (Plain(d)' <=> Plain(d))
      /\ AllInLine => AllInLine'
  BY <1>6, <1>8, KeptTables DEF IInv, TablesAgree
<1>10. ApplyingIsSound'
  <2>1. /\ applying'.object = o /\ applying'.action = Latest(o).action
        /\ applying'.left = left /\ applying'.moved = {}
    BY <1>6
  <2>2. \A d \in left \ {o} : d \notin captured /\ <<d, o>> \in links
    BY <1>4 DEF derivedObjects
  <2>3. \A d, action : NeededByOther(d, o, action)' = NeededByOther(d, o, action)
    BY <1>6 DEF NeededByOther, TablesKept
  <2>4. \A d \in left \ {o} : Latest(o).action # "restore" => ~NeededByOther(d, o, Latest(o).action)
    BY <1>4 DEF derivedObjects
  <2>5. \A d \in Objects : Follower(d) /\ <<d, o>> \in links =>
          d \in left \/ (Latest(o).action # "restore" /\ NeededByOther(d, o, Latest(o).action))
    BY <1>3, <1>4, Shape DEF derivedObjects
  <2>6. o \in left /\ left # {}  BY <1>4
  <2>7. captured' = captured /\ links' = links /\ pending' = pending
    BY <1>6 DEF TablesKept
  <2>8. Latest(o)' = Latest(o)  BY <1>9
  <2>9. QED BY <1>2, <1>9, <2>1, <2>2, <2>3, <2>4, <2>5, <2>6, <2>7, <2>8 DEF ApplyingIsSound
<1>11. InLine' => RecordsApplied' /\ FollowersApplied'
  <2> SUFFICES ASSUME InLine' PROVE RecordsApplied' /\ FollowersApplied'  OBVIOUS
  <2>1. RecordsApplied /\ FollowersApplied  BY <1>6 DEF InLine, IInv
  <2>2. RecordsApplied'  BY <1>6, <1>9, <2>1 DEF RecordsApplied
  <2>3. \A d : Done(d)' = Done(d)  BY <1>6, <1>9 DEF Done
  <2>4. files' = files  BY <1>6 DEF TablesKept
  <2>5. FollowersApplied'  BY <1>7, <1>9, <2>1, <2>3, <2>4 DEF FollowersApplied
  <2>6. QED BY <2>2, <2>5
<1>12. (opening' => pending' # {}) /\ (opening' /\ ~stale' => AllInLine')
  BY <1>6, <1>9 DEF IInv
<1>13. QED BY <1>8, <1>9, <1>10, <1>11, <1>12 DEF IInv

(* Who is being moved, and what its record says.                            *)
LEMMA ApplyingFacts ==
  ASSUME IInv, applying.left # {},
         NEW o, o = applying.object, NEW action, action = applying.action,
         NEW x, x = NextObject
  PROVE  /\ o \in pending /\ o \in Logged /\ o \in Objects
         /\ action = Latest(o).action /\ action \in Actions
         /\ o \notin Mixed => o \in captured /\ OwnRecord(o, action)
         /\ State(o) # "absent"
         /\ applying.left \subseteq Objects /\ x \in applying.left /\ x \in Objects
         /\ applying.moved # {} => applying.moved = {x} /\ (Plain(x) => Put(files[x], action))
         /\ o \notin applying.left => State(o) = StateFor(action)
         /\ \A d \in applying.left \ {o} : /\ d \notin captured /\ <<d, o>> \in links
                                           /\ action # "restore" => ~NeededByOther(d, o, action)
         /\ x # o => o \notin applying.left
         /\ \A d \in Objects : Follower(d) /\ <<d, o>> \in links =>
              \/ d \in applying.left
              \/ State(d) = StateFor(action) /\ Put(files[d], action)
              \/ action # "restore" /\ NeededByOther(d, o, action)
         /\ \A d \in Objects : Follower(d) /\ <<d, o>> \in links => o \notin Mixed
         /\ x # o => x \notin captured /\ (Plain(x) <=> Follower(x))
         /\ Plain(o) <=> o \notin Mixed
<1>1. applying # NotApplying  BY DEF NotApplying
<1>2. ApplyingIsSound  BY DEF IInv
<1>3. o \in pending /\ action = Latest(o).action  BY <1>1, <1>2 DEF ApplyingIsSound
<1>4. /\ o \in Logged /\ o \in Objects /\ action \in Actions /\ State(o) # "absent"
      /\ o \notin Mixed => o \in captured /\ OwnRecord(o, action)
  BY <1>3, Shape DEF IInv, SourcesKeepToLog
<1>5. applying.left \subseteq Objects  BY DEF IInv, TypeOK, Applying
<1>6. x \in applying.left /\ (x # o => o \notin applying.left)
  <2>1. applying.left \subseteq Nat  BY <1>5, ObjectAssumption
  <2>2. Least(applying.left) \in applying.left  BY <2>1, LeastMember
  <2>3. QED BY <2>2 DEF NextObject
<1>7. applying.moved # {} => applying.moved = {x} /\ (Plain(x) => Put(files[x], action))
  BY <1>1, <1>2 DEF ApplyingIsSound
<1>8. /\ o \notin applying.left => State(o) = StateFor(action)
      /\ \A d \in applying.left \ {o} : /\ d \notin captured /\ <<d, o>> \in links
                                        /\ action # "restore" => ~NeededByOther(d, o, action)
  BY <1>1, <1>2 DEF ApplyingIsSound
<1>9. \A d \in Objects : Follower(d) /\ <<d, o>> \in links =>
        \/ d \in applying.left
        \/ State(d) = StateFor(action) /\ Put(files[d], action)
        \/ action # "restore" /\ NeededByOther(d, o, action)
  BY <1>1, <1>2 DEF ApplyingIsSound
<1>10. \A d \in Objects : Follower(d) /\ <<d, o>> \in links => o \notin Mixed
  BY <1>4, Shape DEF SourcesOf
<1>11. x # o => x \notin captured /\ (Plain(x) <=> Follower(x))
  <2>1. x # o => x \notin captured /\ <<x, o>> \in links  BY <1>6, <1>8
  <2>2. QED BY <1>4, <2>1 DEF Follower, SourcesOf
<1>12. Plain(o) <=> o \notin Mixed  BY <1>4, Shape DEF Plain
<1>13. QED BY <1>3, <1>4, <1>5, <1>6, <1>7, <1>8, <1>9, <1>10, <1>11, <1>12

(* When o's record is applied to a follower of o that no other source needs,   *)
(* the states of all its sources are settled by that record.                *)
LEMMA SourcesDecide ==
  ASSUME IInv, NEW o \in Objects, NEW x \in Objects, <<x, o>> \in links,
         NEW action \in Actions, State(o) = StateFor(action),
         action # "restore" => ~NeededByOther(x, o, action)
  PROVE  /\ action = "restore" => State(o) = "active"
         /\ action = "quarantine" => /\ State(o) = "quarantined"
                                     /\ \A s \in SourcesOf(x) : State(s) # "active"
         /\ action = "purge" => \A s \in SourcesOf(x) : State(s) = "purged"
         /\ (\E s \in SourcesOf(x) : s \notin Logged) /\ o \in Logged => action = "restore"
         /\ FollowsSources(x) => State(x) = StateFor(action)
<1>1. /\ action = "restore" => State(o) = "active"
      /\ action = "quarantine" => State(o) = "quarantined"
      /\ action = "purge" => State(o) = "purged"
  BY DEF StateFor
<1>2. o \in SourcesOf(x)  BY DEF SourcesOf
<1>3. \A s \in SourcesOf(x) : State(s) \in {"active", "quarantined", "purged"}
  BY Shape DEF SourcesOf
<1>4. action = "quarantine" => \A s \in SourcesOf(x) : State(s) # "active"
  BY <1>1 DEF NeededByOther, SourcesOf, State
<1>5. action = "purge" => \A s \in SourcesOf(x) : State(s) = "purged"
  BY <1>1, <1>3 DEF NeededByOther, SourcesOf, State
<1>6. \A s \in SourcesOf(x) : s \notin Logged => State(s) = "active"
  BY Shape DEF SourcesOf, IInv, SourcesKeepToLog, Mixed
<1>7. (\E s \in SourcesOf(x) : s \notin Logged) /\ o \in Logged => action = "restore"
  BY <1>4, <1>5, <1>6 DEF Actions
<1>8. ASSUME FollowsSources(x) PROVE State(x) = StateFor(action)
  <2>1. CASE action = "restore"
    BY <1>1, <1>2, <1>8, <2>1 DEF FollowsSources, State, StateFor
  <2>2. CASE action = "quarantine"
    BY <1>1, <1>2, <1>4, <1>8, <2>2 DEF FollowsSources, State, StateFor
  <2>3. CASE action = "purge"
    BY <1>5, <1>8, <2>3 DEF FollowsSources, State, StateFor
  <2>4. QED BY <2>1, <2>2, <2>3 DEF Actions
<1>9. QED BY <1>1, <1>4, <1>5, <1>7, <1>8

LEMMA MovedIsPut ==
  ASSUME NEW places \in SUBSET Places, NEW action \in Actions,
         places # {} \/ action = "purge"
  PROVE  /\ Put(Moved(places, action), action)
         /\ Moved(places, action) \in SUBSET Places
         /\ Moved(places, action) = {} => action = "purge"
<1>1. CASE action = "quarantine"
  BY <1>1 DEF Put, Moved, moveIfPresent, Places
<1>2. CASE action = "restore"
  BY <1>2 DEF Put, Moved, moveIfPresent, Places
<1>3. CASE action = "purge"
  BY <1>3 DEF Put, Moved
<1>4. QED BY <1>1, <1>2, <1>3 DEF Actions

LEMMA MoveStep ==
  ASSUME IInv, MoveFile
  PROVE  IInv'
<1>1. PICK o, action, x : o = applying.object /\ action = applying.action /\ x = NextObject
  OBVIOUS
<1>2. /\ applying.left # {} /\ applying.moved = {}
      /\ files' = [files EXCEPT ![x] = Moved(files[x], action)]
      /\ applying' = [applying EXCEPT !.moved = {x}]
      /\ UNCHANGED <<rows, captured, links, log, pending, opening, stale>>
  BY <1>1 DEF MoveFile
<1>3. /\ o \in pending /\ o \in Logged /\ o \in Objects
      /\ action = Latest(o).action /\ action \in Actions
      /\ o \notin Mixed => o \in captured /\ OwnRecord(o, action)
      /\ applying.left \subseteq Objects /\ x \in applying.left /\ x \in Objects
      /\ x # o => /\ x \notin captured /\ <<x, o>> \in links
                  /\ action # "restore" => ~NeededByOther(x, o, action)
                  /\ State(o) = StateFor(action)
                  /\ Plain(x) <=> Follower(x)
      /\ Follower(x) => x # o /\ o \notin Mixed
      /\ Plain(o) <=> o \notin Mixed
  <2>1. Follower(x) => x \notin Logged  BY <1>1, <1>2, ApplyingFacts, Shape
  <2>2. QED BY <1>1, <1>2, <2>1, ApplyingFacts
<1>4. x # o => /\ action = "restore" => State(o) = "active"
               /\ action = "quarantine" => /\ State(o) = "quarantined"
                                           /\ \A s \in SourcesOf(x) : State(s) # "active"
               /\ action = "purge" => \A s \in SourcesOf(x) : State(s) = "purged"
               /\ (\E s \in SourcesOf(x) : s \notin Logged) => action = "restore"
               /\ FollowsSources(x) => State(x) = StateFor(action)
               /\ o \in SourcesOf(x)
  BY <1>3, SourcesDecide DEF SourcesOf
<1>5. Plain(x) => files[x] # {} \/ action = "purge"
  <2> SUFFICES ASSUME Plain(x) PROVE files[x] # {} \/ action = "purge"  OBVIOUS
  <2>1. CASE x = o  BY <1>3, <2>1 DEF OwnRecord, Actions
  <2>2. CASE x # o
    <3>1. files[x] = {} => State(o) = "purged"
      BY <1>3, <1>4, <2>2 DEF IInv, FollowersKeepBytes
    <3>2. QED BY <1>3, <1>4, <2>2, <3>1 DEF Actions
  <2>3. QED BY <2>1, <2>2
<1>6. files[x] \in SUBSET Places  BY <1>3, Shape
<1>7. /\ files' \in [Objects -> SUBSET Places]
      /\ Plain(x) => Put(files'[x], action) /\ (files'[x] = {} => action = "purge")
      /\ \A y \in Objects \ {x} : files'[y] = files[y]
  <2>1. Moved(files[x], action) \in SUBSET Places
    BY <1>3, <1>6 DEF Moved, moveIfPresent, Places, Actions
  <2>2. /\ files' \in [Objects -> SUBSET Places] /\ files'[x] = Moved(files[x], action)
        /\ \A y \in Objects \ {x} : files'[y] = files[y]
    BY <1>2, <1>3, <2>1 DEF IInv, TypeOK
  <2>3. QED BY <1>3, <1>5, <1>6, <2>2, MovedIsPut
<1>8. TypeOK'
  <2>1. applying \in Applying  BY DEF IInv, TypeOK
  <2>2. applying' \in Applying  BY <1>2, <1>3, <2>1 DEF Applying
  <2>3. QED BY <1>2, <1>7, <2>2 DEF IInv, TypeOK
<1>9. /\ Logged' = Logged /\ (\A y : Latest(y)' = Latest(y)) /\ EveryLatestExists'
  BY <1>2, SameLog DEF IInv
<1>10. /\ Mixed' = Mixed
       /\ \A d : /\ (Follower(d)' <=> Follower(d)) /\ SourcesOf(d)' = SourcesOf(d)
                 /\ State(d)' = State(d) /\ Done(d)' = Done(d) /\ (Plain(d)' <=> Plain(d))
  <2>1. \A d : SourcesOf(d)' = SourcesOf(d) /\ State(d)' = State(d) /\ Done(d)' = Done(d)
    BY <1>2 DEF SourcesOf, State, Done
  <2>2. Mixed' = Mixed  BY <1>9, <2>1 DEF Mixed
  <2>3. \A d : Plain(d)' <=> Plain(d)  BY <1>2, <2>1, <2>2 DEF Plain
  <2>4. QED BY <1>2, <2>1, <2>2, <2>3 DEF Follower
<1>11. TablesAgree'  BY <1>2, <1>9, <1>10 DEF IInv, TablesAgree
<1>12. SourcesKeepToLog'
  <2> SUFFICES ASSUME NEW y \in captured \ Mixed
               PROVE  /\ y \in Logged => OwnRecord(y, Latest(y).action)'
                      /\ y \notin Logged => State(y) = "active" /\ "active" \in files'[y]
    BY <1>2, <1>9, <1>10 DEF SourcesKeepToLog
  <2>1. CASE y = x
    <3>1. y = o /\ o \notin Mixed /\ Plain(x)  BY <1>3, <2>1
    <3>2. OwnRecord(o, action)'
      <4>1. CASE action = "quarantine"
        BY <1>3, <1>7, <1>10, <2>1, <3>1, <4>1 DEF OwnRecord, Put
      <4>2. CASE action = "restore"
        BY <1>3, <1>7, <1>10, <2>1, <3>1, <4>2 DEF OwnRecord, Put
      <4>3. CASE action = "purge"
        BY <1>3, <1>7, <1>10, <2>1, <3>1, <4>3 DEF OwnRecord, Put
      <4>4. QED BY <1>3, <4>1, <4>2, <4>3 DEF Actions
    <3>3. QED BY <1>3, <1>9, <3>1, <3>2
  <2>2. CASE y # x
    <3>1. files'[y] = files[y]  BY <1>7, <2>2, Shape
    <3>2. QED BY <1>9, <1>10, <3>1 DEF IInv, SourcesKeepToLog, OwnRecord
  <2>3. QED BY <2>1, <2>2
<1>13. FollowersKeepBytes'
  <2> SUFFICES ASSUME NEW d \in Objects, Follower(d)
               PROVE  /\ State(d) = "purged" => files'[d] = {}
                      /\ State(d) = "purged" \/ files'[d] = {}
                           => \A s \in SourcesOf(d) : State(s) = "purged"
                      /\ (\E s \in SourcesOf(d) : s \notin Logged)
                           => State(d) = "active" /\ "active" \in files'[d]
    BY <1>9, <1>10 DEF FollowersKeepBytes
  <2>1. /\ State(d) = "purged" => files[d] = {}
        /\ State(d) = "purged" \/ files[d] = {} => \A s \in SourcesOf(d) : State(s) = "purged"
        /\ (\E s \in SourcesOf(d) : s \notin Logged) => State(d) = "active" /\ "active" \in files[d]
    BY DEF IInv, FollowersKeepBytes
  <2>2. CASE d # x  BY <1>7, <2>1, <2>2
  <2>3. CASE d = x
    <3>1. x # o /\ Plain(x)  BY <1>3, <2>3
    <3>2. State(d) = "purged" => action = "purge"
      BY <1>3, <1>4, <2>1, <2>3, <3>1 DEF Actions
    <3>3. State(d) = "purged" => files'[d] = {}  BY <1>7, <2>3, <3>1, <3>2 DEF Put
    <3>4. files'[d] = {} => \A s \in SourcesOf(d) : State(s) = "purged"
      BY <1>4, <1>7, <2>3, <3>1
    <3>5. (\E s \in SourcesOf(d) : s \notin Logged) => State(d) = "active" /\ "active" \in files'[d]
      BY <1>4, <1>7, <2>1, <2>3, <3>1 DEF Put
    <3>6. QED BY <2>1, <3>3, <3>4, <3>5
  <2>4. QED BY <2>2, <2>3
<1>14. /\ applying'.object = o /\ applying'.action = action
       /\ applying'.left = applying.left /\ applying'.moved = {x}
  <2>1. applying \in Applying  BY DEF IInv, TypeOK
  <2>2. QED BY <1>1, <1>2, <2>1 DEF Applying
<1>15. ApplyingIsSound'
  <2>1. NextObject' = x  BY <1>1, <1>14 DEF NextObject
  <2>2. \A d, a : NeededByOther(d, o, a)' <=> NeededByOther(d, o, a)
    BY <1>2 DEF NeededByOther
  <2>3. /\ o \notin applying.left => State(o) = StateFor(action)
        /\ \A d \in applying.left \ {o} : /\ d \notin captured /\ <<d, o>> \in links
                                          /\ action # "restore" => ~NeededByOther(d, o, action)
        /\ \A d \in Objects : Follower(d) /\ <<d, o>> \in links =>
             \/ d \in applying.left
             \/ State(d) = StateFor(action) /\ Put(files[d], action)
             \/ action # "restore" /\ NeededByOther(d, o, action)
    BY <1>1, <1>2, ApplyingFacts
  <2>4. \A d \in Objects : Follower(d) /\ <<d, o>> \in links =>
          \/ d \in applying.left
          \/ State(d) = StateFor(action) /\ Put(files'[d], action)
          \/ action # "restore" /\ NeededByOther(d, o, action)
    BY <1>3, <1>7, <2>3
  <2>5. captured' = captured /\ links' = links /\ pending' = pending  BY <1>2
  <2>6. o \in pending' /\ action = Latest(o)'.action  BY <1>3, <1>9, <2>5
  <2>7. \A d \in applying.left \ {o} :
          d \notin captured' /\ <<d, o>> \in links' /\ (action # "restore" => ~NeededByOther(d, o, action)')
    BY <2>2, <2>3, <2>5
  <2>8. \A d \in Objects : Follower(d)' /\ <<d, o>> \in links' =>
          \/ d \in applying.left
          \/ State(d)' = StateFor(action) /\ Put(files'[d], action)
          \/ action # "restore" /\ NeededByOther(d, o, action)'
    BY <1>10, <2>2, <2>4, <2>5
  <2>9. o \notin applying.left => State(o)' = StateFor(action)  BY <1>10, <2>3
  <2>10. /\ applying'.left # {} /\ applying'.left = applying.left
         /\ applying'.moved = {NextObject'} /\ (Plain(x)' => Put(files'[NextObject'], action))
    BY <1>2, <1>7, <1>10, <1>14, <2>1
  <2>11. QED
    BY <1>14, <2>1, <2>6, <2>7, <2>8, <2>9, <2>10 DEF ApplyingIsSound
<1>16. InLine' => RecordsApplied' /\ FollowersApplied'
  <2> SUFFICES ASSUME InLine' PROVE RecordsApplied' /\ FollowersApplied'  OBVIOUS
  <2>1. RecordsApplied /\ FollowersApplied  BY <1>2 DEF InLine, IInv
  <2>2. RecordsApplied'  BY <1>2, <1>9, <1>10, <2>1 DEF RecordsApplied
  <2>3. FollowersApplied'
    <3> SUFFICES ASSUME NEW d \in Objects, Follower(d)
          PROVE  /\ (\E s \in Done(d) : State(s) = "active")
                      => State(d) = "active" /\ "active" \in files'[d]
                 /\ d \notin applying.left /\ (\A s \in SourcesOf(d) : State(s) # "active") =>
                      /\ (\E s \in Done(d) : State(s) = "quarantined")
                           => State(d) = "quarantined" /\ files'[d] = {"quarantine"}
                      /\ Done(d) # {} /\ (\A s \in SourcesOf(d) : State(s) = "purged")
                           => State(d) = "purged"
      BY <1>10, <1>14 DEF FollowersApplied
    <3>1. CASE d # x  BY <1>7, <2>1, <3>1 DEF FollowersApplied
    <3>2. CASE d = x
      <4>1. x # o /\ Plain(x)  BY <1>3, <3>2
      <4>2. (\E s \in Done(d) : State(s) = "active") => action = "restore"
        BY <1>3, <1>4, <3>2, <4>1 DEF Done, Actions
      <4>3. (\E s \in Done(d) : State(s) = "active") => State(d) = "active"
        BY <2>1 DEF FollowersApplied
      <4>4. QED BY <1>3, <1>7, <3>2, <4>1, <4>2, <4>3 DEF Put
    <3>3. QED BY <3>1, <3>2
  <2>4. QED BY <2>2, <2>3
<1>17. opening' /\ ~stale' => AllInLine'
  <2> SUFFICES ASSUME opening', ~stale' PROVE AllInLine'  OBVIOUS
  <2>1. AllInLine  BY <1>2 DEF IInv
  <2>2. \A y \in Logged' \ Mixed' : State(y)' = StateFor(Latest(y)'.action)
    BY <1>9, <1>10, <2>1 DEF AllInLine
  <2>3. ASSUME NEW d \in Objects, Follower(d)' PROVE FollowsSources(d)' /\ InPlace(d)'
    <3>1. Follower(d) /\ FollowsSources(d) /\ InPlace(d)  BY <1>10, <2>1, <2>3 DEF AllInLine
    <3>2. FollowsSources(d)'  BY <1>2, <3>1 DEF FollowsSources, SourcesOf
    <3>3. InPlace(d)'
      <4>1. CASE d # x  BY <1>2, <1>7, <3>1, <4>1 DEF InPlace
      <4>2. CASE d = x
        <5>1. State(x) = StateFor(action)  BY <1>3, <1>4, <3>1, <4>2
        <5>2. Put(files'[x], action)  BY <1>3, <1>7, <3>1, <4>2
        <5>3. QED BY <1>2, <1>3, <4>2, <5>1, <5>2 DEF InPlace, Put, StateFor, State, Actions
      <4>3. QED BY <4>1, <4>2
    <3>4. QED BY <3>2, <3>3
  <2>4. QED BY <2>2, <2>3, Zenon DEF AllInLine
<1>18. opening' => pending' # {}  BY <1>2 DEF IInv
<1>19. QED
  BY <1>8, <1>9, <1>11, <1>12, <1>13, <1>15, <1>16, <1>17, <1>18 DEF IInv

LEMMA SetRowStep ==
  ASSUME IInv, SetRow
  PROVE  IInv'
<1>1. PICK o, action, x, rest :
        /\ o = applying.object /\ action = applying.action /\ x = NextObject
        /\ rest = applying.left \ {x}
  OBVIOUS
<1>2. PICK last \in BOOLEAN : last <=> rest = {} /\ pending = {o}
  OBVIOUS
<1>3. /\ applying.moved # {}
      /\ rows' = RowSet(x)
      /\ rest = {} => applying' = NotApplying /\ pending' = pending \ {o}
      /\ rest # {} => applying' = [applying EXCEPT !.left = rest, !.moved = {}]
                      /\ pending' = pending
      /\ opening' <=> (opening /\ ~last)
      /\ stale' <=> (stale /\ ~(last /\ opening))
      /\ opening' \in BOOLEAN /\ stale' \in BOOLEAN
      /\ UNCHANGED <<files, captured, links, log>>
  BY <1>1, <1>2 DEF SetRow
<1>4. applying # NotApplying /\ applying.left # {}
  BY <1>3 DEF IInv, ApplyingIsSound, NotApplying
<1>5. /\ o \in pending /\ o \in Logged /\ o \in Objects
      /\ action = Latest(o).action /\ action \in Actions
      /\ o \notin Mixed => o \in captured /\ OwnRecord(o, action)
      /\ State(o) # "absent" /\ (Plain(x) => Put(files[x], action))
      /\ applying.left \subseteq Objects /\ x \in applying.left /\ x \in Objects
      /\ \A d \in applying.left \ {o} :
           d \notin captured /\ <<d, o>> \in links /\ (action # "restore" => ~NeededByOther(d, o, action))
      /\ x # o => o \notin applying.left /\ State(o) = StateFor(action)
      /\ \A d \in Objects : Follower(d) /\ <<d, o>> \in links =>
              \/ d \in applying.left
              \/ State(d) = StateFor(action) /\ Put(files[d], action)
              \/ action # "restore" /\ NeededByOther(d, o, action)
      /\ \A d \in Objects : Follower(d) /\ <<d, o>> \in links => o \notin Mixed
      /\ x # o => x \notin captured /\ (Plain(x) <=> Follower(x))
      /\ Plain(o) <=> o \notin Mixed
  BY <1>1, <1>3, <1>4, ApplyingFacts
<1>6. x # o => /\ x \notin captured /\ <<x, o>> \in links
               /\ action # "restore" => ~NeededByOther(x, o, action)
  BY <1>5
<1>7. x # o => /\ action = "restore" => State(o) = "active"
               /\ action = "quarantine" => /\ State(o) = "quarantined"
                                           /\ \A s \in SourcesOf(x) : State(s) # "active"
               /\ action = "purge" => \A s \in SourcesOf(x) : State(s) = "purged"
               /\ (\E s \in SourcesOf(x) : s \notin Logged) => action = "restore"
               /\ FollowsSources(x) => State(x) = StateFor(action)
               /\ o \in SourcesOf(x)
  BY <1>5, <1>6, SourcesDecide DEF SourcesOf
<1>8. /\ rows' \in [Objects -> Row]
      /\ State(x)' = StateFor(action)
      /\ \A y \in Objects \ {x} : State(y)' = State(y)
  <2>1. State(x) # "absent"  BY <1>5, <1>6, Shape
  <2>2. applying \in Applying  BY DEF IInv, TypeOK
  <2>3. PICK new : new = [state |-> StateFor(action), at |-> applying.at]  OBVIOUS
  <2>4. new \in Row
    <3>1. StateFor(action) \in States  BY <1>5 DEF StateFor, States, Actions
    <3>2. applying.at \in Ages  BY <2>2 DEF Applying
    <3>3. QED BY <2>3, <3>1, <3>2 DEF Row
  <2>5. rows' = [rows EXCEPT ![x] = new]  BY <1>1, <1>3, <2>1, <2>3 DEF RowSet, State
  <2>6. QED BY <1>5, <2>3, <2>4, <2>5 DEF State, IInv, TypeOK
<1>9. State(o)' = StateFor(action)  BY <1>5, <1>8
<1>10. StateFor(action) # "absent"  BY <1>5 DEF StateFor, Actions
<1>11. \A y \in captured : y # o => State(y)' = State(y)
  BY <1>5, <1>6, <1>8, Shape
<1>12. /\ Logged' = Logged /\ (\A y : Latest(y)' = Latest(y)) /\ EveryLatestExists'
  BY <1>3, SameLog DEF IInv
<1>13. /\ Mixed' = Mixed
       /\ \A d : /\ (Follower(d)' <=> Follower(d))
                 /\ SourcesOf(d)' = SourcesOf(d) /\ (Plain(d)' <=> Plain(d))
  <2>1. \A d : SourcesOf(d)' = SourcesOf(d)  BY <1>3 DEF SourcesOf
  <2>2. Mixed' = Mixed  BY <1>12, <2>1 DEF Mixed
  <2>3. \A d : Plain(d)' <=> Plain(d)  BY <1>3, <2>1, <2>2 DEF Plain
  <2>4. QED BY <1>3, <2>1, <2>2, <2>3 DEF Follower
<1>14. \A d \in Objects : \A s \in SourcesOf(d) :
         s \in captured /\ s \in Objects /\ State(s) \in {"active", "quarantined", "purged"}
  BY Shape DEF SourcesOf
<1>15. \A d \in Objects : NeededByOther(d, o, action)' <=> NeededByOther(d, o, action)
  <2>1. \A s \in Objects \ {o}, d \in Objects : <<d, s>> \in links => rows'[s].state = rows[s].state
    BY <1>11, Shape DEF State
  <2>2. QED BY <1>3, <2>1 DEF NeededByOther
<1>16. TypeOK'
  <2>1. applying' \in Applying
    <3>1. applying \in Applying /\ rest \subseteq Objects  BY <1>1, <1>5 DEF IInv, TypeOK
    <3>2. CASE rest # {}  BY <1>3, <3>1, <3>2 DEF Applying
    <3>3. CASE rest = {}
      <4>1. NotApplying \in Applying  BY DEF NotApplying, Applying, Ages
      <4>2. QED BY <1>3, <3>3, <4>1
    <3>4. QED BY <3>2, <3>3
  <2>2. pending' \subseteq Objects  BY <1>3 DEF IInv, TypeOK
  <2>3. QED BY <1>3, <1>8, <2>1, <2>2 DEF IInv, TypeOK
<1>17. TablesAgree'
  <2>1. \A p \in links : p[1] \in Objects  BY ObjectAssumption DEF IInv, TypeOK
  <2>2. \A y \in Objects : (State(y) # "absent" => State(y)' # "absent")
    BY <1>8, <1>10
  <2>3. \A y \in Objects : State(y)' # "absent" => State(y) # "absent"
    BY <1>5, <1>6, <1>8, Shape
  <2>4. pending' \subseteq pending  BY <1>3
  <2>5. captured \subseteq Objects  BY Shape
  <2>6. Logged \subseteq Objects /\ Logged \subseteq Targets  BY Shape
  <2>7. QED BY <1>3, <1>12, <1>13, <2>1, <2>2, <2>3, <2>4, <2>5, <2>6 DEF IInv, TablesAgree
<1>18. SourcesKeepToLog'
  <2> SUFFICES ASSUME NEW y \in captured \ Mixed
               PROVE  /\ y \in Logged => OwnRecord(y, Latest(y).action)'
                      /\ y \notin Logged => State(y)' = "active" /\ "active" \in files[y]
    BY <1>3, <1>12, <1>13 DEF SourcesKeepToLog
  <2>1. CASE y = o
    <3>1. o \notin Mixed /\ (x = o => Plain(x))  BY <1>5, <2>1
    <3>2. files' = files  BY <1>3
    <3>3. OwnRecord(o, action)'
      <4>1. CASE x = o
        BY <1>5, <1>9, <3>1, <3>2, <4>1 DEF OwnRecord, Put, StateFor, Actions
      <4>2. CASE x # o
        BY <1>5, <1>9, <3>1, <3>2, <4>2 DEF OwnRecord, StateFor, Actions
      <4>3. QED BY <4>1, <4>2
    <3>4. QED BY <1>5, <1>12, <2>1, <3>3
  <2>2. CASE y # o
    BY <1>3, <1>11, <1>12, <2>2 DEF IInv, SourcesKeepToLog, OwnRecord
  <2>3. QED BY <2>1, <2>2
<1>19. FollowersKeepBytes'
  <2> SUFFICES ASSUME NEW d \in Objects, Follower(d)
               PROVE  /\ State(d)' = "purged" => files[d] = {}
                      /\ State(d)' = "purged" \/ files[d] = {}
                           => \A s \in SourcesOf(d) : State(s)' = "purged"
                      /\ (\E s \in SourcesOf(d) : s \notin Logged)
                           => State(d)' = "active" /\ "active" \in files[d]
    BY <1>3, <1>12, <1>13 DEF FollowersKeepBytes
  <2>1. /\ State(d) = "purged" => files[d] = {}
        /\ State(d) = "purged" \/ files[d] = {} => \A s \in SourcesOf(d) : State(s) = "purged"
        /\ (\E s \in SourcesOf(d) : s \notin Logged) => State(d) = "active" /\ "active" \in files[d]
    BY DEF IInv, FollowersKeepBytes
  <2>2. o \in SourcesOf(d) => (State(o) = "purged" => State(o)' = "purged")
    <3>1. o \in SourcesOf(d) => o \notin Mixed  BY <1>5 DEF SourcesOf
    <3>2. QED BY <1>5, <1>9, <3>1 DEF OwnRecord, StateFor, Actions
  <2>3. \A s \in SourcesOf(d) : State(s) = "purged" => State(s)' = "purged"
    BY <1>11, <1>14, <2>2
  <2>4. CASE d # x  BY <1>8, <2>1, <2>3, <2>4
  <2>5. CASE d = x
    <3>1. x # o /\ Plain(x)
      <4>1. x \notin Logged  BY <2>5, Shape
      <4>2. QED BY <1>5, <2>5, <4>1 DEF Follower
    <3>2. State(d)' = "purged" \/ files[d] = {} => action = "purge"
      BY <1>5, <1>8, <2>5, <3>1 DEF Put, StateFor, Actions
    <3>3. action = "purge" => files[d] = {} /\ \A s \in SourcesOf(d) : State(s) = "purged"
      BY <1>5, <1>7, <2>5, <3>1 DEF Put
    <3>4. action = "restore" => State(d)' = "active" /\ "active" \in files[d]
      BY <1>5, <1>8, <2>5, <3>1 DEF Put, StateFor
    <3>5. QED BY <1>7, <2>3, <2>5, <3>1, <3>2, <3>3, <3>4
  <2>6. QED BY <2>4, <2>5
<1>20. \A d \in Objects : Follower(d) /\ <<d, o>> \in links =>
         \/ d \in rest
         \/ State(d)' = StateFor(action) /\ Put(files[d], action)
         \/ action # "restore" /\ NeededByOther(d, o, action)
  BY <1>1, <1>5, <1>8 DEF Follower
<1>21. ASSUME rest # {} PROVE ApplyingIsSound'
  <2>1. /\ applying'.object = o /\ applying'.action = action
        /\ applying'.left = rest /\ applying'.moved = {}
    <3>1. applying \in Applying  BY DEF IInv, TypeOK
    <3>2. QED BY <1>1, <1>3, <1>21, <3>1 DEF Applying
  <2>2. pending' = pending /\ captured' = captured /\ links' = links /\ files' = files
    BY <1>3, <1>21
  <2>3. o \in pending' /\ action = Latest(o)'.action  BY <1>5, <1>12, <2>2
  <2>4. \A d \in rest \ {o} :
          d \notin captured' /\ <<d, o>> \in links' /\ (action # "restore" => ~NeededByOther(d, o, action)')
    BY <1>1, <1>5, <1>15, <2>2
  <2>5. \A d \in Objects : Follower(d)' /\ <<d, o>> \in links' =>
          \/ d \in rest
          \/ State(d)' = StateFor(action) /\ Put(files'[d], action)
          \/ action # "restore" /\ NeededByOther(d, o, action)'
    BY <1>13, <1>15, <1>20, <2>2
  <2>6. QED BY <1>9, <1>21, <2>1, <2>3, <2>4, <2>5 DEF ApplyingIsSound
<1>22. ApplyingIsSound'
  <2>1. CASE rest = {}  BY <1>3, <2>1 DEF ApplyingIsSound
  <2>2. QED BY <1>21, <2>1
<1>23. applying'.left = rest /\ (rest # {} => pending' = pending)
       /\ (rest = {} => pending' = pending \ {o})
  <2>1. CASE rest = {}  BY <1>3, <2>1 DEF NotApplying
  <2>2. CASE rest # {}
    <3>1. applying \in Applying  BY DEF IInv, TypeOK
    <3>2. QED BY <1>3, <2>2, <3>1 DEF Applying
  <2>3. QED BY <2>1, <2>2
<1>24. InLine' => RecordsApplied' /\ FollowersApplied'
  <2> SUFFICES ASSUME InLine' PROVE RecordsApplied' /\ FollowersApplied'  OBVIOUS
  <2>1. RecordsApplied /\ FollowersApplied  BY <1>3 DEF InLine, IInv
  <2>2. RecordsApplied'
    <3>1. ASSUME NEW y \in Logged \ (pending' \cup Mixed) PROVE State(y)' = StateFor(Latest(y).action)
      <4>1. CASE y = o  BY <1>5, <1>9, <4>1
      <4>2. CASE y # o
        <5>1. y \in Logged \ (pending \cup Mixed)  BY <1>23, <4>2
        <5>2. y \in captured  BY <5>1, Shape
        <5>3. QED BY <1>11, <2>1, <4>2, <5>1, <5>2 DEF RecordsApplied
      <4>3. QED BY <4>1, <4>2
    <3>2. QED BY <1>12, <1>13, <3>1 DEF RecordsApplied
  <2>3. FollowersApplied'
    <3> SUFFICES ASSUME NEW d \in Objects, Follower(d)
          PROVE  /\ (\E s \in Done(d)' : State(s)' = "active")
                      => State(d)' = "active" /\ "active" \in files[d]
                 /\ d \notin rest /\ (\A s \in SourcesOf(d) : State(s)' # "active") =>
                      /\ (\E s \in Done(d)' : State(s)' = "quarantined")
                           => State(d)' = "quarantined" /\ files[d] = {"quarantine"}
                      /\ Done(d)' # {} /\ (\A s \in SourcesOf(d) : State(s)' = "purged")
                           => State(d)' = "purged"
      BY <1>3, <1>13, <1>23 DEF FollowersApplied
    <3>1. /\ (\E s \in Done(d) : State(s) = "active") => State(d) = "active" /\ "active" \in files[d]
          /\ d \notin applying.left /\ (\A s \in SourcesOf(d) : State(s) # "active") =>
               /\ (\E s \in Done(d) : State(s) = "quarantined")
                    => State(d) = "quarantined" /\ files[d] = {"quarantine"}
               /\ Done(d) # {} /\ (\A s \in SourcesOf(d) : State(s) = "purged") => State(d) = "purged"
      BY <2>1 DEF FollowersApplied
    <3>2. /\ Done(d) = SourcesOf(d) \ pending /\ Done(d)' = SourcesOf(d) \ pending'
          /\ \A s \in Done(d)' : s \in SourcesOf(d) /\ (s # o => s \in Done(d) /\ State(s)' = State(s))
          /\ o \in Done(d)' => rest = {} /\ <<d, o>> \in links
      <4>1. Done(d) = SourcesOf(d) \ pending  BY DEF Done
      <4>2. Done(d)' = SourcesOf(d) \ pending'  BY <1>13 DEF Done
      <4>3. \A s \in SourcesOf(d) : s # o => State(s)' = State(s)  BY <1>11, <1>14
      <4>4. o \in SourcesOf(d) => <<d, o>> \in links  BY DEF SourcesOf
      <4>5. QED BY <1>5, <1>23, <4>1, <4>2, <4>3, <4>4
    <3>3. d \notin captured /\ d \notin Logged /\ Plain(d)  BY Shape DEF Follower
    <3>4. /\ d # x => State(d)' = State(d)
          /\ d = x => x # o /\ Plain(x) /\ Put(files[x], action)
      BY <1>5, <1>8, <3>3
    <3>5. ASSUME <<d, o>> \in links, d \notin rest
          PROVE  \/ State(d)' = StateFor(action) /\ Put(files[d], action)
                 \/ action # "restore" /\ NeededByOther(d, o, action)
      BY <1>20, <3>5
    <3>6. NeededByOther(d, o, action) <=>
            \E s \in SourcesOf(d) \ {o} : \/ State(s)' = "active"
                                          \/ action = "purge" /\ State(s)' = "quarantined"
      BY <1>11, <1>14 DEF NeededByOther, SourcesOf, State
    <3>7. ASSUME NEW s \in Done(d)', State(s)' = "active"
          PROVE  State(d)' = "active" /\ "active" \in files[d]
      <4>1. CASE s = o
        <5>1. action = "restore"  BY <1>5, <1>9, <3>7, <4>1 DEF StateFor, Actions
        <5>2. QED BY <3>2, <3>5, <4>1, <5>1 DEF StateFor, Put
      <4>2. CASE s # o
        <5>1. State(s) = "active" /\ s \in Done(d) /\ s \in SourcesOf(d)  BY <3>2, <3>7, <4>2
        <5>2. CASE d # x  BY <3>1, <3>4, <5>1, <5>2
        <5>3. CASE d = x
          <6>1. action = "restore"  BY <1>5, <1>7, <3>4, <5>1, <5>3 DEF Actions
          <6>2. QED BY <1>8, <3>4, <5>3, <6>1 DEF StateFor, Put
        <5>4. QED BY <5>2, <5>3
      <4>3. QED BY <4>1, <4>2
    <3>8. ASSUME d \notin rest, \A s \in SourcesOf(d) : State(s)' # "active"
          PROVE  /\ (\E s \in Done(d)' : State(s)' = "quarantined")
                      => State(d)' = "quarantined" /\ files[d] = {"quarantine"}
                 /\ Done(d)' # {} /\ (\A s \in SourcesOf(d) : State(s)' = "purged")
                      => State(d)' = "purged"
      <4>1. CASE <<d, o>> \notin links
        <5>1. d # x /\ d \notin applying.left  BY <1>1, <1>6, <3>4, <3>8, <4>1
        <5>2. \A s \in SourcesOf(d) : s # o  BY <4>1 DEF SourcesOf
        <5>3. \A s \in SourcesOf(d) : State(s)' = State(s)  BY <1>11, <1>14, <5>2
        <5>4. Done(d)' \subseteq Done(d) /\ State(d)' = State(d)  BY <3>2, <3>4, <5>1, <5>2
        <5>5. QED BY <3>1, <3>2, <3>8, <5>1, <5>3, <5>4
      <4>2. CASE <<d, o>> \in links
        <5>1. o \in SourcesOf(d)  BY <1>5, <4>2 DEF SourcesOf
        <5>2. action # "restore"  BY <1>9, <3>8, <5>1 DEF StateFor
        <5>3. CASE action = "quarantine"
          <6>1. ~NeededByOther(d, o, action)  BY <3>6, <3>8, <5>3
          <6>2. State(d)' = "quarantined" /\ files[d] = {"quarantine"}
            BY <3>5, <3>8, <4>2, <5>3, <6>1 DEF StateFor, Put
          <6>3. State(o)' # "purged"  BY <1>9, <5>3 DEF StateFor
          <6>4. QED BY <5>1, <6>2, <6>3
        <5>4. CASE action = "purge"
          <6>1. State(o)' = "purged"  BY <1>9, <5>4 DEF StateFor
          <6>2. (\A s \in SourcesOf(d) : State(s)' = "purged") => State(d)' = "purged"
            BY <3>5, <3>6, <3>8, <4>2, <5>4 DEF StateFor
          <6>3. ASSUME NEW s \in Done(d)', State(s)' = "quarantined"
                PROVE  State(d)' = "quarantined" /\ files[d] = {"quarantine"}
            <7>1. s # o /\ s \in Done(d) /\ State(s) = "quarantined" /\ s \in SourcesOf(d)
              BY <3>2, <6>1, <6>3
            <7>2. State(d)' # "purged"
              BY <1>3, <1>13, <1>19, <6>3, <7>1 DEF FollowersKeepBytes
            <7>3. NeededByOther(d, o, action)
              BY <3>5, <3>8, <4>2, <5>4, <7>2 DEF StateFor
            <7>4. d # x /\ d \notin applying.left  BY <1>1, <1>6, <3>4, <3>8, <5>4, <7>3
            <7>5. State(o) # "active"  BY <1>5, <4>2, <5>4 DEF OwnRecord
            <7>6. \A r \in SourcesOf(d) : State(r) # "active"
              BY <1>11, <1>14, <3>8, <7>5
            <7>7. QED BY <3>1, <3>4, <7>1, <7>4, <7>6
          <6>4. QED BY <6>2, <6>3
        <5>5. QED BY <1>5, <5>2, <5>3, <5>4 DEF Actions
      <4>3. QED BY <4>1, <4>2
    <3>9. QED BY <3>7, <3>8
  <2>4. QED BY <2>2, <2>3
<1>25. opening' => pending' # {}
  BY <1>2, <1>3, <1>5
<1>26. opening' /\ ~stale' => AllInLine'
  <2> SUFFICES ASSUME opening', ~stale' PROVE AllInLine'  OBVIOUS
  <2>1. AllInLine  BY <1>3 DEF IInv
  <2>2. x \in captured \ Mixed \/ Follower(x) => State(x) = StateFor(action)
    <3>1. CASE x = o
      <4>1. x \notin Mixed => State(x) = StateFor(action)  BY <1>5, <2>1, <3>1 DEF AllInLine
      <4>2. Follower(x) => x \notin Mixed  BY DEF Follower, Plain
      <4>3. QED BY <4>1, <4>2
    <3>2. CASE x # o  BY <1>5, <1>7, <2>1, <3>2 DEF AllInLine
    <3>3. QED BY <3>1, <3>2
  <2>3. \A y \in Objects : y \in captured \ Mixed \/ Follower(y) => State(y)' = State(y)
    BY <1>8, <2>2
  <2>4. \A y \in Logged' \ Mixed' : State(y)' = StateFor(Latest(y)'.action)
    BY <1>12, <1>13, <2>1, <2>3, Shape DEF AllInLine
  <2>5. ASSUME NEW d \in Objects, Follower(d)' PROVE FollowsSources(d)' /\ InPlace(d)'
    <3>1. FollowsSources(d) /\ InPlace(d)  BY <1>13, <2>1, <2>5 DEF AllInLine
    <3>2. rows'[d].state = rows[d].state /\ files' = files /\ SourcesOf(d)' = SourcesOf(d)
          /\ \A s \in SourcesOf(d) : rows'[s].state = rows[s].state
      <4>1. Follower(d) /\ \A s \in SourcesOf(d) : s \in captured \ Mixed /\ s \in Objects
        BY <1>13, <2>5, Shape
      <4>2. QED BY <1>3, <1>13, <2>3, <4>1 DEF State
    <3>3. InPlace(d)'  BY <3>1, <3>2 DEF InPlace
    <3>4. {rows'[s].state : s \in SourcesOf(d)'} = {rows[s].state : s \in SourcesOf(d)}
      BY <3>2
    <3>5. FollowsSources(d)'  BY <3>1, <3>2, <3>4 DEF FollowsSources
    <3>6. QED BY <3>3, <3>5
  <2>6. QED BY <2>4, <2>5, Zenon DEF AllInLine
<1>27. QED
  BY <1>12, <1>16, <1>17, <1>18, <1>19, <1>22, <1>24, <1>25, <1>26 DEF IInv

-----------------------------------------------------------------------------
LEMMA Stutter ==
  ASSUME IInv, UNCHANGED vars
  PROVE  IInv'
<1>1. TablesKept /\ UNCHANGED <<pending, applying, opening, stale>>
  BY DEF vars, TablesKept
<1>2. TypeOK'  BY <1>1 DEF IInv, TypeOK, TablesKept
<1>3. /\ TablesAgree' /\ EveryLatestExists' /\ SourcesKeepToLog' /\ FollowersKeepBytes'
      /\ Logged' = Logged /\ (\A o : Latest(o)' = Latest(o))
      /\ Mixed' = Mixed
      /\ \A d : /\ (Follower(d)' <=> Follower(d)) /\ SourcesOf(d)' = SourcesOf(d)
                /\ State(d)' = State(d) /\ (Plain(d)' <=> Plain(d))
      /\ AllInLine => AllInLine'
  BY <1>1, <1>2, KeptTables DEF IInv, TablesAgree
<1>4. ApplyingIsSound'
  <2>1. ApplyingIsSound  BY DEF IInv
  <2>2. NextObject' = NextObject  BY <1>1 DEF NextObject
  <2>3. \A d, o, a : NeededByOther(d, o, a)' <=> NeededByOther(d, o, a)
    BY <1>1 DEF NeededByOther, TablesKept
  <2>4. files' = files /\ captured' = captured /\ links' = links
    BY <1>1 DEF TablesKept
  <2>5. QED BY <1>1, <1>3, <2>1, <2>2, <2>3, <2>4 DEF ApplyingIsSound
<1>5. InLine' => RecordsApplied' /\ FollowersApplied'
  <2> SUFFICES ASSUME InLine' PROVE RecordsApplied' /\ FollowersApplied'  OBVIOUS
  <2>1. RecordsApplied /\ FollowersApplied  BY <1>1 DEF InLine, IInv
  <2>2. RecordsApplied'  BY <1>1, <1>3, <2>1 DEF RecordsApplied
  <2>3. \A d : Done(d)' = Done(d)  BY <1>1, <1>3 DEF Done
  <2>4. files' = files  BY <1>1 DEF TablesKept
  <2>5. FollowersApplied'  BY <1>1, <1>3, <2>1, <2>3, <2>4 DEF FollowersApplied
  <2>6. QED BY <2>2, <2>5
<1>6. (opening' => pending' # {}) /\ (opening' /\ ~stale' => AllInLine')
  BY <1>1, <1>3 DEF IInv
<1>7. QED BY <1>2, <1>3, <1>4, <1>5, <1>6 DEF IInv

LEMMA NextIInv ==
  ASSUME IInv, [Next]_vars
  PROVE  IInv'
<1>1. ASSUME NEW o \in Originals, CaptureSource(o) PROVE IInv'
  <2>1. o \in Objects  BY ObjectAssumption
  <2>2. \/ UNCHANGED <<rows, captured, links>>
        \/ rows' = WithRow(o) /\ captured' = captured \cup {o} /\ UNCHANGED links
    BY <1>1 DEF CaptureSource
  <2>3. QED BY <1>1, <2>1, <2>2, AddStep DEF CaptureSource
<1>2. ASSUME NEW p \in Derives, AddDerived(p[1], p[2]) PROVE IInv'
  <2>1. p[1] \in Objects /\ p[2] \in Objects /\ <<p[1], p[2]>> \in Derives
    BY ObjectAssumption
  <2>2. \/ UNCHANGED <<rows, captured, links>>
        \/ /\ rows' = WithRow(p[1]) /\ UNCHANGED captured
           /\ p[2] \in captured /\ State(p[2]) = "active"
           /\ links' = links \cup {<<p[1], p[2]>>}
    BY <1>2 DEF AddDerived, State
  <2>3. QED BY <1>2, <2>1, <2>2, AddStep DEF AddDerived
<1>3. ASSUME NEW o \in Targets, Quarantine(o) \/ Unquarantine(o) \/ Purge(o) PROVE IInv'
  <2>1. o \in Objects  BY ObjectAssumption
  <2>2. CASE Quarantine(o)
    <3>1. State(o) = "active"  BY <2>2 DEF Quarantine, State
    <3>2. SourcesOf(o) = {} => files[o] # {}
      <4>1. SourcesOf(o) = {} => o \in captured /\ o \notin Mixed
        BY <2>1, <3>1 DEF IInv, TablesAgree, Mixed
      <4>2. QED BY <3>1, <4>1, Shape DEF IInv, SourcesKeepToLog, OwnRecord, Actions
    <3>3. SourcesOf(o) = {} => OwnRecord(o, "quarantine")  BY <3>1, <3>2 DEF OwnRecord
    <3>4. QED BY <2>2, <3>1, <3>3, AppendStep DEF Quarantine, Actions
  <2>3. CASE Unquarantine(o)
    <3>1. State(o) = "quarantined"  BY <2>3 DEF Unquarantine, State
    <3>2. files[o] # {}  BY <2>3 DEF Unquarantine, Restorable
    <3>3. OwnRecord(o, "restore")  BY <3>1, <3>2 DEF OwnRecord
    <3>4. QED BY <2>3, <3>1, <3>3, AppendStep DEF Unquarantine, Actions
  <2>4. CASE Purge(o)
    <3>1. State(o) = "quarantined"  BY <2>4 DEF Purge, State
    <3>2. OwnRecord(o, "purge")  BY <3>1 DEF OwnRecord
    <3>3. QED BY <2>4, <3>1, <3>2, AppendStep DEF Purge, Actions
  <2>5. QED BY <1>3, <2>2, <2>3, <2>4
<1>4. CASE Open \/ BeginApply \/ MoveFile \/ SetRow \/ Stop \/ ThirtyDays
  BY <1>4, OpenStep, BeginStep, MoveStep, SetRowStep, StopStep, AgeStep
<1>5. CASE UNCHANGED vars  BY <1>5, Stutter
<1>6. QED BY <1>1, <1>2, <1>3, <1>4, <1>5 DEF Next

-----------------------------------------------------------------------------
(* The theorems.                                                            *)

(* The rows, the files, the log and what is being applied always fit together  *)
(* as IInv says, whatever was stopped and replayed.                         *)
THEOREM InvariantHolds ==
  Spec => []IInv
<1>1. Init => IInv  BY InitIInv
<1>2. IInv /\ [Next]_vars => IInv'  BY NextIInv
<1>3. QED BY <1>1, <1>2, PTL DEF Spec

(* Every table, directory and record keeps its type.                        *)
THEOREM TypeCorrect ==
  Spec => []TypeOK
<1>1. IInv => TypeOK  BY DEF IInv
<1>2. QED BY <1>1, InvariantHolds, PTL

LEMMA EveryObjectInPlace ==
  ASSUME IInv, AllInLine, NEW o \in Objects, Plain(o)
  PROVE  InPlace(o)
<1>1. CASE Follower(o)  BY <1>1 DEF AllInLine
<1>2. CASE o \in captured /\ o \in Logged
  <2>1. o \notin Mixed  BY DEF Plain
  <2>2. /\ State(o) = StateFor(Latest(o).action) /\ OwnRecord(o, Latest(o).action)
        /\ Latest(o).action \in Actions
    BY <1>2, <2>1, Shape DEF AllInLine, IInv, SourcesKeepToLog
  <2>3. QED BY <2>2 DEF InPlace, State, StateFor, OwnRecord, Actions
<1>3. CASE o \in captured /\ o \notin Logged
  <2>1. o \notin Mixed  BY DEF Plain
  <2>2. QED BY <1>3, <2>1 DEF IInv, SourcesKeepToLog, InPlace, State
<1>4. CASE o \notin captured /\ SourcesOf(o) = {}
  BY <1>4 DEF IInv, TablesAgree, InPlace, State
<1>5. QED BY <1>1, <1>2, <1>3, <1>4 DEF Follower

(* Where no record names an object that follows a source, every object is     *)
(* plain.                                                                   *)
LEMMA AllPlain ==
  ASSUME Mixed = {}
  PROVE  \A o : Plain(o)
BY DEF Plain

(* Between actions the row of every object that moves by its own records only,  *)
(* or with its sources only, says where its bytes are, however the actions   *)
(* before stopped and were replayed; of every object, while no record names  *)
(* one that follows a source.                                               *)
THEOREM RowsTell ==
  Spec => /\ [](Settled => \A o \in Objects : Plain(o) => InPlace(o))
          /\ [](Mixed = {} => RowsTellPlaces)
<1>1. IInv => (Settled => \A o \in Objects : Plain(o) => InPlace(o))
  BY SettledInLine, EveryObjectInPlace
<1>2. IInv => (Mixed = {} => RowsTellPlaces)  BY <1>1, AllPlain DEF RowsTellPlaces
<1>3. QED BY <1>1, <1>2, InvariantHolds, PTL

(* Between actions an object that moves with its sources is exactly as deleted  *)
(* as the least deleted of them, for every derivation graph.                *)
THEOREM DerivedObjectsFollow ==
  Spec => /\ [](Settled => \A d \in Objects : Follower(d) => FollowsSources(d))
          /\ [](Mixed = {} => DerivedFollows)
<1>1. IInv => (Settled => \A d \in Objects : Follower(d) => FollowsSources(d))
  BY SettledInLine DEF AllInLine
<1>2. IInv => (Mixed = {} => DerivedFollows)
  BY <1>1, AllPlain DEF DerivedFollows, Follower
<1>3. QED BY <1>1, <1>2, InvariantHolds, PTL

(* A purge is the last record of o, or of each object it was made from.       *)
PurgedByLog(o) ==
  \/ PurgeLogged(o)
  \/ SourcesOf(o) # {} /\ \A s \in SourcesOf(o) : PurgeLogged(s)

(* Bytes disappear only under a purge: at every moment, in the middle of an    *)
(* action or after a stop too.                                              *)
THEOREM BytesOnlyPurged ==
  Spec => /\ [](\A o \in Objects :
                  Plain(o) /\ rows[o].state # "absent" /\ files[o] = {} => PurgedByLog(o))
          /\ [](Mixed = {} => BytesSurvive)
<1>1. ASSUME IInv, NEW o \in Objects, Plain(o), rows[o].state # "absent", files[o] = {}
      PROVE  PurgedByLog(o)
  <2>1. ASSUME NEW s \in captured \ Mixed, State(s) = "purged" PROVE PurgeLogged(s)
    BY <1>1, <2>1, Shape DEF IInv, SourcesKeepToLog, OwnRecord, Actions, PurgeLogged
  <2>2. CASE o \in captured
    <3>1. o \notin Mixed  BY <1>1 DEF Plain
    <3>2. QED
      BY <1>1, <2>2, <3>1, Shape
         DEF IInv, SourcesKeepToLog, OwnRecord, Actions, PurgeLogged, PurgedByLog
  <2>3. CASE o \notin captured
    <3>1. SourcesOf(o) # {}  BY <1>1, <2>3 DEF IInv, TablesAgree, State
    <3>2. Follower(o)  BY <1>1, <2>3, <3>1 DEF Follower
    <3>3. \A s \in SourcesOf(o) : s \in captured \ Mixed /\ State(s) = "purged"
      BY <1>1, <3>2, Shape DEF IInv, FollowersKeepBytes
    <3>4. QED BY <2>1, <3>1, <3>3 DEF PurgedByLog
  <2>4. QED BY <2>2, <2>3
<1>2. IInv => (Mixed = {} => BytesSurvive)  BY <1>1, AllPlain DEF BytesSurvive, PurgedByLog
<1>3. IInv => \A o \in Objects :
                Plain(o) /\ rows[o].state # "absent" /\ files[o] = {} => PurgedByLog(o)
  BY <1>1
<1>4. QED BY <1>2, <1>3, InvariantHolds, PTL

(* o moves by its own records, and nothing made from it has a record.         *)
PlainWithDerived(o) == Plain(o) /\ \A d \in derivedObjects(o, "restore") : Plain(d)

(* Between actions every quarantined object can be restored with all that a    *)
(* restore would bring back, unless something made from it has a record of   *)
(* its own (its bytes may be purged).                                       *)
THEOREM QuarantineIsReversible ==
  Spec => /\ [](Settled => \A o \in Objects :
                  PlainWithDerived(o) /\ rows[o].state = "quarantined" => Restorable(o))
          /\ [](Mixed = {} => QuarantinedIsRestorable)
<1>1. ASSUME IInv, Settled, NEW o \in Objects, PlainWithDerived(o), rows[o].state = "quarantined"
      PROVE  Restorable(o)
  <2>1. State(o) = "quarantined" /\ Plain(o)  BY <1>1 DEF State, PlainWithDerived
  <2>2. files[o] # {}
    BY <1>1, <2>1, SettledInLine, EveryObjectInPlace DEF InPlace
  <2>3. ASSUME NEW d \in derivedObjects(o, "restore") PROVE files[d] # {}
    <3>1. d \in Objects /\ d \notin captured /\ <<d, o>> \in links  BY DEF derivedObjects
    <3>2. Plain(d)  BY <1>1 DEF PlainWithDerived
    <3>3. Follower(d) /\ o \in SourcesOf(d)  BY <3>1, <3>2 DEF Follower, SourcesOf
    <3>4. QED BY <1>1, <2>1, <3>1, <3>3 DEF IInv, FollowersKeepBytes
  <2>4. QED BY <2>2, <2>3 DEF Restorable
<1>2. IInv => (Mixed = {} => QuarantinedIsRestorable)
  BY <1>1, AllPlain, ObjectAssumption DEF QuarantinedIsRestorable, PlainWithDerived
<1>3. IInv => (Settled => \A o \in Objects :
                 PlainWithDerived(o) /\ rows[o].state = "quarantined" => Restorable(o))
  BY <1>1
<1>4. QED BY <1>2, <1>3, InvariantHolds, PTL

(* Between actions nothing that moves by its own records only, and whose last  *)
(* record says it is deleted, has an active row or a file in objects/.       *)
THEOREM DeletedStaysHidden ==
  Spec => /\ [](Settled => \A o \in Logged \ Mixed :
                  Latest(o).action # "restore" => State(o) # "active" /\ "active" \notin files[o])
          /\ [](Mixed = {} => DeletedIsHidden)
<1>1. ASSUME IInv, Settled, NEW o \in Logged \ Mixed, Latest(o).action # "restore"
      PROVE  State(o) # "active" /\ "active" \notin files[o]
  <2>1. o \in Objects /\ o \in captured /\ Plain(o) /\ Latest(o).action \in Actions
    BY <1>1, Shape DEF Plain
  <2>2. State(o) = StateFor(Latest(o).action) /\ InPlace(o)
    BY <1>1, <2>1, SettledInLine, EveryObjectInPlace DEF AllInLine
  <2>3. CASE State(o) = "quarantined"
    <3>1. files[o] = {"quarantine"}  BY <2>2, <2>3 DEF InPlace, State
    <3>2. QED BY <2>3, <3>1
  <2>4. CASE State(o) = "purged"
    <3>1. files[o] = {}  BY <2>2, <2>4 DEF InPlace, State
    <3>2. QED BY <2>4, <3>1
  <2>5. QED BY <1>1, <2>1, <2>2, <2>3, <2>4 DEF StateFor, Actions
<1>2. IInv => (Mixed = {} => DeletedIsHidden)  BY <1>1 DEF DeletedIsHidden, State
<1>3. IInv => (Settled => \A o \in Logged \ Mixed :
                 Latest(o).action # "restore" => State(o) # "active" /\ "active" \notin files[o])
  BY <1>1
<1>4. QED BY <1>2, <1>3, InvariantHolds, PTL

(* In a replay of an archive that is in line, what comes next is where its     *)
(* record puts it already.                                                  *)
LEMMA ReplayedIsInPlace ==
  ASSUME IInv, opening, ~stale, applying.left # {},
         NEW x, x = NextObject, NEW action, action = applying.action, Plain(x)
  PROVE  /\ x \in Objects /\ action \in Actions
         /\ State(x) = StateFor(action) /\ InPlace(x)
<1>1. AllInLine  BY DEF IInv
<1>2. PICK o : o = applying.object  OBVIOUS
<1>3. /\ o \in Logged /\ o \in Objects /\ action = Latest(o).action /\ action \in Actions
      /\ x \in Objects
      /\ x # o => /\ x \notin captured /\ <<x, o>> \in links
                  /\ action # "restore" => ~NeededByOther(x, o, action)
  BY <1>2, ApplyingFacts
<1>4. State(o) = StateFor(action)
  <2>1. o \notin Mixed
    <3>1. CASE x = o  BY <3>1 DEF Plain
    <3>2. CASE x # o  BY <1>3, <3>2 DEF Plain, SourcesOf
    <3>3. QED BY <3>1, <3>2
  <2>2. QED BY <1>1, <1>3, <2>1 DEF AllInLine
<1>5. State(x) = StateFor(action)
  <2>1. CASE x = o  BY <1>4, <2>1
  <2>2. CASE x # o
    <3>1. Follower(x)  BY <1>3, <2>2 DEF Follower, SourcesOf
    <3>2. QED BY <1>1, <1>3, <1>4, <2>2, <3>1, SourcesDecide DEF AllInLine
  <2>3. QED BY <2>1, <2>2
<1>6. QED BY <1>1, <1>3, <1>5, EveryObjectInPlace

(* A step leaves o's row in its state and its bytes in their place, but for a   *)
(* file left in quarantine/ beside an active one.                           *)
Kept(o) == /\ rows'[o].state = rows[o].state
           /\ \/ files'[o] = files[o]
              \/ rows[o].state = "active" /\ files[o] = Places /\ files'[o] = {"active"}

(* Re-applying the log of an archive that is in line with it changes no row's  *)
(* state at any step and no file but a leftover beside an active one, for     *)
(* every plain object; so it changes nothing where all objects are plain.     *)
THEOREM ReplayChangesNothing ==
  /\ Spec => [][opening /\ ~stale => \A o \in Objects : Plain(o) => Kept(o)]_vars
  /\ Spec /\ [](Mixed = {}) => ReplayIsNeutral
<1>1. ASSUME IInv, [Next]_vars, opening, ~stale, NEW o \in Objects, Plain(o)
      PROVE  Kept(o)
  <2>1. ~LockFree  BY <1>1, FreeLock
  <2>2. CASE UNCHANGED <<rows, files>>  BY <2>2 DEF Kept
  <2>3. CASE MoveFile
    <3>1. PICK x, action : x = NextObject /\ action = applying.action  OBVIOUS
    <3>2. /\ applying.left # {} /\ UNCHANGED rows
          /\ files' = [files EXCEPT ![x] = Moved(files[x], action)]
      BY <2>3, <3>1 DEF MoveFile
    <3>3. /\ x \in Objects /\ action \in Actions
          /\ Plain(x) => State(x) = StateFor(action) /\ InPlace(x)
      BY <1>1, <3>1, <3>2, ApplyingFacts, ReplayedIsInPlace
    <3>4. files[x] \in SUBSET Places  BY <1>1, <3>3, Shape
    <3>5. CASE o # x  BY <1>1, <3>2, <3>5 DEF IInv, TypeOK, Kept
    <3>6. CASE o = x
      <4>1. files'[x] = Moved(files[x], action)  BY <1>1, <3>2, <3>3 DEF IInv, TypeOK
      <4>2. State(x) = StateFor(action) /\ InPlace(x)  BY <1>1, <3>3, <3>6
      <4>3. CASE action = "quarantine"
        <5>1. State(x) = "quarantined"  BY <4>2, <4>3 DEF StateFor
        <5>2. files[x] = {"quarantine"}  BY <4>2, <5>1 DEF InPlace, State
        <5>3. files'[x] = files[x]  BY <4>1, <4>3, <5>2 DEF Moved, moveIfPresent
        <5>4. QED BY <3>2, <3>6, <5>3 DEF Kept
      <4>4. CASE action = "restore"
        BY <3>2, <3>4, <3>6, <4>1, <4>2, <4>4
           DEF InPlace, State, StateFor, Moved, moveIfPresent, Places, Kept
      <4>5. CASE action = "purge"
        BY <3>2, <3>6, <4>1, <4>2, <4>5 DEF InPlace, State, StateFor, Moved, Kept
      <4>6. QED BY <3>3, <4>3, <4>4, <4>5 DEF Actions
    <3>7. QED BY <3>5, <3>6
  <2>4. CASE SetRow
    <3>1. PICK x, action : x = NextObject /\ action = applying.action  OBVIOUS
    <3>2. applying.left # {}
      BY <1>1, <2>4 DEF SetRow, IInv, ApplyingIsSound, NotApplying
    <3>3. Plain(x) => State(x) = StateFor(action)  BY <1>1, <3>1, <3>2, ReplayedIsInPlace
    <3>4. UNCHANGED files /\ rows' = RowSet(x)  BY <2>4, <3>1 DEF SetRow
    <3>5. rows'[o].state = rows[o].state
      <4>1. CASE o # x  BY <1>1, <3>4, <4>1 DEF RowSet, IInv, TypeOK
      <4>2. CASE o = x  BY <1>1, <3>1, <3>3, <3>4, <4>2 DEF RowSet, State, IInv, TypeOK
      <4>3. QED BY <4>1, <4>2
    <3>6. QED BY <3>4, <3>5 DEF Kept
  <2>5. QED
    BY <1>1, <2>1, <2>2, <2>3, <2>4
       DEF Next, vars, CaptureSource, AddDerived, Quarantine, Unquarantine, Purge, Open,
           BeginApply, Stop, ThirtyDays
<1>2. IInv /\ [Next]_vars => [opening /\ ~stale => \A o \in Objects : Plain(o) => Kept(o)]_vars
  BY <1>1
<1>3. IInv /\ Mixed = {} /\ [Next]_vars
        => [opening /\ ~stale => \A o \in Objects :
              /\ rows'[o].state = rows[o].state
              /\ \/ files'[o] = files[o]
                 \/ rows[o].state = "active" /\ files[o] = Places /\ files'[o] = {"active"}]_vars
  BY <1>1, AllPlain DEF Kept
<1>4. Spec => [][opening /\ ~stale => \A o \in Objects : Plain(o) => Kept(o)]_vars
  BY <1>2, InvariantHolds, PTL DEF Spec
<1>5. Spec /\ [](Mixed = {}) => ReplayIsNeutral
  BY <1>3, InvariantHolds, PTL DEF Spec, ReplayIsNeutral
<1>6. QED BY <1>4, <1>5

(* A purged object that moves by its own records only, or with its sources      *)
(* only, stays purged: neither an action on another source nor a replay       *)
(* brings its row back. (A later action on a source sets the row of a derived *)
(* object that was purged on its own.)                                      *)
THEOREM PurgedForGood ==
  /\ Spec => [][\A o \in Objects : rows[o].state = "purged" /\ Plain(o)
                                    => rows'[o].state = "purged"]_vars
  /\ Spec /\ [](Mixed = {}) => PurgedStays
<1>1. ASSUME IInv, [Next]_vars, NEW o \in Objects, rows[o].state = "purged", Plain(o)
      PROVE  rows'[o].state = "purged"
  <2>1. CASE UNCHANGED rows  BY <1>1, <2>1
  <2>2. ASSUME NEW y \in Objects, Usable(y), rows' = WithRow(y)
        PROVE  rows'[o].state = "purged"
    BY <1>1, <2>2, WithRowFacts DEF State, IInv, TypeOK
  <2>3. CASE ThirtyDays
    <3>1. rows[o] \in Row  BY <1>1, Shape
    <3>2. rows'[o] = [rows[o] EXCEPT !.at = "ripe"]  BY <1>1, <2>3 DEF ThirtyDays
    <3>3. QED BY <1>1, <3>1, <3>2 DEF Row
  <2>4. CASE SetRow
    <3>1. PICK x, action, a : x = NextObject /\ action = applying.action /\ a = applying.object
      OBVIOUS
    <3>2. applying.left # {}
      BY <1>1, <2>4 DEF SetRow, IInv, ApplyingIsSound, NotApplying
    <3>3. /\ a \in Objects /\ x \in Objects /\ action \in Actions
          /\ a \notin Mixed => OwnRecord(a, action)
          /\ x # a => x \notin captured /\ <<x, a>> \in links /\ State(a) = StateFor(action)
      BY <1>1, <3>1, <3>2, ApplyingFacts
    <3>4. rows' = RowSet(x)  BY <2>4, <3>1 DEF SetRow
    <3>5. CASE x # o  BY <1>1, <3>4, <3>5 DEF RowSet, IInv, TypeOK
    <3>6. CASE x = o
      <4>1. State(a) = "purged" => action = "purge"
        <5>1. a \notin Mixed
          <6>1. CASE x = a  BY <1>1, <3>6, <6>1 DEF Plain
          <6>2. CASE x # a  BY <1>1, <3>3, <3>6, <6>2 DEF Plain, SourcesOf
          <6>3. QED BY <6>1, <6>2
        <5>2. QED BY <3>3, <5>1 DEF OwnRecord, Actions
      <4>2. x # a => State(a) = "purged"
        <5>1. x # a => Follower(x) /\ a \in SourcesOf(x)
          BY <1>1, <3>3, <3>6 DEF Follower, SourcesOf
        <5>2. QED BY <1>1, <3>3, <3>6, <5>1 DEF IInv, FollowersKeepBytes, State
      <4>3. action = "purge"  BY <1>1, <3>6, <4>1, <4>2 DEF State
      <4>4. StateFor(action) = "purged"  BY <4>3 DEF StateFor
      <4>5. QED BY <1>1, <3>1, <3>4, <3>6, <4>4 DEF RowSet, IInv, TypeOK
    <3>7. QED BY <3>5, <3>6
  <2>5. CASE \E y \in Originals : CaptureSource(y)
    <3>1. PICK y \in Originals : CaptureSource(y)  BY <2>5
    <3>2. y \in Objects  BY ObjectAssumption
    <3>3. QED BY <2>1, <2>2, <3>1, <3>2 DEF CaptureSource
  <2>6. CASE \E p \in Derives : AddDerived(p[1], p[2])
    <3>1. PICK p \in Derives : AddDerived(p[1], p[2])  BY <2>6
    <3>2. p[1] \in Objects  BY ObjectAssumption
    <3>3. QED BY <2>1, <2>2, <3>1, <3>2 DEF AddDerived
  <2>7. QED
    BY <1>1, <2>1, <2>3, <2>4, <2>5, <2>6
       DEF Next, vars, Quarantine, Unquarantine, Purge, Append1, Open, BeginApply, MoveFile, Stop
<1>2. IInv /\ [Next]_vars
        => [\A o \in Objects : rows[o].state = "purged" /\ Plain(o)
                                 => rows'[o].state = "purged"]_vars
  BY <1>1
<1>3. IInv /\ Mixed = {} /\ [Next]_vars
        => [\A o \in Objects : rows[o].state = "purged" => rows'[o].state = "purged"]_vars
  BY <1>1, AllPlain
<1>4. Spec => [][\A o \in Objects : rows[o].state = "purged" /\ Plain(o)
                                      => rows'[o].state = "purged"]_vars
  BY <1>2, InvariantHolds, PTL DEF Spec
<1>5. Spec /\ [](Mixed = {}) => PurgedStays
  BY <1>3, InvariantHolds, PTL DEF Spec, PurgedStays
<1>6. QED BY <1>4, <1>5

-----------------------------------------------------------------------------
(* Who is quarantined has a record of it, and the last one is as old as its    *)
(* row says.                                                                *)

Quarantines(k, o) == log[k].object = o /\ log[k].action = "quarantine"

QuarantineRecorded(o) ==
  \E k \in 1..Len(log) : /\ Quarantines(k, o) /\ \A m \in (k + 1)..Len(log) : ~Quarantines(m, o)
                         /\ rows[o].at = "ripe" => log[k].at = "ripe"

AgesAgree ==
  /\ \A o \in captured : State(o) = "quarantined" => QuarantineRecorded(o)
  /\ applying # NotApplying => applying.at = Latest(applying.object).at

LEMMA RecordsStay ==
  ASSUME IInv, NEW rec \in Record, log' = Append(log, rec), NEW o, QuarantineRecorded(o),
         rows'[o] = rows[o], rec.object # o \/ rec.action # "quarantine"
  PROVE  QuarantineRecorded(o)'
<1>1. /\ Len(log) \in Nat /\ Len(log') = Len(log) + 1 /\ log'[Len(log) + 1] = rec
      /\ \A n \in 1..Len(log) : log'[n] = log[n]
  BY DEF IInv, TypeOK
<1>2. PICK k \in 1..Len(log) :
        /\ Quarantines(k, o) /\ \A m \in (k + 1)..Len(log) : ~Quarantines(m, o)
        /\ rows[o].at = "ripe" => log[k].at = "ripe"
  BY DEF QuarantineRecorded
<1>3. k \in 1..Len(log') /\ Quarantines(k, o)' /\ (rows'[o].at = "ripe" => log'[k].at = "ripe")
  BY <1>1, <1>2 DEF Quarantines
<1>4. ASSUME NEW m \in (k + 1)..Len(log') PROVE ~(log'[m].object = o /\ log'[m].action = "quarantine")
  <2>1. CASE m = Len(log) + 1  BY <1>1, <2>1
  <2>2. CASE m # Len(log) + 1
    <3>1. m \in (k + 1)..Len(log) /\ m \in 1..Len(log)  BY <1>1, <1>2, <2>2
    <3>2. QED BY <1>1, <1>2, <3>1 DEF Quarantines
  <2>3. QED BY <2>1, <2>2
<1>5. QED BY <1>3, <1>4 DEF QuarantineRecorded, Quarantines

LEMMA NextAgesAgree ==
  ASSUME IInv, IInv', AgesAgree, [Next]_vars
  PROVE  AgesAgree'
<1>1. ASSUME UNCHANGED <<log, applying>>,
             \A y \in captured' : \/ y \in captured /\ rows'[y] = rows[y]
                                  \/ State(y)' # "quarantined"
      PROVE  AgesAgree'
  <2>1. Latest(applying.object)' = Latest(applying.object)  BY <1>1, SameLog
  <2>2. \A y : QuarantineRecorded(y) /\ rows'[y] = rows[y] => QuarantineRecorded(y)'
    BY <1>1 DEF QuarantineRecorded, Quarantines
  <2>3. QED BY <1>1, <2>1, <2>2 DEF AgesAgree, State
<1>2. ASSUME NEW y \in Objects, Usable(y), rows' = WithRow(y), UNCHANGED <<log, applying>>,
             captured' \subseteq captured \cup {y}
      PROVE  AgesAgree'
  <2>1. State(y)' = "active"  BY <1>2, WithRowFacts DEF IInv, TypeOK
  <2>2. \A z \in Objects \ {y} : rows'[z] = rows[z]  BY <1>2 DEF WithRow, IInv, TypeOK
  <2>3. captured \subseteq Objects  BY Shape
  <2>4. QED BY <1>1, <1>2, <2>1, <2>2, <2>3
<1>3. ASSUME NEW o \in Targets, NEW action \in Actions, Append1(o, action), LockFree,
             action = "quarantine" => State(o) = "active"
      PROVE  AgesAgree'
  <2>1. PICK rec : rec = [action |-> action, object |-> o, at |-> "recent"]  OBVIOUS
  <2>2. rec \in Record  BY <2>1, ObjectAssumption DEF Record, Ages
  <2>3. log' = Append(log, rec) /\ UNCHANGED <<rows, captured, applying>>
    BY <1>3, <2>1 DEF Append1
  <2>4. applying' = NotApplying  BY <1>3, <2>3, FreeLock
  <2>5. \A y \in captured : State(y) = "quarantined" => QuarantineRecorded(y)'
    <3>1. \A y : State(y) = "quarantined" => rec.object # y \/ rec.action # "quarantine"
      BY <1>3, <2>1
    <3>2. QED BY <2>2, <2>3, <3>1, RecordsStay DEF AgesAgree
  <2>6. QED BY <2>3, <2>4, <2>5 DEF AgesAgree, State
<1>4. CASE ThirtyDays
  <2>1. /\ rows' = [o \in Objects |-> [rows[o] EXCEPT !.at = "ripe"]]
        /\ log' = [n \in 1..Len(log) |-> [log[n] EXCEPT !.at = "ripe"]]
        /\ UNCHANGED <<captured, applying>> /\ applying = NotApplying
    BY <1>4, FreeLock DEF ThirtyDays
  <2>2. log \in Seq(Record) /\ Len(log) \in Nat  BY DEF IInv, TypeOK
  <2>3. ASSUME NEW n \in 1..Len(log)
        PROVE  log'[n].object = log[n].object /\ log'[n].action = log[n].action /\ log'[n].at = "ripe"
    <3>1. log[n] \in Record  BY <2>2
    <3>2. log'[n] = [log[n] EXCEPT !.at = "ripe"]  BY <2>1
    <3>3. QED BY <3>1, <3>2 DEF Record
  <2>4. Len(log') = Len(log)
    <3>1. log' \in Seq(Record) /\ DOMAIN log' = 1..Len(log)  BY <2>1 DEF IInv, TypeOK
    <3>2. QED BY <2>2, <3>1
  <2>5. \A o \in captured : rows[o] \in Row /\ rows'[o] = [rows[o] EXCEPT !.at = "ripe"]
    BY <2>1, Shape
  <2>6. \A o \in captured : rows'[o].state = rows[o].state  BY <2>5 DEF Row
  <2>7. \A o \in captured : State(o) = "quarantined" => QuarantineRecorded(o)'
    <3>1. \A y, k \in 1..Len(log) : Quarantines(k, y)' <=> Quarantines(k, y)
      BY <2>3 DEF Quarantines
    <3>2. ASSUME NEW y, QuarantineRecorded(y) PROVE QuarantineRecorded(y)'
      <4>1. PICK k \in 1..Len(log) :
              Quarantines(k, y) /\ \A m \in (k + 1)..Len(log) : ~Quarantines(m, y)
        BY <3>2 DEF QuarantineRecorded
      <4>2. \A m \in (k + 1)..Len(log) : m \in 1..Len(log)  BY <2>2
      <4>3. /\ k \in 1..Len(log') /\ log'[k].object = y /\ log'[k].action = "quarantine"
            /\ log'[k].at = "ripe"
        BY <2>3, <2>4, <4>1 DEF Quarantines
      <4>4. \A m \in (k + 1)..Len(log') : ~(log'[m].object = y /\ log'[m].action = "quarantine")
        BY <2>3, <2>4, <4>1, <4>2 DEF Quarantines
      <4>5. QED BY <4>3, <4>4 DEF QuarantineRecorded, Quarantines
    <3>3. QED BY <3>2 DEF AgesAgree
  <2>8. QED BY <2>1, <2>6, <2>7 DEF AgesAgree, State
<1>5. CASE SetRow
  <2>1. PICK x, action, o : x = NextObject /\ action = applying.action /\ o = applying.object
    OBVIOUS
  <2>2. applying # NotApplying /\ applying.left # {}
    BY <1>5 DEF SetRow, IInv, ApplyingIsSound, NotApplying
  <2>3. /\ o \in Logged /\ x \in Objects /\ action = Latest(o).action /\ action \in Actions
        /\ x # o => x \notin captured
    BY <2>1, <2>2, ApplyingFacts
  <2>4. rows' = RowSet(x) /\ UNCHANGED <<log, captured>>  BY <1>5, <2>1 DEF SetRow
  <2>5. \A y \in Objects \ {x} : rows'[y] = rows[y]  BY <2>4 DEF RowSet, IInv, TypeOK
  <2>6. applying' = NotApplying \/ (applying'.at = applying.at /\ applying'.object = o)
    <3>1. applying \in Applying  BY DEF IInv, TypeOK
    <3>2. PICK rest : rest = applying.left \ {x}  OBVIOUS
    <3>3. applying' = NotApplying \/ applying' = [applying EXCEPT !.left = rest, !.moved = {}]
      BY <1>5, <2>1, <3>2 DEF SetRow
    <3>4. QED BY <2>1, <3>1, <3>3 DEF Applying
  <2>7. ASSUME NEW y \in captured, State(y)' = "quarantined" PROVE QuarantineRecorded(y)'
    <3>1. y \in Objects  BY Shape
    <3>2. CASE y # x \/ rows'[y] = rows[y]
      <4>1. rows'[y] = rows[y]  BY <2>5, <3>1, <3>2
      <4>2. QuarantineRecorded(y)  BY <2>7, <4>1 DEF AgesAgree, State
      <4>3. QED BY <2>4, <4>1, <4>2 DEF QuarantineRecorded, Quarantines
    <3>3. CASE y = x /\ rows'[y] # rows[y]
      <4>1. y = o  BY <2>3, <3>3
      <4>2. PICK new : new = [state |-> StateFor(action), at |-> applying.at]  OBVIOUS
      <4>3. rows'[o] = new
        BY <2>1, <2>4, <3>1, <3>3, <4>1, <4>2 DEF RowSet, IInv, TypeOK
      <4>4. action = "quarantine"
        BY <2>3, <2>7, <4>1, <4>2, <4>3 DEF State, StateFor, Actions
      <4>5. PICK rec \in Record : LatestIs(o, rec)  BY <2>3 DEF IInv, EveryLatestExists
      <4>6. Latest(o) = rec /\ rec.object = o  BY <4>5, LatestFound DEF IInv, TypeOK
      <4>7. PICK n \in 1..Len(log) :
              log[n] = rec /\ \A k \in (n + 1)..Len(log) : log[k].object # o
        BY <4>5 DEF LatestIs
      <4>8. rows'[o].at = rec.at  BY <2>1, <2>2, <4>2, <4>3, <4>6 DEF AgesAgree
      <4>9. QED
        BY <2>3, <2>4, <4>1, <4>4, <4>6, <4>7, <4>8 DEF QuarantineRecorded, Quarantines
    <3>4. QED BY <3>2, <3>3
  <2>8. Latest(o)' = Latest(o)  BY <2>4, SameLog
  <2>9. QED BY <2>1, <2>2, <2>4, <2>6, <2>7, <2>8 DEF AgesAgree
<1>6. CASE BeginApply
  <2>1. PICK o : o = Least(pending)  OBVIOUS
  <2>2. o \in pending
    <3>1. pending \subseteq Nat  BY ObjectAssumption DEF IInv, TypeOK
    <3>2. QED BY <1>6, <2>1, <3>1, LeastMember DEF BeginApply
  <2>3. Latest(o).object = o  BY <2>2, Shape
  <2>4. applying'.object = o /\ applying'.at = Latest(o).at /\ UNCHANGED <<rows, captured, log>>
    BY <1>6, <2>1, <2>3 DEF BeginApply
  <2>5. Latest(o)' = Latest(o)  BY <2>4, SameLog
  <2>6. \A y \in captured : State(y) = "quarantined" => QuarantineRecorded(y)'
    BY <2>4 DEF AgesAgree, QuarantineRecorded, Quarantines
  <2>7. QED BY <2>4, <2>5, <2>6 DEF AgesAgree, State
<1>7. CASE MoveFile
  <2>1. PICK o : o = applying.object  OBVIOUS
  <2>2. applying'.object = o /\ applying'.at = applying.at /\ UNCHANGED <<rows, captured, log>>
    <3>1. applying \in Applying  BY DEF IInv, TypeOK
    <3>2. QED BY <1>7, <2>1, <3>1 DEF MoveFile, Applying
  <2>3. applying # NotApplying  BY <1>7 DEF MoveFile, NotApplying
  <2>4. Latest(o)' = Latest(o)  BY <2>2, SameLog
  <2>5. \A y \in captured : State(y) = "quarantined" => QuarantineRecorded(y)'
    BY <2>2 DEF AgesAgree, QuarantineRecorded, Quarantines
  <2>6. QED BY <2>1, <2>2, <2>3, <2>4, <2>5 DEF AgesAgree, State
<1>8. CASE Stop
  <2>1. applying' = NotApplying /\ UNCHANGED <<rows, captured, log>>  BY <1>8 DEF Stop
  <2>2. \A y \in captured : State(y) = "quarantined" => QuarantineRecorded(y)'
    BY <2>1 DEF AgesAgree, QuarantineRecorded, Quarantines
  <2>3. QED BY <2>1, <2>2 DEF AgesAgree, State
<1>9. CASE \E y \in Originals : CaptureSource(y)
  <2>1. PICK y \in Originals : CaptureSource(y)  BY <1>9
  <2>2. y \in Objects  BY ObjectAssumption
  <2>3. CASE UNCHANGED <<rows, captured>>  BY <1>1, <2>1, <2>3 DEF CaptureSource
  <2>4. CASE rows' = WithRow(y) /\ captured' = captured \cup {y}
    BY <1>2, <2>1, <2>2, <2>4 DEF CaptureSource
  <2>5. QED BY <2>1, <2>3, <2>4 DEF CaptureSource
<1>10. CASE \E p \in Derives : AddDerived(p[1], p[2])
  <2>1. PICK p \in Derives : AddDerived(p[1], p[2])  BY <1>10
  <2>2. p[1] \in Objects  BY ObjectAssumption
  <2>3. CASE UNCHANGED rows  BY <1>1, <2>1, <2>3 DEF AddDerived
  <2>4. CASE rows' = WithRow(p[1])  BY <1>2, <2>1, <2>2, <2>4 DEF AddDerived
  <2>5. QED BY <2>1, <2>3, <2>4 DEF AddDerived
<1>11. CASE \E o \in Targets : Quarantine(o) \/ Unquarantine(o) \/ Purge(o)
  BY <1>3, <1>11 DEF Quarantine, Unquarantine, Purge, Actions, State
<1>12. CASE Open \/ UNCHANGED vars  BY <1>1, <1>12 DEF Open, vars
<1>13. QED
  BY <1>4, <1>5, <1>6, <1>7, <1>8, <1>9, <1>10, <1>11, <1>12 DEF Next

(* There is one last quarantine of an object.                               *)
LEMMA LastQuarantineFound ==
  ASSUME IInv, NEW o, NEW k \in 1..Len(log), Quarantines(k, o),
         \A m \in (k + 1)..Len(log) : ~Quarantines(m, o)
  PROVE  LastQuarantine(o) = log[k]
<1> DEFINE Last(n) == /\ log[n].object = o /\ log[n].action = "quarantine"
                      /\ \A m \in (n + 1)..Len(log) : ~(log[m].object = o /\ log[m].action = "quarantine")
<1>1. Last(k)  BY DEF Quarantines
<1>2. ASSUME NEW n \in 1..Len(log), Last(n) PROVE n = k
  <2>1. Len(log) \in Nat  BY DEF IInv, TypeOK
  <2>2. ~(n < k)  BY <1>1, <1>2, <2>1
  <2>3. ~(k < n)  BY <1>1, <1>2, <2>1
  <2>4. QED BY <2>1, <2>2, <2>3
<1>3. (CHOOSE n \in 1..Len(log) : Last(n)) = k  BY <1>1, <1>2
<1>4. QED BY <1>3 DEF LastQuarantine

(* o has been quarantined, the last time at least thirty days ago.            *)
LongQuarantined(o) ==
  /\ \E k \in DOMAIN log : log[k].object = o /\ log[k].action = "quarantine"
  /\ LastQuarantine(o).at = "ripe"

(* A purge of an original is recorded only thirty days after its last           *)
(* quarantine was, not after one from before a restore; and its quarantine is *)
(* then its last record, unless a later one was never applied or the object   *)
(* follows a source as well.                                                *)
THEOREM PurgeWaits ==
  /\ Spec => [][\A n \in DOMAIN log' \ DOMAIN log, o \in captured :
                  log'[n].action = "purge" /\ log'[n].object = o =>
                    /\ LongQuarantined(o)
                    /\ ~stale /\ o \notin Mixed => Latest(o).action = "quarantine"]_vars
  /\ Spec /\ [](Mixed = {}) => PurgedOnlyRipe
<1>1. Init => AgesAgree  BY DEF Init, AgesAgree
<1>2. IInv /\ IInv' /\ AgesAgree /\ [Next]_vars => AgesAgree'  BY NextAgesAgree
<1>3. ASSUME IInv, AgesAgree, [Next]_vars, NEW n \in DOMAIN log' \ DOMAIN log,
             log'[n].action = "purge"
      PROVE  \E o \in Targets :
               /\ log'[n].object = o /\ Purge(o) /\ o \in Logged' /\ links' = links
               /\ o \in captured => /\ LongQuarantined(o)
                                    /\ ~stale /\ o \notin Mixed => Latest(o).action = "quarantine"
  <2>1. log \in Seq(Record) /\ Len(log) \in Nat /\ DOMAIN log = 1..Len(log)
    BY <1>3 DEF IInv, TypeOK
  <2>2. ~ThirtyDays
    <3>1. ThirtyDays => DOMAIN log' = 1..Len(log)  BY DEF ThirtyDays
    <3>2. QED BY <1>3, <2>1, <3>1
  <2>3. PICK o \in Targets : Quarantine(o) \/ Unquarantine(o) \/ Purge(o)
    BY <1>3, <2>2 DEF Next, vars, CaptureSource, AddDerived, Open, BeginApply, MoveFile, SetRow, Stop
  <2>4. PICK action \in Actions :
          /\ log' = Append(log, [action |-> action, object |-> o, at |-> "recent"])
          /\ action = "purge" => Purge(o)
    BY <2>3 DEF Quarantine, Unquarantine, Purge, Append1, Actions
  <2>5. log'[n] = [action |-> action, object |-> o, at |-> "recent"] /\ n \in 1..Len(log')
    <3>1. Len(log') = Len(log) + 1 /\ DOMAIN log' = 1..(Len(log) + 1)  BY <2>1, <2>4
    <3>2. n = Len(log) + 1  BY <1>3, <2>1, <3>1
    <3>3. QED BY <2>1, <2>4, <3>1, <3>2
  <2>6. Purge(o) /\ log'[n].object = o  BY <1>3, <2>4, <2>5
  <2>7. State(o) = "quarantined" /\ rows[o].at = "ripe" /\ LockFree /\ links' = links
    BY <2>6 DEF Purge, State, Append1
  <2>8. o \in Logged'  BY <2>5, <2>6 DEF Logged
  <2>9. ASSUME o \in captured PROVE LongQuarantined(o) /\ o \in Logged
    <3>1. PICK k \in 1..Len(log) :
            /\ Quarantines(k, o) /\ \A m \in (k + 1)..Len(log) : ~Quarantines(m, o)
            /\ rows[o].at = "ripe" => log[k].at = "ripe"
      BY <1>3, <2>7, <2>9 DEF AgesAgree, QuarantineRecorded
    <3>2. LastQuarantine(o) = log[k]  BY <1>3, <3>1, LastQuarantineFound
    <3>3. LongQuarantined(o)  BY <2>1, <2>7, <3>1, <3>2 DEF LongQuarantined, Quarantines
    <3>4. QED BY <3>1, <3>3 DEF Logged, Quarantines
  <2>10. ASSUME o \in captured, ~stale, o \notin Mixed PROVE Latest(o).action = "quarantine"
    <3>1. o \in Logged \ (pending \cup Mixed)  BY <1>3, <2>7, <2>9, <2>10, FreeLock
    <3>2. State(o) = StateFor(Latest(o).action)
      BY <1>3, <2>10, <3>1 DEF IInv, InLine, RecordsApplied
    <3>3. Latest(o).action \in Actions  BY <1>3, <3>1, Shape
    <3>4. QED BY <2>7, <3>2, <3>3 DEF StateFor, Actions
  <2>11. QED BY <2>6, <2>7, <2>8, <2>9, <2>10
<1>4. IInv /\ AgesAgree /\ [Next]_vars
        => [\A n \in DOMAIN log' \ DOMAIN log, o \in captured :
              log'[n].action = "purge" /\ log'[n].object = o =>
                /\ LongQuarantined(o)
                /\ ~stale /\ o \notin Mixed => Latest(o).action = "quarantine"]_vars
  BY <1>3
<1>5. ASSUME IInv, AgesAgree, Mixed = {}, Mixed' = {}, [Next]_vars,
             NEW n \in DOMAIN log' \ DOMAIN log, log'[n].action = "purge"
      PROVE  /\ \E k \in DOMAIN log : log[k].object = log'[n].object /\ log[k].action = "quarantine"
             /\ LastQuarantine(log'[n].object).at = "ripe"
             /\ ~stale => Latest(log'[n].object).action = "quarantine"
  <2>1. PICK o \in Targets :
          /\ log'[n].object = o /\ Purge(o) /\ o \in Logged' /\ links' = links
          /\ o \in captured => /\ LongQuarantined(o)
                               /\ ~stale /\ o \notin Mixed => Latest(o).action = "quarantine"
    BY <1>3, <1>5
  <2>2. SourcesOf(o)' = {} /\ SourcesOf(o)' = SourcesOf(o)  BY <1>5, <2>1 DEF Mixed, SourcesOf
  <2>3. o \in captured
    BY <1>5, <2>1, <2>2, ObjectAssumption DEF IInv, TablesAgree, Purge, State
  <2>4. QED BY <1>5, <2>1, <2>3 DEF LongQuarantined
<1>6. IInv /\ AgesAgree /\ Mixed = {} /\ (Mixed = {})' /\ [Next]_vars
        => [\A n \in DOMAIN log' \ DOMAIN log :
              log'[n].action = "purge" =>
                LET o == log'[n].object IN
                /\ \E k \in DOMAIN log : log[k].object = o /\ log[k].action = "quarantine"
                /\ LastQuarantine(o).at = "ripe"
                /\ ~stale => Latest(o).action = "quarantine"]_vars
  BY <1>5
<1>7. Spec => [][\A n \in DOMAIN log' \ DOMAIN log, o \in captured :
                   log'[n].action = "purge" /\ log'[n].object = o =>
                     /\ LongQuarantined(o)
                     /\ ~stale /\ o \notin Mixed => Latest(o).action = "quarantine"]_vars
  BY <1>1, <1>2, <1>4, InvariantHolds, PTL DEF Spec
<1>8. Spec /\ [](Mixed = {}) => PurgedOnlyRipe
  BY <1>1, <1>2, <1>6, InvariantHolds, PTL DEF Spec, PurgedOnlyRipe
<1>9. QED BY <1>7, <1>8

-----------------------------------------------------------------------------
(* Backups and restores.                                                    *)

(* No reader finds o, neither by its row nor by its file.                     *)
Hidden(o) == rows[o].state # "active" /\ "active" \notin files[o]

(* The record being applied is the last of its object; only what was derived   *)
(* from the object moves along.                                             *)
ApplyingIsLatest ==
  applying # NotApplying =>
    LET o == applying.object IN
    /\ o \in pending /\ applying.action = Latest(o).action
    /\ applying.left # {}
    /\ \A d \in applying.left \ {o} : d \notin captured /\ <<d, o>> \in links
    /\ applying.moved # {} => applying.moved = {NextObject}

(* Only o's own records move it: it is an original, or made from nothing.      *)
MovesAlone(o) == o \in captured \/ SourcesOf(o) = {}

(* What the live log deleted, and no other record moves, is hidden in the       *)
(* restored copy once the replay has been at it: its file first, then its row. *)
ReplayHides ==
  unopened =>
    /\ stale
    /\ deleted = {o \in Logged : Latest(o).action # "restore"}
    /\ pending # {} => \A o \in deleted \ pending : MovesAlone(o) => Hidden(o)
    /\ applying # NotApplying =>
         /\ applying.moved # {} /\ NextObject \in deleted /\ MovesAlone(NextObject)
              => "active" \notin files[NextObject]
         /\ \A o \in deleted :
              MovesAlone(o) /\ o = applying.object /\ o \notin applying.left => Hidden(o)

BInv ==
  /\ BackupTypeOK
  /\ Logged \subseteq Targets /\ pending \subseteq Logged
  /\ EveryLatestExists
  /\ ApplyingIsLatest
  /\ ReplayHides

LEMMA BackupFacts ==
  ASSUME BInv
  PROVE  /\ TypeOK /\ EveryLatestExists /\ links \subseteq Derives
         /\ Objects \subseteq Nat /\ Logged \subseteq Objects /\ pending \subseteq Logged
         /\ \A o \in Logged : /\ Latest(o) \in Record /\ Latest(o).object = o
                              /\ Latest(o).action \in Actions
<1>1. TypeOK /\ EveryLatestExists /\ Logged \subseteq Targets  BY DEF BInv, BackupTypeOK
<1>2. ASSUME NEW o \in Logged
      PROVE  Latest(o) \in Record /\ Latest(o).object = o /\ Latest(o).action \in Actions
  <2>1. PICK rec \in Record : LatestIs(o, rec)  BY <1>1 DEF EveryLatestExists
  <2>2. Latest(o) = rec /\ rec.object = o  BY <1>1, <2>1, LatestFound DEF TypeOK
  <2>3. QED BY <2>2 DEF Record
<1>3. QED BY <1>1, <1>2, ObjectAssumption DEF BInv, TypeOK

(* What moves alone stays so while nothing is captured or derived.            *)
LEMMA StillAlone ==
  ASSUME UNCHANGED <<captured, links>>
  PROVE  \A o : MovesAlone(o)' <=> MovesAlone(o)
BY DEF MovesAlone, SourcesOf

LEMMA WithRowTyped ==
  ASSUME rows \in [Objects -> Row], NEW o \in Objects
  PROVE  WithRow(o) \in [Objects -> Row]
<1>1. [state |-> "active", at |-> "recent"] \in Row  BY DEF Row, States, Ages
<1>2. QED BY <1>1 DEF WithRow

LEMMA InitBInv == ASSUME BackupInit PROVE BInv
<1>1. IInv  BY InitIInv DEF BackupInit
<1>2. Logged = {} /\ pending = {} /\ applying = NotApplying
  BY DEF BackupInit, Init, Logged
<1>3. BackupTypeOK  BY <1>1 DEF IInv, BackupInit, BackupTypeOK
<1>4. EveryLatestExists  BY <1>1 DEF IInv
<1>5. ApplyingIsLatest  BY <1>2 DEF ApplyingIsLatest
<1>6. ReplayHides  BY DEF ReplayHides, BackupInit
<1>7. QED BY <1>2, <1>3, <1>4, <1>5, <1>6 DEF BInv

(* Captures, derivations and new records only come to an opened archive.      *)
LEMMA UsingStep == ASSUME BInv, Using PROVE BInv'
<1>1. ~unopened /\ unopened' = unopened /\ backup' = backup /\ deleted' = deleted  BY DEF Using
<1>2. ReplayHides'  BY <1>1 DEF ReplayHides
<1>3. ASSUME TypeOK', LockFree', UNCHANGED log PROVE BInv'
  <2>1. pending' = {} /\ applying' = NotApplying  BY <1>3 DEF LockFree
  <2>2. BackupTypeOK'  BY <1>1, <1>3 DEF BInv, BackupTypeOK
  <2>3. Logged' = Logged /\ EveryLatestExists'  BY <1>3, SameLog DEF BInv
  <2>4. ApplyingIsLatest'  BY <2>1 DEF ApplyingIsLatest
  <2>5. QED BY <1>2, <2>1, <2>2, <2>3, <2>4 DEF BInv
<1>4. ASSUME NEW o \in Originals, CaptureSource(o) PROVE BInv'
  <2>1. o \in Objects /\ TypeOK  BY ObjectAssumption, BackupFacts
  <2>2. files' \in [Objects -> SUBSET Places]  BY <1>4, <2>1 DEF CaptureSource, TypeOK, Places
  <2>3. rows' \in [Objects -> Row] /\ captured' \subseteq Objects
    BY <1>4, <2>1, WithRowTyped DEF CaptureSource, TypeOK
  <2>4. TypeOK'  BY <1>4, <2>1, <2>2, <2>3 DEF CaptureSource, TypeOK
  <2>5. QED BY <1>3, <1>4, <2>4 DEF CaptureSource, LockFree
<1>5. ASSUME NEW p \in Derives, AddDerived(p[1], p[2]) PROVE BInv'
  <2>1. p[1] \in Objects /\ p = <<p[1], p[2]>> /\ TypeOK  BY ObjectAssumption, BackupFacts
  <2>2. files' \in [Objects -> SUBSET Places]  BY <1>5, <2>1 DEF AddDerived, TypeOK, Places
  <2>3. rows' \in [Objects -> Row] /\ links' \subseteq Derives
    BY <1>5, <2>1, WithRowTyped DEF AddDerived, TypeOK
  <2>4. TypeOK'  BY <1>5, <2>1, <2>2, <2>3 DEF AddDerived, TypeOK
  <2>5. QED BY <1>3, <1>5, <2>4 DEF AddDerived, LockFree
<1>6. ASSUME NEW o \in Targets, NEW action \in Actions, LockFree, Append1(o, action) PROVE BInv'
  <2>1. PICK rec : rec = [action |-> action, object |-> o, at |-> "recent"]  OBVIOUS
  <2>2. o \in Objects  BY ObjectAssumption
  <2>3. rec \in Record /\ rec.object = o  BY <2>1, <2>2 DEF Record, Ages
  <2>4. /\ log' = Append(log, rec) /\ pending' = {o} /\ applying' = NotApplying
        /\ UNCHANGED <<rows, files, captured, links, opening, stale>>
    BY <1>6, <2>1 DEF Append1, LockFree
  <2>5. Logged' = Logged \cup {o} /\ EveryLatestExists'
    BY <2>3, <2>4, BackupFacts, LatestAfterAppend
  <2>6. log' \in Seq(Record)  BY <2>3, <2>4, BackupFacts DEF TypeOK
  <2>7. NotApplying \in Applying  BY DEF NotApplying, Applying, Ages
  <2>8. TypeOK'  BY <2>2, <2>4, <2>6, <2>7, BackupFacts DEF TypeOK
  <2>9. BackupTypeOK'  BY <1>1, <2>8 DEF BInv, BackupTypeOK
  <2>10. ApplyingIsLatest'  BY <2>4 DEF ApplyingIsLatest
  <2>11. QED BY <1>2, <2>4, <2>5, <2>9, <2>10 DEF BInv
<1>7. ASSUME NEW o \in Targets, Quarantine(o) \/ Unquarantine(o) \/ Purge(o) PROVE BInv'
  <2>1. LockFree /\ \E action \in Actions : Append1(o, action)
    BY <1>7 DEF Quarantine, Unquarantine, Purge, Actions
  <2>2. QED BY <1>6, <2>1
<1>8. QED BY <1>4, <1>5, <1>7 DEF Using

LEMMA CopyStep == ASSUME BInv, Backup PROVE BInv'
<1>1. /\ UNCHANGED <<vars, unopened, deleted>>
      /\ backup' = [rows |-> rows, files |-> files, captured |-> captured, links |-> links,
                    length |-> Len(log)]
  BY DEF Backup
<1>2. TypeOK  BY BackupFacts
<1>3. Len(log) \in Nat  BY <1>2 DEF TypeOK
<1>4. backup' \in Copy  BY <1>1, <1>2, <1>3 DEF Copy, TypeOK
<1>5. BackupTypeOK'  BY <1>1, <1>4 DEF BInv, BackupTypeOK, TypeOK, vars
<1>6. QED
  BY <1>1, <1>5 DEF BInv, vars, Logged, EveryLatestExists, LatestIs, ApplyingIsLatest, Latest,
     NextObject, ReplayHides, Hidden, MovesAlone, SourcesOf

LEMMA RestoreStep == ASSUME BInv, Restore PROVE BInv'
<1>1. /\ backup \in Copy
      /\ rows' = backup.rows /\ files' = backup.files
      /\ captured' = backup.captured /\ links' = backup.links
      /\ log' = SubSeq(log, 1, Len(log))
      /\ pending' = {} /\ applying' = NotApplying /\ opening' = FALSE
      /\ stale' = TRUE /\ unopened' = TRUE /\ backup' = backup
      /\ deleted' = {o \in Logged : Latest(o).action # "restore"}
  BY DEF Restore, RestoredFrom, BInv, BackupTypeOK
<1>2. log' = log  BY <1>1, BackupFacts DEF TypeOK
<1>3. Logged' = Logged /\ EveryLatestExists' /\ \A o : Latest(o)' = Latest(o)
  BY <1>2, SameLog DEF BInv
<1>4. NotApplying \in Applying  BY DEF NotApplying, Applying, Ages
<1>5. TypeOK'  BY <1>1, <1>2, <1>4, BackupFacts DEF TypeOK, Copy
<1>6. deleted' \subseteq Objects  BY <1>1, BackupFacts
<1>7. BackupTypeOK'  BY <1>1, <1>5, <1>6 DEF BackupTypeOK
<1>8. ApplyingIsLatest'  BY <1>1 DEF ApplyingIsLatest
<1>9. ReplayHides'  BY <1>1, <1>3 DEF ReplayHides
<1>10. QED BY <1>1, <1>3, <1>7, <1>8, <1>9 DEF BInv

LEMMA BackupAgeStep == ASSUME BInv, BackupThirtyDays PROVE BInv'
<1>1. /\ pending = {} /\ applying = NotApplying
      /\ rows' = [o \in Objects |-> [rows[o] EXCEPT !.at = "ripe"]]
      /\ log' = [n \in 1..Len(log) |-> [log[n] EXCEPT !.at = "ripe"]]
      /\ UNCHANGED <<files, captured, links, pending, applying, opening, stale, unopened, deleted>>
  BY DEF BackupThirtyDays, ThirtyDays, LockFree
<1>2. TypeOK /\ EveryLatestExists  BY BackupFacts
<1>3. /\ log' \in Seq(Record) /\ Logged' = Logged /\ EveryLatestExists'
      /\ \A o \in Logged : Latest(o)'.action = Latest(o).action
  BY <1>1, <1>2, LatestAfterAgeing
<1>4. \A row \in Row : [row EXCEPT !.at = "ripe"] \in Row  BY DEF Row, Ages
<1>5. rows' \in [Objects -> Row]  BY <1>1, <1>2, <1>4 DEF TypeOK
<1>6. TypeOK'  BY <1>1, <1>2, <1>3, <1>5 DEF TypeOK
<1>7. backup' \in {NoBackup} \cup Copy
  <2>1. CASE backup = NoBackup  BY <2>1 DEF BackupThirtyDays
  <2>2. CASE backup # NoBackup
    <3>1. backup \in Copy  BY <2>2 DEF BInv, BackupTypeOK
    <3>2. PICK aged : aged = [o \in Objects |-> [backup.rows[o] EXCEPT !.at = "ripe"]]  OBVIOUS
    <3>3. aged \in [Objects -> Row]  BY <1>4, <3>1, <3>2 DEF Copy
    <3>4. backup' = [backup EXCEPT !.rows = aged]  BY <2>2, <3>2 DEF BackupThirtyDays
    <3>5. QED BY <3>1, <3>3, <3>4 DEF Copy
  <2>3. QED BY <2>1, <2>2
<1>8. BackupTypeOK'  BY <1>1, <1>6, <1>7 DEF BInv, BackupTypeOK
<1>9. ApplyingIsLatest'  BY <1>1 DEF ApplyingIsLatest
<1>10. ReplayHides'
  <2>1. unopened' => /\ stale' /\ deleted' = {o \in Logged : Latest(o).action # "restore"}
                     /\ deleted' = deleted
    BY <1>1 DEF BInv, ReplayHides
  <2>2. {o \in Logged : Latest(o).action # "restore"}'
          = {o \in Logged : Latest(o).action # "restore"}
    BY <1>3
  <2>3. pending' = {} /\ applying' = NotApplying  BY <1>1
  <2>4. QED BY <2>1, <2>2, <2>3 DEF ReplayHides
<1>11. QED BY <1>1, <1>3, <1>8, <1>9, <1>10 DEF BInv

(* Open, and each way an Open or an action ends early.                        *)
LEMMA OpenOrStopStep == ASSUME BInv, Opening, Open \/ Stop PROVE BInv'
<1>1. /\ UNCHANGED <<rows, files, captured, links, log, backup, deleted>>
      /\ unopened' = (unopened /\ stale')
      /\ pending' \subseteq Logged /\ applying' = NotApplying
      /\ pending' \in {{}, Logged} /\ opening' \in BOOLEAN
      /\ stale' \in BOOLEAN
  <2>1. stale \in BOOLEAN  BY BackupFacts DEF TypeOK
  <2>2. CASE Open  BY <2>1, <2>2 DEF Opening, Open, LockFree
  <2>3. CASE Stop  BY <2>3 DEF Opening, Stop
  <2>4. QED BY <2>2, <2>3
<1>2. Logged' = Logged /\ EveryLatestExists' /\ \A o : Latest(o)' = Latest(o)
  BY <1>1, SameLog DEF BInv
<1>3. NotApplying \in Applying  BY DEF NotApplying, Applying, Ages
<1>4. TypeOK'  BY <1>1, <1>3, BackupFacts DEF TypeOK
<1>5. BackupTypeOK'  BY <1>1, <1>4 DEF BInv, BackupTypeOK
<1>6. ApplyingIsLatest'  BY <1>1 DEF ApplyingIsLatest
<1>7. ASSUME unopened' PROVE ReplayHides'
  <2>1. unopened /\ stale' /\ deleted = {o \in Logged : Latest(o).action # "restore"}
    BY <1>1, <1>7 DEF BInv, ReplayHides
  <2>2. deleted' = {o \in Logged : Latest(o).action # "restore"}'  BY <1>1, <1>2, <2>1
  <2>3. pending' # {} => deleted' \ pending' = {}  BY <1>1, <2>1
  <2>4. QED BY <1>1, <2>1, <2>2, <2>3 DEF ReplayHides
<1>8. ReplayHides'  BY <1>7 DEF ReplayHides
<1>9. QED BY <1>1, <1>2, <1>5, <1>6, <1>8 DEF BInv

LEMMA BackupBeginStep == ASSUME BInv, Opening, BeginApply PROVE BInv'
<1>1. PICK o : o = Least(pending)  OBVIOUS
<1>2. o \in pending
  <2>1. pending \subseteq Nat  BY BackupFacts
  <2>2. QED BY <1>1, <2>1, LeastMember DEF BeginApply
<1>3. /\ o \in Logged /\ o \in Objects /\ Latest(o) \in Record /\ Latest(o).object = o
      /\ Latest(o).action \in Actions
  BY <1>2, BackupFacts
<1>4. PICK left : left = {o} \cup derivedObjects(o, Latest(o).action)  OBVIOUS
<1>5. /\ left \subseteq Objects /\ o \in left
      /\ \A d \in left \ {o} : d \notin captured /\ <<d, o>> \in links
  BY <1>3, <1>4 DEF derivedObjects
<1>6. applying' = [action |-> Latest(o).action, object |-> o, at |-> Latest(o).at,
                   left |-> left, moved |-> {}]
  BY <1>1, <1>3, <1>4 DEF BeginApply
<1>7. /\ UNCHANGED <<rows, files, captured, links, log, pending, opening, stale, backup, deleted>>
      /\ unopened' = (unopened /\ stale')
  BY DEF BeginApply, Opening
<1>8. Logged' = Logged /\ EveryLatestExists' /\ \A x : Latest(x)' = Latest(x)
  BY <1>7, SameLog DEF BInv
<1>9. applying' \in Applying
  <2>1. Latest(o).at \in Ages  BY <1>3 DEF Record
  <2>2. QED BY <1>3, <1>5, <1>6, <2>1 DEF Applying
<1>10. TypeOK'  BY <1>7, <1>9, BackupFacts DEF TypeOK
<1>11. BackupTypeOK'
  <2>1. stale' \in BOOLEAN  BY <1>10 DEF TypeOK
  <2>2. unopened' \in BOOLEAN  BY <1>7, <2>1 DEF BInv, BackupTypeOK
  <2>3. QED BY <1>7, <1>10, <2>2 DEF BInv, BackupTypeOK
<1>12. /\ applying'.object = o /\ applying'.action = Latest(o).action
       /\ applying'.left = left /\ applying'.moved = {}
  BY <1>6
<1>13. ApplyingIsLatest'  BY <1>2, <1>5, <1>7, <1>8, <1>12 DEF ApplyingIsLatest
<1>14. ASSUME unopened' PROVE ReplayHides'
  <2>1. unopened /\ stale /\ pending # {}  BY <1>2, <1>7, <1>14
  <2>2. /\ deleted = {x \in Logged : Latest(x).action # "restore"}
        /\ \A x \in deleted \ pending : MovesAlone(x) => Hidden(x)
    BY <2>1 DEF BInv, ReplayHides
  <2>3. deleted' = {x \in Logged : Latest(x).action # "restore"}'  BY <1>7, <1>8, <2>2
  <2>4. \A x : (Hidden(x)' <=> Hidden(x)) /\ (MovesAlone(x)' <=> MovesAlone(x))
    BY <1>7, StillAlone DEF Hidden
  <2>5. stale'  BY <1>7, <2>1
  <2>6. \A x \in deleted' \ pending' : MovesAlone(x)' => Hidden(x)'  BY <1>7, <2>2, <2>4
  <2>7. \A x \in deleted' : ~(x = applying'.object /\ x \notin applying'.left)  BY <1>5, <1>12
  <2>8. QED BY <1>12, <2>3, <2>5, <2>6, <2>7 DEF ReplayHides
<1>15. ReplayHides'  BY <1>14 DEF ReplayHides
<1>16. QED BY <1>7, <1>8, <1>11, <1>13, <1>15 DEF BInv

(* What is applied, and to which object next.                                 *)
LEMMA BackupApplying ==
  ASSUME BInv, applying.left # {}, NEW x, x = NextObject
  PROVE  /\ applying # NotApplying /\ x \in applying.left /\ x \in Objects
         /\ applying.object \in pending /\ applying.object \in Logged
         /\ applying.action = Latest(applying.object).action /\ applying.action \in Actions
         /\ \A y : MovesAlone(y) /\ y \in applying.left => y = applying.object
<1>1. applying # NotApplying  BY DEF NotApplying
<1>2. PICK o : o = applying.object  OBVIOUS
<1>3. /\ o \in pending /\ applying.action = Latest(o).action
      /\ \A d \in applying.left \ {o} : d \notin captured /\ <<d, o>> \in links
  BY <1>1, <1>2 DEF BInv, ApplyingIsLatest
<1>4. applying.left \subseteq Objects /\ Objects \subseteq Nat
  BY BackupFacts DEF TypeOK, Applying
<1>5. x \in applying.left  BY <1>4, LeastMember DEF NextObject
<1>6. o \in Logged /\ Latest(o).action \in Actions  BY <1>3, BackupFacts
<1>7. \A y : MovesAlone(y) /\ y \in applying.left => y = o
  <2>1. o \in Objects  BY <1>6, BackupFacts
  <2>2. QED BY <1>3, <2>1 DEF MovesAlone, SourcesOf
<1>8. QED BY <1>1, <1>2, <1>3, <1>4, <1>5, <1>6, <1>7

LEMMA BackupMoveStep == ASSUME BInv, Opening, MoveFile PROVE BInv'
<1>1. PICK o, action, x : o = applying.object /\ action = applying.action /\ x = NextObject
  OBVIOUS
<1>2. /\ applying.left # {} /\ applying.moved = {}
      /\ files' = [files EXCEPT ![x] = Moved(files[x], action)]
      /\ applying' = [applying EXCEPT !.moved = {x}]
      /\ UNCHANGED <<rows, captured, links, log, pending, opening, stale, backup, deleted>>
      /\ unopened' = (unopened /\ stale')
  BY <1>1 DEF MoveFile, Opening
<1>3. /\ applying # NotApplying /\ x \in applying.left /\ x \in Objects
      /\ o \in pending /\ o \in Logged /\ action = Latest(o).action /\ action \in Actions
      /\ \A y : MovesAlone(y) /\ y \in applying.left => y = o
      /\ \A y : MovesAlone(y)' <=> MovesAlone(y)
  BY <1>1, <1>2, BackupApplying, StillAlone
<1>4. Logged' = Logged /\ EveryLatestExists' /\ \A y : Latest(y)' = Latest(y)
  BY <1>2, SameLog DEF BInv
<1>5. /\ applying \in Applying /\ files \in [Objects -> SUBSET Places] /\ TypeOK
  BY BackupFacts DEF TypeOK
<1>6. /\ applying' \in Applying
      /\ applying'.object = o /\ applying'.action = action
      /\ applying'.left = applying.left /\ applying'.moved = {x}
  BY <1>1, <1>2, <1>3, <1>5 DEF Applying
<1>7. Moved(files[x], action) \in SUBSET Places
  BY <1>3, <1>5 DEF Moved, moveIfPresent, Actions, Places
<1>8. files' \in [Objects -> SUBSET Places]  BY <1>2, <1>5, <1>7
<1>9. TypeOK'  BY <1>2, <1>5, <1>6, <1>8 DEF TypeOK
<1>10. BackupTypeOK'
  <2>1. stale' \in BOOLEAN  BY <1>9 DEF TypeOK
  <2>2. unopened' \in BOOLEAN  BY <1>2, <2>1 DEF BInv, BackupTypeOK
  <2>3. QED BY <1>2, <1>9, <2>2 DEF BInv, BackupTypeOK
<1>11. NextObject' = x  BY <1>1, <1>2, <1>6 DEF NextObject
<1>12. ApplyingIsLatest'
  <2>1. /\ o \in pending /\ action = Latest(o).action
        /\ \A d \in applying.left \ {o} : d \notin captured /\ <<d, o>> \in links
    BY <1>1, <1>3 DEF BInv, ApplyingIsLatest
  <2>2. QED BY <1>2, <1>4, <1>6, <1>11, <2>1 DEF ApplyingIsLatest
<1>13. ASSUME unopened' PROVE ReplayHides'
  <2>1. unopened /\ stale /\ pending # {}  BY <1>2, <1>3, <1>13
  <2>2. /\ deleted = {y \in Logged : Latest(y).action # "restore"}
        /\ \A y \in deleted \ pending : MovesAlone(y) => Hidden(y)
        /\ \A y \in deleted : MovesAlone(y) /\ y = o /\ y \notin applying.left => Hidden(y)
    BY <1>1, <1>3, <2>1 DEF BInv, ReplayHides
  <2>3. deleted' = {y \in Logged : Latest(y).action # "restore"}'  BY <1>2, <1>4, <2>2
  <2>4. \A y \in Objects : y # x => Hidden(y)' = Hidden(y)  BY <1>2, <1>5 DEF Hidden
  <2>5. x \in deleted /\ MovesAlone(x) => x = o /\ "active" \notin files'[x]
    <3>1. SUFFICES ASSUME x \in deleted, MovesAlone(x) PROVE x = o /\ "active" \notin files'[x]
      OBVIOUS
    <3>2. x = o /\ action # "restore"  BY <1>3, <2>2, <3>1
    <3>3. "active" \notin Moved(files[x], action)
      BY <1>3, <3>2 DEF Moved, moveIfPresent, Actions
    <3>4. QED BY <1>2, <1>3, <1>5, <3>2, <3>3
  <2>6. deleted \subseteq Objects  BY <2>2, BackupFacts
  <2>7. \A y \in deleted' \ pending' : MovesAlone(y)' => Hidden(y)'
    <3>1. \A y \in deleted \ pending : MovesAlone(y) => y # x  BY <1>3, <2>5
    <3>2. QED BY <1>2, <1>3, <2>2, <2>4, <2>6, <3>1
  <2>8. \A y \in deleted' :
          MovesAlone(y)' /\ y = applying'.object /\ y \notin applying'.left => Hidden(y)'
    BY <1>2, <1>3, <1>6, <2>2, <2>4, <2>6
  <2>9. QED BY <1>2, <1>3, <1>11, <2>1, <2>3, <2>5, <2>7, <2>8 DEF ReplayHides
<1>14. ReplayHides'  BY <1>13 DEF ReplayHides
<1>15. QED BY <1>2, <1>4, <1>10, <1>12, <1>14 DEF BInv

(* The row of the object whose file was moved, and what it completes.         *)
LEMMA RowIsSet ==
  ASSUME BInv, SetRow, NEW x, x = NextObject
  PROVE  /\ applying # NotApplying /\ x \in applying.left /\ x \in Objects
         /\ rows' \in [Objects -> Row]
         /\ \A y \in Objects : y # x => rows'[y] = rows[y]
         /\ unopened /\ x \in deleted /\ MovesAlone(x) => x = applying.object /\ Hidden(x)'
<1>1. PICK o, action : o = applying.object /\ action = applying.action  OBVIOUS
<1>2. /\ applying.moved # {} /\ applying # NotApplying /\ applying.left # {}
      /\ rows' = RowSet(x) /\ files' = files
  BY DEF SetRow, NotApplying, BInv, ApplyingIsLatest
<1>3. /\ x \in applying.left /\ x \in Objects
      /\ o \in Logged /\ action = Latest(o).action /\ action \in Actions
      /\ \A y : MovesAlone(y) /\ y \in applying.left => y = o
  BY <1>1, <1>2, BackupApplying
<1>4. rows \in [Objects -> Row] /\ applying.at \in Ages  BY BackupFacts DEF TypeOK, Applying
<1>5. PICK new : new = [state |-> StateFor(action), at |-> applying.at]  OBVIOUS
<1>6. new \in Row /\ (action # "restore" => new.state # "active")
  BY <1>3, <1>4, <1>5 DEF StateFor, Actions, States, Row
<1>7. \/ rows' = rows /\ rows[x].state = "absent"
      \/ rows' = [rows EXCEPT ![x] = new]
  BY <1>1, <1>2, <1>5 DEF RowSet
<1>8. rows' \in [Objects -> Row] /\ \A y \in Objects : y # x => rows'[y] = rows[y]
  BY <1>3, <1>4, <1>6, <1>7
<1>9. ASSUME unopened, x \in deleted, MovesAlone(x) PROVE x = o /\ Hidden(x)'
  <2>1. /\ deleted = {y \in Logged : Latest(y).action # "restore"}
        /\ "active" \notin files[x]
    BY <1>2, <1>9 DEF BInv, ReplayHides
  <2>2. x = o /\ action # "restore"  BY <1>3, <1>9, <2>1
  <2>3. rows'[x].state # "active"  BY <1>3, <1>4, <1>6, <1>7, <2>2
  <2>4. QED BY <1>2, <2>1, <2>2, <2>3 DEF Hidden
<1>10. QED BY <1>1, <1>2, <1>3, <1>8, <1>9

LEMMA BackupSetRowStep == ASSUME BInv, Opening, SetRow PROVE BInv'
<1>1. PICK o, x, rest : o = applying.object /\ x = NextObject /\ rest = applying.left \ {x}
  OBVIOUS
<1>2. /\ IF rest = {} THEN applying' = NotApplying /\ pending' = pending \ {o}
         ELSE applying' = [applying EXCEPT !.left = rest, !.moved = {}] /\ pending' = pending
      /\ UNCHANGED <<files, captured, links, log, backup, deleted>>
      /\ unopened' = (unopened /\ stale')
      /\ opening' = (opening /\ ~(rest = {} /\ pending = {o}))
      /\ stale' = (stale /\ ~((rest = {} /\ pending = {o}) /\ opening))
  BY <1>1 DEF SetRow, Opening
<1>3. /\ applying # NotApplying /\ x \in applying.left /\ x \in Objects
      /\ rows' \in [Objects -> Row]
      /\ \A y \in Objects : y # x => rows'[y] = rows[y]
      /\ unopened /\ x \in deleted /\ MovesAlone(x) => x = o /\ Hidden(x)'
      /\ \A y : MovesAlone(y)' <=> MovesAlone(y)
  BY <1>1, <1>2, RowIsSet, StillAlone
<1>4. Logged' = Logged /\ EveryLatestExists' /\ \A y : Latest(y)' = Latest(y)
  BY <1>2, SameLog DEF BInv
<1>5. /\ applying \in Applying /\ TypeOK /\ pending \subseteq Logged  BY BackupFacts DEF TypeOK
<1>6. /\ o \in pending /\ applying.action = Latest(o).action
      /\ \A d \in applying.left \ {o} : d \notin captured /\ <<d, o>> \in links
  BY <1>1, <1>3 DEF BInv, ApplyingIsLatest
<1>7. ASSUME rest # {}
      PROVE  /\ applying' \in Applying
             /\ applying'.object = o /\ applying'.action = applying.action
             /\ applying'.left = rest /\ applying'.moved = {}
  BY <1>1, <1>2, <1>5, <1>7 DEF Applying
<1>8. NotApplying \in Applying  BY DEF NotApplying, Applying, Ages
<1>9. TypeOK'
  <2>1. applying' \in Applying  BY <1>2, <1>7, <1>8
  <2>2. pending' \subseteq Objects  BY <1>2, <1>5 DEF TypeOK
  <2>3. stale' \in BOOLEAN /\ opening' \in BOOLEAN  BY <1>2, <1>5 DEF TypeOK
  <2>4. QED BY <1>2, <1>3, <1>5, <2>1, <2>2, <2>3 DEF TypeOK
<1>10. BackupTypeOK'
  <2>1. stale' \in BOOLEAN  BY <1>9 DEF TypeOK
  <2>2. unopened' \in BOOLEAN  BY <1>2, <2>1 DEF BInv, BackupTypeOK
  <2>3. QED BY <1>2, <1>9, <2>2 DEF BInv, BackupTypeOK
<1>11. pending' \subseteq Logged'  BY <1>2, <1>4, <1>5
<1>12. ApplyingIsLatest'
  <2>1. CASE rest = {}  BY <1>2, <2>1 DEF ApplyingIsLatest
  <2>2. CASE rest # {}
    <3>1. pending' = pending /\ links' = links /\ captured' = captured  BY <1>2, <2>2
    <3>2. \A d \in rest \ {o} : d \notin captured /\ <<d, o>> \in links  BY <1>1, <1>6
    <3>3. QED BY <1>4, <1>6, <1>7, <2>2, <3>1, <3>2 DEF ApplyingIsLatest
  <2>3. QED BY <2>1, <2>2
<1>13. ASSUME unopened' PROVE ReplayHides'
  <2>1. unopened /\ stale' /\ pending # {}  BY <1>2, <1>6, <1>13
  <2>2. /\ deleted = {y \in Logged : Latest(y).action # "restore"}
        /\ \A y \in deleted \ pending : MovesAlone(y) => Hidden(y)
        /\ \A y \in deleted : MovesAlone(y) /\ y = o /\ y \notin applying.left => Hidden(y)
    BY <1>1, <1>3, <2>1 DEF BInv, ReplayHides
  <2>3. deleted' = {y \in Logged : Latest(y).action # "restore"}'  BY <1>2, <1>4, <2>2
  <2>4. \A y \in Objects : y # x => Hidden(y)' = Hidden(y)  BY <1>2, <1>3 DEF Hidden
  <2>5. deleted \subseteq Objects  BY <2>2, BackupFacts
  <2>6. \A y \in deleted : MovesAlone(y) /\ (y = x \/ y \notin pending) => Hidden(y)'
    BY <1>3, <2>1, <2>2, <2>4, <2>5
  <2>7. o \in deleted /\ MovesAlone(o) /\ o \notin rest => Hidden(o)'
    BY <1>1, <2>2, <2>4, <2>5, <2>6
  <2>8. CASE rest = {}
    <3>1. pending' = pending \ {o} /\ applying' = NotApplying  BY <1>2, <2>8
    <3>2. \A y \in deleted' \ pending' : MovesAlone(y)' => Hidden(y)'
      BY <1>2, <1>3, <2>6, <2>7, <2>8, <3>1
    <3>3. QED BY <2>1, <2>3, <3>1, <3>2 DEF ReplayHides
  <2>9. CASE rest # {}
    <3>1. pending' = pending  BY <1>2, <2>9
    <3>2. \A y \in deleted' \ pending' : MovesAlone(y)' => Hidden(y)'
      BY <1>2, <1>3, <2>6, <3>1
    <3>3. \A y \in deleted' :
            MovesAlone(y)' /\ y = applying'.object /\ y \notin applying'.left => Hidden(y)'
      BY <1>2, <1>3, <1>7, <2>7, <2>9
    <3>4. QED BY <1>7, <2>1, <2>3, <2>9, <3>2, <3>3 DEF ReplayHides
  <2>10. QED BY <2>8, <2>9
<1>14. ReplayHides'  BY <1>13 DEF ReplayHides
<1>15. QED BY <1>4, <1>10, <1>11, <1>12, <1>14 DEF BInv

LEMMA BackupStutter == ASSUME BInv, UNCHANGED allVars PROVE BInv'
<1>1. UNCHANGED <<rows, files, captured, links, log, pending, applying, opening, stale,
                  backup, unopened, deleted>>
  BY DEF allVars, vars
<1>2. BackupTypeOK'  BY <1>1 DEF BInv, BackupTypeOK, TypeOK
<1>3. Logged' = Logged /\ EveryLatestExists' /\ \A o : Latest(o)' = Latest(o)
  BY <1>1, SameLog DEF BInv
<1>4. NextObject' = NextObject  BY <1>1 DEF NextObject
<1>5. ApplyingIsLatest'  BY <1>1, <1>3, <1>4 DEF BInv, ApplyingIsLatest
<1>6. \A o : (Hidden(o)' <=> Hidden(o)) /\ (MovesAlone(o)' <=> MovesAlone(o))
  BY <1>1, StillAlone DEF Hidden
<1>7. ASSUME unopened' PROVE ReplayHides'
  <2>1. unopened /\ stale /\ deleted = {o \in Logged : Latest(o).action # "restore"}
    BY <1>1, <1>7 DEF BInv, ReplayHides
  <2>2. deleted' = {o \in Logged : Latest(o).action # "restore"}'  BY <1>1, <1>3, <2>1
  <2>3. QED BY <1>1, <1>4, <1>6, <1>7, <2>1, <2>2 DEF BInv, ReplayHides
<1>8. ReplayHides'  BY <1>7 DEF ReplayHides
<1>9. QED BY <1>1, <1>2, <1>3, <1>5, <1>8 DEF BInv

LEMMA NextBInv == ASSUME BInv, [BackupNext]_allVars PROVE BInv'
<1>1. ASSUME Opening PROVE BInv'
  <2>1. Open \/ BeginApply \/ MoveFile \/ SetRow \/ Stop  BY <1>1 DEF Opening
  <2>2. QED
    BY <1>1, <2>1, OpenOrStopStep, BackupBeginStep, BackupMoveStep, BackupSetRowStep
<1>2. QED
  BY <1>1, UsingStep, CopyStep, RestoreStep, BackupAgeStep, BackupStutter DEF BackupNext

(* The inductive invariant of backups and restores: what the replay of the log *)
(* in a restored copy has been through is hidden, and stays so (backup.go).   *)
THEOREM BackupInvariantHolds ==
  BackupSpec => []BInv
<1>1. BackupInit => BInv  BY InitBInv
<1>2. BInv /\ [BackupNext]_allVars => BInv'  BY NextBInv
<1>3. QED BY <1>1, <1>2, PTL DEF BackupSpec

(* The tables, the copy at hand and its place in the log keep their types.    *)
THEOREM BackupsTyped ==
  BackupSpec => []BackupTypeOK
<1>1. BInv => BackupTypeOK  BY DEF BInv
<1>2. QED BY <1>1, BackupInvariantHolds, PTL

(* A restore hands over an archive in which no original that the live log      *)
(* deleted is active or has a file in objects/, whatever copy it came from,   *)
(* and however often its Open was stopped and begun again (Restore, Open).    *)
(* The same goes for anything else with a deletion record of its own, unless  *)
(* it follows a source too. What was deleted along with its sources is not    *)
(* meant: it may come back (BackupRestoreDerived.cfg).                      *)
THEOREM NothingIsBroughtBack ==
  /\ BackupSpec => [][unopened /\ ~unopened' =>
                        \A o \in deleted : MovesAlone(o) => Hidden(o)']_allVars
  /\ BackupSpec /\ [](Mixed = {}) => NothingReturns
<1>1. ASSUME BInv, [BackupNext]_allVars, unopened, ~unopened', NEW y \in deleted, MovesAlone(y)
      PROVE  Hidden(y)'
  <2>1. /\ stale /\ deleted = {z \in Logged : Latest(z).action # "restore"}
        /\ pending # {} => \A z \in deleted \ pending : MovesAlone(z) => Hidden(z)
        /\ applying # NotApplying =>
             \A z \in deleted :
               MovesAlone(z) /\ z = applying.object /\ z \notin applying.left => Hidden(z)
    BY <1>1 DEF BInv, ReplayHides
  <2>2. Opening /\ ~stale'
    <3>1. Opening
      BY <1>1 DEF BackupNext, Backup, Restore, RestoredFrom, BackupThirtyDays, Using, allVars
    <3>2. QED BY <1>1, <3>1 DEF Opening
  <2>3. CASE Open
    <3>1. Logged = {}  BY <2>1, <2>2, <2>3 DEF Open
    <3>2. QED BY <1>1, <2>1, <3>1
  <2>4. CASE SetRow
    <3>1. PICK o, x, rest : o = applying.object /\ x = NextObject /\ rest = applying.left \ {x}
      OBVIOUS
    <3>2. rest = {} /\ pending = {o} /\ files' = files
      BY <2>1, <2>2, <2>4, <3>1 DEF SetRow
    <3>3. /\ applying # NotApplying /\ x \in Objects
          /\ \A z \in Objects : z # x => rows'[z] = rows[z]
          /\ x \in deleted /\ MovesAlone(x) => Hidden(x)'
      BY <1>1, <2>4, <3>1, RowIsSet
    <3>4. y \in Objects  BY <1>1, <2>1, BackupFacts
    <3>5. CASE y = x  BY <1>1, <3>3, <3>5
    <3>6. CASE y # x
      <4>1. Hidden(y)  BY <1>1, <2>1, <3>1, <3>2, <3>3, <3>6
      <4>2. QED BY <3>2, <3>3, <3>4, <3>6, <4>1 DEF Hidden
    <3>7. QED BY <3>5, <3>6
  <2>5. QED
    <3>1. Open \/ BeginApply \/ MoveFile \/ SetRow \/ Stop  BY <2>2 DEF Opening
    <3>2. ~BeginApply /\ ~MoveFile /\ ~Stop  BY <2>1, <2>2 DEF BeginApply, MoveFile, Stop
    <3>3. QED BY <2>3, <2>4, <3>1, <3>2
<1>2. BInv /\ [BackupNext]_allVars =>
        [unopened /\ ~unopened' => \A o \in deleted : MovesAlone(o) => Hidden(o)']_allVars
  BY <1>1
<1>3. ASSUME BInv, Mixed = {}, unopened, NEW o \in deleted PROVE MovesAlone(o)
  <2>1. o \in Logged  BY <1>3 DEF BInv, ReplayHides
  <2>2. QED BY <1>3, <2>1 DEF Mixed, MovesAlone
<1>4. BInv /\ Mixed = {} /\ [BackupNext]_allVars =>
        [unopened /\ ~unopened' =>
           \A o \in deleted : rows'[o].state # "active" /\ "active" \notin files'[o]]_allVars
  BY <1>1, <1>3 DEF Hidden
<1>5. BackupSpec => [][unopened /\ ~unopened' =>
                         \A o \in deleted : MovesAlone(o) => Hidden(o)']_allVars
  BY <1>2, BackupInvariantHolds, PTL DEF BackupSpec
<1>6. BackupSpec /\ [](Mixed = {}) => NothingReturns
  BY <1>4, BackupInvariantHolds, PTL DEF BackupSpec, NothingReturns
<1>7. QED BY <1>5, <1>6

-----------------------------------------------------------------------------
(* Restores put every row in its place.                                       *)

(* Tables that the copy and the archive keep to, whatever was deleted, copied *)
(* and restored before. A purged object stays purged, so that no later record *)
(* asks for its bytes.                                                        *)
TablesFit(rw, fl, cap, ln) ==
  /\ \A p \in ln : p[2] \in cap /\ rw[p[1]].state # "absent"
  /\ \A o \in cap : rw[o].state # "absent"
  /\ \A o \in Objects : rw[o].state # "absent" => o \in cap \/ \E s \in Objects : <<o, s>> \in ln
  /\ \A o \in Objects : rw[o].state = "purged" => fl[o] = {}
  /\ \A o \in Objects : rw[o].state = "quarantined" => fl[o] # Places
  /\ \A p \in ln : p[1] \notin cap /\ rw[p[1]].state = "purged" => rw[p[2]].state = "purged"

PurgesLogged(rw, cap) == \A o \in cap : rw[o].state = "purged" => PurgeLogged(o)

(* A copy that has a manifest has all bytes in their places, and what it has  *)
(* purged is purged in the archive.                                           *)
CopyIsSound ==
  backup # NoBackup =>
    /\ TablesFit(backup.rows, backup.files, backup.captured, backup.links)
    /\ PurgesLogged(backup.rows, backup.captured)
    /\ backup.captured \subseteq captured
    /\ \A o \in backup.captured : backup.rows[o].state = "purged" => State(o) = "purged"
    /\ \A o \in Objects :
         /\ backup.rows[o].state = "active" => "active" \in backup.files[o]
         /\ backup.rows[o].state = "quarantined" => backup.files[o] = {"quarantine"}

Applied(t) == State(t) \in {"absent", StateFor(Latest(t).action)}

MovedAs(places, action) ==
  CASE action = "quarantine" -> "active" \notin places
    [] action = "restore"    -> "quarantine" \notin places
    [] action = "purge"      -> places = {}

(* What an action in progress has still to move is what it would look up now. *)
ApplyingFits ==
  applying # NotApplying =>
    LET o == applying.object IN
    /\ applying.left \ {o} \subseteq derivedObjects(o, applying.action)
    /\ o \notin applying.left => Applied(o)
    /\ \A t \in pending : o <= t
    /\ applying.moved # {} => MovedAs(files[NextObject], applying.action)

(* Bytes are missing only where nothing but a purge is still to be applied.   *)
BytesUntilPurged ==
  \A o \in Objects : State(o) # "absent" /\ files[o] = {} =>
    /\ o \in captured => PurgeLogged(o)
    /\ \A s \in Objects : <<o, s>> \in links => PurgeLogged(s)

(* The replay will come to o again with the last record of s: it has not been *)
(* there in this Open, and what comes before it changes no row any more.      *)
OwedBy(o, s) ==
  /\ s \in Logged /\ (pending = {} \/ s \in pending)
  /\ applying # NotApplying /\ s = applying.object => o \in applying.left
  /\ o = s \/ (o \in derivedObjects(s, Latest(s).action) /\ Applied(s))
  /\ \A t \in Logged : t < s => Applied(t)

(* While a restored copy is not open, each object is in its place or owed.    *)
ReplayPlaces ==
  unopened =>
    /\ pending # {} => \A t \in Logged \ pending : Applied(t)
    /\ BytesUntilPurged
    /\ \A o \in Objects : InPlace(o) \/ \E s \in Objects : OwedBy(o, s)

PlaceInv ==
  /\ TablesFit(rows, files, captured, links)
  /\ PurgesLogged(rows, captured)
  /\ CopyIsSound
  /\ ApplyingFits
  /\ ReplayPlaces

(* A logged object is made from nothing while none is mixed.                  *)
LEMMA NoLoggedFollower ==
  ASSUME Mixed = {}, BInv, NEW x \in Logged, NEW o
  PROVE  <<x, o>> \notin links
<1>1. links \subseteq Objects \X Objects  BY ObjectAssumption DEF BInv, BackupTypeOK, TypeOK
<1>2. SourcesOf(x) = {}  BY DEF Mixed
<1>3. QED BY <1>1, <1>2 DEF SourcesOf

LEMMA PlaceFacts ==
  ASSUME Mixed = {}, BInv, PlaceInv
  PROVE  /\ captured \subseteq Objects /\ Objects \subseteq Nat
         /\ links \subseteq Objects \X Objects
         /\ rows \in [Objects -> Row] /\ files \in [Objects -> SUBSET Places]
         /\ \A o \in Objects : State(o) \in States
         /\ \A d, s : <<d, s>> \in links => /\ d \in Objects /\ s \in captured
                                            /\ State(d) # "absent" /\ State(s) # "absent"
         /\ \A o \in Objects : State(o) # "absent" =>
              o \in captured \/ \E s \in Objects : <<o, s>> \in links
         /\ \A t \in Logged : State(t) # "absent" => t \in captured
         /\ \A t \in Logged : \A s : <<t, s>> \notin links
<1>1. /\ captured \subseteq Objects /\ links \subseteq Objects \X Objects /\ Objects \subseteq Nat
      /\ rows \in [Objects -> Row] /\ files \in [Objects -> SUBSET Places]
      /\ Logged \subseteq Objects
  BY BackupFacts, ObjectAssumption DEF TypeOK
<1>2. \A o \in Objects : State(o) \in States  BY <1>1 DEF State, Row
<1>3. ASSUME NEW d, NEW s, <<d, s>> \in links
      PROVE  d \in Objects /\ s \in captured /\ State(d) # "absent" /\ State(s) # "absent"
  <2>1. d \in Objects  BY <1>1, <1>3
  <2>2. PICK p \in links : p = <<d, s>>  BY <1>3
  <2>3. p[2] \in captured /\ rows[p[1]].state # "absent"  BY DEF PlaceInv, TablesFit
  <2>4. s \in captured /\ State(d) # "absent"  BY <2>2, <2>3 DEF State
  <2>5. QED BY <2>1, <2>4 DEF PlaceInv, TablesFit, State
<1>4. \A o \in Objects : State(o) # "absent" =>
        o \in captured \/ \E s \in Objects : <<o, s>> \in links
  BY DEF PlaceInv, TablesFit, State
<1>5. \A t \in Logged : \A s : <<t, s>> \notin links  BY NoLoggedFollower
<1>6. \A t \in Logged : State(t) # "absent" => t \in captured  BY <1>1, <1>4, <1>5
<1>7. QED BY <1>1, <1>2, <1>3, <1>4, <1>5, <1>6

(* What is said of rows, files and records stays true of equal ones.          *)
LEMMA SameStates ==
  ASSUME NEW rw, NEW rv, NEW fl, NEW cap, NEW ln, cap \subseteq Objects,
         ln \subseteq Objects \X Objects, \A o \in Objects : rv[o].state = rw[o].state,
         TablesFit(rw, fl, cap, ln)
  PROVE  TablesFit(rv, fl, cap, ln)
<1>1. \A p \in ln : p[1] \in Objects /\ p[2] \in Objects  OBVIOUS
<1>2. QED BY <1>1 DEF TablesFit

SameRecords ==
  /\ Logged' = Logged
  /\ \A t \in Logged : Latest(t)'.action = Latest(t).action

SameRows ==
  /\ captured' = captured /\ links' = links
  /\ \A o \in Objects : State(o)' = State(o)

SameTables == SameRows /\ files' = files

LEMMA SamePurges ==
  ASSUME SameRecords
  PROVE  \A o : PurgeLogged(o)' <=> PurgeLogged(o)
<1>1. ASSUME NEW o PROVE PurgeLogged(o)' <=> PurgeLogged(o)
  <2>1. CASE o \in Logged
    <3>1. Latest(o)'.action = Latest(o).action /\ o \in Logged'  BY <2>1 DEF SameRecords
    <3>2. QED BY <2>1, <3>1 DEF PurgeLogged
  <2>2. CASE o \notin Logged
    <3>1. o \notin Logged'  BY <2>2 DEF SameRecords
    <3>2. QED BY <2>2, <3>1 DEF PurgeLogged
  <2>3. QED BY <2>1, <2>2
<1>2. QED BY <1>1

LEMMA SameApplied ==
  ASSUME SameRecords, NEW t \in Logged, State(t)' = State(t)
  PROVE  Applied(t)' <=> Applied(t)
<1>1. Latest(t)'.action = Latest(t).action  BY DEF SameRecords
<1>2. QED BY <1>1 DEF Applied

(* Who follows o depends on the rows of other captured objects.               *)
LEMMA SameDerived ==
  ASSUME Mixed = {}, BInv, PlaceInv, captured' = captured, links' = links,
         NEW o, NEW action,
         \A s \in captured \ {o} : State(s)' = State(s)
  PROVE  derivedObjects(o, action)' = derivedObjects(o, action)
<1>1. ASSUME NEW d \in Objects
      PROVE  NeededByOther(d, o, action)' <=> NeededByOther(d, o, action)
  <2>1. \A s \in Objects \ {o} : <<d, s>> \in links => s \in captured /\ State(s)' = State(s)
    BY PlaceFacts
  <2>2. QED BY <2>1 DEF NeededByOther, State
<1>2. QED BY <1>1 DEF derivedObjects

LEMMA SameRecordsByLog == ASSUME BInv, UNCHANGED log PROVE SameRecords
BY SameLog DEF SameRecords

LEMMA SamePlaces ==
  ASSUME SameTables
  PROVE  \A o \in Objects : InPlace(o)' <=> InPlace(o)
BY DEF SameTables, SameRows, InPlace, State

LEMMA SameBytes ==
  ASSUME SameRecords, SameTables, BytesUntilPurged
  PROVE  BytesUntilPurged'
BY SamePurges DEF BytesUntilPurged, SameTables, SameRows

(* What is owed stays owed while nothing is applied to tables or memory.      *)
LEMMA SameOwed ==
  ASSUME Mixed = {}, BInv, PlaceInv, SameRecords, SameRows,
         NEW o \in Objects, NEW s \in Objects, OwedBy(o, s),
         pending' = {} \/ s \in pending',
         applying' # NotApplying /\ s = applying'.object => o \in applying'.left
  PROVE  OwedBy(o, s)'
<1>1. s \in Logged /\ s \in Logged'  BY DEF OwedBy, SameRecords
<1>2. \A t \in Logged : Applied(t)' <=> Applied(t)
  BY SameApplied, BackupFacts DEF SameRows
<1>3. \A t \in Logged' : t < s => Applied(t)'  BY <1>2 DEF OwedBy, SameRecords
<1>4. PICK action : action = Latest(s).action  OBVIOUS
<1>5. Latest(s)'.action = action  BY <1>1, <1>4 DEF SameRecords
<1>6. derivedObjects(s, action)' = derivedObjects(s, action)
  BY SameDerived, PlaceFacts DEF SameRows
<1>7. o = s \/ (o \in derivedObjects(s, action)' /\ Applied(s)')
  BY <1>1, <1>2, <1>4, <1>6 DEF OwedBy
<1>8. QED BY <1>1, <1>3, <1>5, <1>7 DEF OwedBy

(* So do the parts of the invariant that do not look at memory.               *)
LEMMA SameFits ==
  ASSUME Mixed = {}, BInv, PlaceInv, SameRecords, SameTables
  PROVE  TablesFit(rows, files, captured, links)' /\ PurgesLogged(rows, captured)'
<1>1. TablesFit(rows', files, captured, links)
  BY SameStates, PlaceFacts DEF PlaceInv, SameTables, SameRows, State
<1>2. TablesFit(rows, files, captured, links)'  BY <1>1 DEF SameTables, SameRows
<1>3. PurgesLogged(rows, captured)'
  BY SamePurges, PlaceFacts DEF PlaceInv, PurgesLogged, SameTables, SameRows, State
<1>4. QED BY <1>2, <1>3

LEMMA SameCopy ==
  ASSUME Mixed = {}, BInv, PlaceInv, SameRecords, SameRows, backup' = backup
  PROVE  CopyIsSound'
<1>1. ASSUME backup # NoBackup
      PROVE  /\ PurgesLogged(backup.rows, backup.captured)'
             /\ backup.captured \subseteq captured'
             /\ \A o \in backup.captured : backup.rows[o].state = "purged" => State(o)' = "purged"
  <2>1. backup.captured \subseteq captured /\ captured \subseteq Objects
    BY <1>1, PlaceFacts DEF PlaceInv, CopyIsSound
  <2>2. QED BY <1>1, <2>1, SamePurges DEF PlaceInv, CopyIsSound, PurgesLogged, SameRows
<1>2. QED BY <1>1 DEF PlaceInv, CopyIsSound

LEMMA InitPlaces == ASSUME BackupInit PROVE PlaceInv
<1>1. /\ rows = [o \in Objects |-> [state |-> "absent", at |-> "recent"]]
      /\ files = [o \in Objects |-> {}] /\ captured = {} /\ links = {}
      /\ applying = NotApplying /\ backup = NoBackup /\ unopened = FALSE
  BY DEF BackupInit, Init
<1>2. TablesFit(rows, files, captured, links) /\ PurgesLogged(rows, captured)
  BY <1>1 DEF TablesFit, PurgesLogged
<1>3. QED BY <1>1, <1>2 DEF PlaceInv, CopyIsSound, ApplyingFits, ReplayPlaces

(* Using the archive: no row that asks for bytes goes without.                *)
LEMMA AddKeepsPlaces ==
  ASSUME Mixed = {}, BInv, PlaceInv, LockFree, ~unopened', backup' = backup,
         NEW o \in Objects, Usable(o),
         files' = [files EXCEPT ![o] = @ \cup {"active"}],
         UNCHANGED <<log, pending, applying>>,
         \/ UNCHANGED <<rows, captured, links>>
         \/ rows' = WithRow(o) /\ captured' = captured \cup {o} /\ UNCHANGED links
         \/ \E s \in captured : rows' = WithRow(o) /\ UNCHANGED captured
                                /\ links' = links \cup {<<o, s>>}
  PROVE  PlaceInv'
<1>1. /\ rows \in [Objects -> Row] /\ files \in [Objects -> SUBSET Places]
      /\ captured \subseteq Objects /\ links \subseteq Objects \X Objects
  BY PlaceFacts
<1>2. State(o) \in {"absent", "active"}  BY DEF Usable, State
<1>3. /\ \A x \in Objects \ {o} : State(x)' = State(x) /\ files'[x] = files[x]
      /\ \A x \in Objects : State(x) # "absent" => State(x)' = State(x)
      /\ State(o)' \in {"absent", "active"}
  BY <1>1, <1>2, WithRowFacts DEF State
<1>4. /\ captured \subseteq captured' /\ captured' \subseteq captured \cup {o}
      /\ links \subseteq links' /\ \A p \in links' \ links : p[1] = o /\ p[2] \in captured
      /\ (captured' # captured \/ links' # links) => State(o)' = "active"
      /\ State(o) = "absent" /\ State(o)' # "absent"
           => o \in captured' \/ \E s \in Objects : <<o, s>> \in links'
  <2>1. CASE UNCHANGED <<rows, captured, links>>  BY <2>1 DEF State
  <2>2. CASE rows' = WithRow(o) /\ captured' = captured \cup {o} /\ UNCHANGED links
    BY <1>1, <2>2, WithRowFacts
  <2>3. ASSUME NEW s \in captured, rows' = WithRow(o), UNCHANGED captured,
               links' = links \cup {<<o, s>>}
        PROVE  /\ links \subseteq links' /\ \A p \in links' \ links : p[1] = o /\ p[2] \in captured
               /\ State(o)' = "active" /\ <<o, s>> \in links' /\ s \in Objects
    BY <1>1, <2>3, WithRowFacts
  <2>4. QED BY <2>1, <2>2, <2>3
<1>5. TablesFit(rows, files, captured, links)'
  <2>1. \A p \in links' : p[2] \in captured' /\ State(p[1])' # "absent"
    <3>1. ASSUME NEW p \in links' PROVE p[2] \in captured' /\ State(p[1])' # "absent"
      <4>1. CASE p \in links
        <5>1. p[1] \in Objects  BY <1>1, <4>1
        <5>2. p[2] \in captured /\ State(p[1]) # "absent"
          BY <4>1 DEF PlaceInv, TablesFit, State
        <5>3. QED BY <1>3, <1>4, <5>1, <5>2
      <4>2. CASE p \notin links  BY <1>4, <4>2
      <4>3. QED BY <4>1, <4>2
    <3>2. QED BY <3>1
  <2>2. \A x \in captured' : State(x)' # "absent"
    <3>1. \A x \in captured : State(x) # "absent"  BY DEF PlaceInv, TablesFit, State
    <3>2. QED BY <1>1, <1>3, <1>4, <3>1
  <2>3. ASSUME NEW x \in Objects, State(x)' # "absent"
        PROVE  x \in captured' \/ \E s \in Objects : <<x, s>> \in links'
    <3>1. CASE State(x) # "absent"  BY <1>4, <3>1, PlaceFacts
    <3>2. CASE State(x) = "absent"  BY <1>3, <1>4, <2>3, <3>2
    <3>3. QED BY <3>1, <3>2
  <2>4. \A x \in Objects : /\ State(x)' = "purged" => files'[x] = {}
                           /\ State(x)' = "quarantined" => files'[x] # Places
    BY <1>3 DEF PlaceInv, TablesFit, State
  <2>5. ASSUME NEW p \in links', p[1] \notin captured', State(p[1])' = "purged"
        PROVE  State(p[2])' = "purged"
    <3>1. p \in links /\ p[1] # o  BY <1>3, <1>4, <2>5
    <3>2. p[1] \in Objects /\ p[2] \in Objects  BY <1>1, <3>1
    <3>3. p[1] \notin captured /\ State(p[1]) = "purged"  BY <1>3, <1>4, <2>5, <3>1, <3>2
    <3>4. State(p[2]) = "purged"  BY <3>1, <3>3 DEF PlaceInv, TablesFit, State
    <3>5. QED BY <1>3, <3>2, <3>4
  <2>6. QED BY <2>1, <2>2, <2>3, <2>4, <2>5 DEF TablesFit, State
<1>6. \A x : PurgeLogged(x)' <=> PurgeLogged(x)  BY SamePurges, SameRecordsByLog
<1>7. PurgesLogged(rows, captured)'
  <2>1. ASSUME NEW x \in captured', State(x)' = "purged" PROVE PurgeLogged(x)
    <3>1. x # o /\ x \in captured  BY <1>3, <1>4, <2>1
    <3>2. State(x) = "purged"  BY <1>1, <1>3, <2>1, <3>1
    <3>3. QED BY <3>1, <3>2 DEF PlaceInv, PurgesLogged, State
  <2>2. QED BY <1>6, <2>1 DEF PurgesLogged, State
<1>8. ASSUME backup # NoBackup
      PROVE  /\ PurgesLogged(backup.rows, backup.captured)'
             /\ backup.captured \subseteq captured'
             /\ \A x \in backup.captured : backup.rows[x].state = "purged" => State(x)' = "purged"
  <2>1. backup.captured \subseteq captured
    BY <1>8 DEF PlaceInv, CopyIsSound
  <2>2. QED BY <1>1, <1>3, <1>4, <1>6, <1>8, <2>1 DEF PlaceInv, CopyIsSound, PurgesLogged
<1>9. CopyIsSound'  BY <1>8 DEF PlaceInv, CopyIsSound
<1>10. ApplyingFits' /\ ReplayPlaces'  BY DEF ApplyingFits, ReplayPlaces, LockFree
<1>11. QED BY <1>5, <1>7, <1>9, <1>10 DEF PlaceInv

LEMMA UsingPlaces == ASSUME Mixed = {}, BInv, PlaceInv, Using PROVE PlaceInv'
<1>1. ~unopened' /\ backup' = backup  BY DEF Using
<1>2. ASSUME NEW o \in Originals, CaptureSource(o) PROVE PlaceInv'
  <2>1. o \in Objects  BY ObjectAssumption
  <2>2. QED BY <1>1, <1>2, <2>1, AddKeepsPlaces DEF CaptureSource
<1>3. ASSUME NEW p \in Derives, AddDerived(p[1], p[2]) PROVE PlaceInv'
  <2>1. p[1] \in Objects  BY ObjectAssumption
  <2>2. QED BY <1>1, <1>3, <2>1, AddKeepsPlaces DEF AddDerived
<1>4. ASSUME NEW o \in Targets, NEW action \in Actions, LockFree, State(o) # "purged",
             Append1(o, action)
      PROVE  PlaceInv'
  <2>1. PICK rec : rec = [action |-> action, object |-> o, at |-> "recent"]  OBVIOUS
  <2>2. o \in Objects  BY ObjectAssumption
  <2>3. rec \in Record /\ rec.object = o  BY <2>1, <2>2 DEF Record, Ages
  <2>4. /\ log' = Append(log, rec) /\ applying' = NotApplying
        /\ UNCHANGED <<rows, files, captured, links>>
    BY <1>4, <2>1 DEF Append1, LockFree
  <2>5. Logged' = Logged \cup {o} /\ \A x \in Logged \ {o} : Latest(x)' = Latest(x)
    BY <2>3, <2>4, BackupFacts, LatestAfterAppend
  <2>6. ASSUME NEW x, PurgeLogged(x), x # o PROVE PurgeLogged(x)'
    BY <2>5, <2>6 DEF PurgeLogged
  <2>7. TablesFit(rows, files, captured, links)'  BY <2>4 DEF PlaceInv
  <2>8. PurgesLogged(rows, captured)'
    BY <1>4, <2>4, <2>6 DEF PlaceInv, PurgesLogged, State
  <2>9. ASSUME backup # NoBackup PROVE PurgesLogged(backup.rows, backup.captured)'
    <3>1. \A x \in backup.captured : backup.rows[x].state = "purged" => PurgeLogged(x) /\ x # o
      BY <1>4, <2>9 DEF PlaceInv, CopyIsSound, PurgesLogged, State
    <3>2. QED BY <1>1, <2>6, <3>1 DEF PurgesLogged
  <2>10. CopyIsSound'  BY <1>1, <2>4, <2>9 DEF PlaceInv, CopyIsSound, State
  <2>11. ApplyingFits' /\ ReplayPlaces'  BY <1>1, <2>4 DEF ApplyingFits, ReplayPlaces
  <2>12. QED BY <2>7, <2>8, <2>10, <2>11 DEF PlaceInv
<1>5. ASSUME NEW o \in Targets, Quarantine(o) \/ Unquarantine(o) \/ Purge(o) PROVE PlaceInv'
  <2>1. LockFree /\ State(o) # "purged" /\ \E action \in Actions : Append1(o, action)
    BY <1>5 DEF Quarantine, Unquarantine, Purge, Actions, State
  <2>2. QED BY <1>4, <2>1
<1>6. QED BY <1>2, <1>3, <1>5 DEF Using

(* A copy taken between actions, if it gets a manifest, is sound.             *)
LEMMA CopyPlaces == ASSUME Mixed = {}, BInv, PlaceInv, Backup PROVE PlaceInv'
<1>1. /\ UNCHANGED <<rows, files, captured, links, log, pending, applying, unopened>>
      /\ backup'.rows = rows /\ backup'.files = files
      /\ backup'.captured = captured /\ backup'.links = links
      /\ ~unopened /\ applying = NotApplying
  BY DEF Backup, vars, LockFree
<1>2. \A o : PurgeLogged(o)' <=> PurgeLogged(o)  BY <1>1, SamePurges, SameRecordsByLog
<1>3. TablesFit(rows, files, captured, links)'  BY <1>1 DEF PlaceInv
<1>4. PurgesLogged(rows, captured)'  BY <1>1, <1>2 DEF PlaceInv, PurgesLogged
<1>5. ASSUME NEW o \in Objects
      PROVE  /\ State(o) = "active" => "active" \in files[o]
             /\ State(o) = "quarantined" => files[o] = {"quarantine"}
  <2>1. /\ State(o) = "active" => "active" \in files[o]
        /\ State(o) = "quarantined" => "quarantine" \in files[o]
    BY DEF Backup, Consistent, State
  <2>2. State(o) = "quarantined" => files[o] # Places  BY DEF PlaceInv, TablesFit, State
  <2>3. files[o] \in SUBSET Places  BY PlaceFacts
  <2>4. QED BY <2>1, <2>2, <2>3 DEF Places
<1>6. CopyIsSound'  BY <1>1, <1>3, <1>4, <1>5 DEF CopyIsSound, State, PurgesLogged
<1>7. ApplyingFits' /\ ReplayPlaces'  BY <1>1 DEF ApplyingFits, ReplayPlaces
<1>8. QED BY <1>3, <1>4, <1>6, <1>7 DEF PlaceInv

(* In a restored copy every object is in its place before its Open begins.    *)
LEMMA RestorePlaces == ASSUME Mixed = {}, Mixed' = {}, BInv, PlaceInv, Restore PROVE PlaceInv'
<1>1. /\ backup # NoBackup /\ backup \in Copy
      /\ rows' = backup.rows /\ files' = backup.files
      /\ captured' = backup.captured /\ links' = backup.links
      /\ log' = SubSeq(log, 1, Len(log))
      /\ pending' = {} /\ applying' = NotApplying /\ backup' = backup
  BY DEF Restore, RestoredFrom, BInv, BackupTypeOK
<1>2. log' = log  BY <1>1, BackupFacts DEF TypeOK
<1>3. \A o : PurgeLogged(o)' <=> PurgeLogged(o)  BY <1>2, SamePurges, SameRecordsByLog
<1>4. /\ TablesFit(rows, files, captured, links)'
      /\ \A o \in captured' : State(o)' = "purged" => PurgeLogged(o)
      /\ \A o \in Objects : /\ State(o)' = "active" => "active" \in files'[o]
                            /\ State(o)' = "quarantined" => files'[o] = {"quarantine"}
  BY <1>1 DEF PlaceInv, CopyIsSound, PurgesLogged, State
<1>5. PurgesLogged(rows, captured)'  BY <1>3, <1>4 DEF PurgesLogged, State
<1>6. CopyIsSound'
  BY <1>1, <1>3 DEF PlaceInv, CopyIsSound, PurgesLogged, State
<1>7. /\ rows' \in [Objects -> Row] /\ links' \subseteq Derives /\ Logged \subseteq Targets
  BY <1>1 DEF Copy, BInv
<1>8. \A o \in Objects : State(o)' \in States  BY <1>7 DEF Row, State
<1>9. \A o \in Objects : InPlace(o)'
  BY <1>4, <1>8 DEF InPlace, TablesFit, State, States
<1>10. ASSUME NEW o \in Objects, State(o)' # "absent", files'[o] = {}
       PROVE  /\ o \in captured' => PurgeLogged(o)
              /\ \A s \in Objects : <<o, s>> \in links' => PurgeLogged(s)
  <2>1. State(o)' = "purged"  BY <1>4, <1>8, <1>10 DEF States
  <2>2. o \in captured' => PurgeLogged(o)  BY <1>4, <2>1
  <2>3. ASSUME NEW s \in Objects, <<o, s>> \in links' PROVE PurgeLogged(s)
    <3>1. PICK p \in Derives : p = <<o, s>>  BY <1>7, <2>3
    <3>2. p[1] = o /\ p[2] = s /\ p \in links'  BY <2>3, <3>1
    <3>3. o \notin Logged
      <4>1. Logged' = Logged  BY <1>2 DEF Logged
      <4>2. s \in SourcesOf(o)'  BY <2>3 DEF SourcesOf
      <4>3. QED BY <4>1, <4>2 DEF Mixed
    <3>4. o \notin captured'  BY <2>2, <3>3 DEF PurgeLogged
    <3>5. State(s)' = "purged" /\ s \in captured'
      BY <1>4, <2>1, <3>2, <3>4 DEF TablesFit, State
    <3>6. QED BY <1>4, <3>5
  <2>4. QED BY <2>2, <2>3
<1>11. BytesUntilPurged'  BY <1>3, <1>10 DEF BytesUntilPurged
<1>12. ReplayPlaces'  BY <1>1, <1>9, <1>11 DEF ReplayPlaces
<1>13. ApplyingFits'  BY <1>1 DEF ApplyingFits
<1>14. QED BY <1>4, <1>5, <1>6, <1>12, <1>13 DEF PlaceInv

LEMMA AgePlaces == ASSUME Mixed = {}, BInv, PlaceInv, BackupThirtyDays PROVE PlaceInv'
<1>1. /\ pending' = {} /\ applying = NotApplying /\ applying' = NotApplying
      /\ rows' = [o \in Objects |-> [rows[o] EXCEPT !.at = "ripe"]]
      /\ log' = [n \in 1..Len(log) |-> [log[n] EXCEPT !.at = "ripe"]]
      /\ UNCHANGED <<files, captured, links, unopened>>
  BY DEF BackupThirtyDays, ThirtyDays, LockFree
<1>2. \A row \in Row : [row EXCEPT !.at = "ripe"].state = row.state  BY DEF Row
<1>3. SameTables  BY <1>1, <1>2, PlaceFacts DEF SameTables, SameRows, State
<1>4. SameRecords  BY <1>1, BackupFacts, LatestAfterAgeing DEF SameRecords
<1>5. /\ TablesFit(rows, files, captured, links)' /\ PurgesLogged(rows, captured)'
  BY <1>3, <1>4, SameFits
<1>6. CopyIsSound'
  <2>1. CASE backup = NoBackup
    BY <2>1 DEF CopyIsSound, BackupThirtyDays
  <2>2. CASE backup # NoBackup
    <3>1. /\ backup \in Copy
          /\ TablesFit(backup.rows, backup.files, backup.captured, backup.links)
          /\ PurgesLogged(backup.rows, backup.captured) /\ backup.captured \subseteq captured
          /\ \A o \in backup.captured : backup.rows[o].state = "purged" => State(o) = "purged"
          /\ \A o \in Objects :
               /\ backup.rows[o].state = "active" => "active" \in backup.files[o]
               /\ backup.rows[o].state = "quarantined" => backup.files[o] = {"quarantine"}
      BY <2>2 DEF PlaceInv, CopyIsSound, BInv, BackupTypeOK
    <3>2. PICK aged : aged = [o \in Objects |-> [backup.rows[o] EXCEPT !.at = "ripe"]]  OBVIOUS
    <3>3. \A o \in Objects : aged[o].state = backup.rows[o].state  BY <1>2, <3>1, <3>2 DEF Copy
    <3>4. backup' = [backup EXCEPT !.rows = aged]  BY <2>2, <3>2 DEF BackupThirtyDays
    <3>5. /\ backup'.rows = aged /\ backup'.files = backup.files
          /\ backup'.captured = backup.captured /\ backup'.links = backup.links
      BY <3>1, <3>4 DEF Copy
    <3>6. backup.captured \subseteq Objects /\ backup.links \subseteq Objects \X Objects
      BY <3>1, ObjectAssumption DEF Copy
    <3>7. TablesFit(aged, backup.files, backup.captured, backup.links)
      BY <3>1, <3>3, <3>6, SameStates
    <3>8. \A o \in backup.captured : aged[o].state = "purged" =>
            PurgeLogged(o)' /\ State(o)' = "purged"
      BY <1>3, <1>4, <3>1, <3>3, <3>6, SamePurges DEF PurgesLogged, SameTables, SameRows
    <3>9. captured' = captured  BY <1>1
    <3>10. QED BY <3>1, <3>3, <3>5, <3>7, <3>8, <3>9 DEF CopyIsSound, PurgesLogged
  <2>3. QED BY <2>1, <2>2
<1>7. ApplyingFits'  BY <1>1 DEF ApplyingFits
<1>8. ASSUME unopened' PROVE ReplayPlaces'
  <2>1. BytesUntilPurged /\ \A o \in Objects : InPlace(o) \/ \E s \in Objects : OwedBy(o, s)
    BY <1>1, <1>8 DEF PlaceInv, ReplayPlaces
  <2>2. BytesUntilPurged'  BY <1>3, <1>4, <2>1, SameBytes
  <2>3. \A o \in Objects, s \in Objects : OwedBy(o, s) => OwedBy(o, s)'
    BY <1>1, <1>3, <1>4, SameOwed DEF SameTables
  <2>4. \A o \in Objects : InPlace(o)' \/ \E s \in Objects : OwedBy(o, s)'
    BY <1>3, <2>1, <2>3, SamePlaces
  <2>5. QED BY <1>1, <2>2, <2>4 DEF ReplayPlaces
<1>9. ReplayPlaces'  BY <1>8 DEF ReplayPlaces
<1>10. QED BY <1>5, <1>6, <1>7, <1>9 DEF PlaceInv

(* An Open has all records to apply again; a stop leaves them to the next one. *)
LEMMA OpenOrStopPlaces ==
  ASSUME Mixed = {}, BInv, PlaceInv, Opening, Open \/ Stop
  PROVE  PlaceInv'
<1>1. /\ UNCHANGED <<rows, files, captured, links, log, backup>>
      /\ unopened' => unopened
      /\ pending' \in {{}, Logged} /\ applying' = NotApplying
  BY DEF Opening, Open, Stop, LockFree
<1>2. SameRecords /\ SameTables  BY <1>1, SameRecordsByLog DEF SameTables, SameRows, State
<1>3. /\ TablesFit(rows, files, captured, links)' /\ PurgesLogged(rows, captured)'
      /\ CopyIsSound'
  BY <1>1, <1>2, SameFits, SameCopy DEF SameTables
<1>4. ApplyingFits'  BY <1>1 DEF ApplyingFits
<1>5. ASSUME unopened' PROVE ReplayPlaces'
  <2>1. BytesUntilPurged /\ \A o \in Objects : InPlace(o) \/ \E s \in Objects : OwedBy(o, s)
    BY <1>1, <1>5 DEF PlaceInv, ReplayPlaces
  <2>2. BytesUntilPurged'  BY <1>2, <2>1, SameBytes
  <2>3. ASSUME NEW o \in Objects, NEW s \in Objects, OwedBy(o, s) PROVE OwedBy(o, s)'
    <3>1. pending' = {} \/ s \in pending'  BY <1>1, <2>3 DEF OwedBy
    <3>2. QED BY <1>1, <1>2, <2>3, <3>1, SameOwed DEF SameTables
  <2>4. \A o \in Objects : InPlace(o)' \/ \E s \in Objects : OwedBy(o, s)'
    BY <1>2, <2>1, <2>3, SamePlaces
  <2>5. pending' # {} => Logged' \ pending' = {}  BY <1>1, <1>2 DEF SameRecords
  <2>6. QED BY <2>2, <2>4, <2>5 DEF ReplayPlaces
<1>6. ReplayPlaces'  BY <1>5 DEF ReplayPlaces
<1>7. QED BY <1>3, <1>4, <1>6 DEF PlaceInv

(* The least pending record begins, with all that is owed to it.              *)
LEMMA BeginPlaces ==
  ASSUME Mixed = {}, BInv, PlaceInv, Opening, BeginApply
  PROVE  PlaceInv'
<1>1. PICK o : o = Least(pending)  OBVIOUS
<1>2. o \in pending /\ \A t \in pending : o <= t
  <2>1. pending \subseteq Nat  BY BackupFacts
  <2>2. QED BY <1>1, <2>1, LeastMember DEF BeginApply
<1>3. o \in Logged /\ o \in Objects /\ Latest(o).object = o  BY <1>2, BackupFacts
<1>4. PICK action : action = Latest(o).action  OBVIOUS
<1>5. PICK left : left = {o} \cup derivedObjects(o, action)  OBVIOUS
<1>6. /\ applying'.object = o /\ applying'.action = action
      /\ applying'.left = left /\ applying'.moved = {} /\ applying = NotApplying
  BY <1>1, <1>3, <1>4, <1>5 DEF BeginApply
<1>7. /\ UNCHANGED <<rows, files, captured, links, log, pending, backup>>
      /\ unopened' => unopened
  BY DEF BeginApply, Opening
<1>8. SameRecords /\ SameTables  BY <1>7, SameRecordsByLog DEF SameTables, SameRows, State
<1>9. /\ TablesFit(rows, files, captured, links)' /\ PurgesLogged(rows, captured)'
      /\ CopyIsSound'
  BY <1>7, <1>8, SameFits, SameCopy DEF SameTables
<1>10. ApplyingFits'
  <2>1. derivedObjects(o, action)' = derivedObjects(o, action)
    BY <1>8, SameDerived, PlaceFacts DEF SameTables, SameRows
  <2>2. QED BY <1>2, <1>5, <1>6, <1>7, <2>1 DEF ApplyingFits
<1>11. ASSUME unopened' PROVE ReplayPlaces'
  <2>1. /\ BytesUntilPurged /\ \A x \in Objects : InPlace(x) \/ \E s \in Objects : OwedBy(x, s)
        /\ \A t \in Logged \ pending : Applied(t)
    BY <1>2, <1>7, <1>11 DEF PlaceInv, ReplayPlaces
  <2>2. BytesUntilPurged'  BY <1>8, <2>1, SameBytes
  <2>3. \A t \in Logged' \ pending' : Applied(t)'
    BY <1>7, <1>8, <2>1, SameApplied, BackupFacts DEF SameTables, SameRows, SameRecords
  <2>4. ASSUME NEW x \in Objects, NEW s \in Objects, OwedBy(x, s) PROVE OwedBy(x, s)'
    <3>1. s = o => x \in left  BY <1>4, <1>5, <2>4 DEF OwedBy
    <3>2. pending' = {} \/ s \in pending'  BY <1>7, <2>4 DEF OwedBy
    <3>3. QED BY <1>6, <1>8, <2>4, <3>1, <3>2, SameOwed DEF SameTables
  <2>5. \A x \in Objects : InPlace(x)' \/ \E s \in Objects : OwedBy(x, s)'
    BY <1>8, <2>1, <2>4, SamePlaces
  <2>6. QED BY <2>2, <2>3, <2>5 DEF ReplayPlaces
<1>12. ReplayPlaces'  BY <1>11 DEF ReplayPlaces
<1>13. QED BY <1>9, <1>10, <1>12 DEF PlaceInv

(* What a record in progress has left to move, and what it owes.              *)
LEMMA InProgress ==
  ASSUME Mixed = {}, BInv, PlaceInv, applying.left # {},
         NEW o, o = applying.object, NEW action, action = applying.action,
         NEW x, x = NextObject
  PROVE  /\ applying # NotApplying /\ x \in applying.left /\ x \in Objects
         /\ o \in pending /\ o \in Logged /\ o \in Objects
         /\ action = Latest(o).action /\ action \in Actions
         /\ x \in captured \/ x \in Logged => x = o
         /\ applying.left \ {o} \subseteq derivedObjects(o, action)
         /\ o \notin applying.left => Applied(o)
         /\ x # o => o \notin applying.left
         /\ \A t \in pending : o <= t
         /\ applying.moved # {} => MovedAs(files[x], action)
         /\ action = "purge" => PurgeLogged(o)
         /\ x # o => /\ x \notin captured /\ <<x, o>> \in links
                     /\ State(o) = StateFor(action)
                     /\ action # "restore" => ~NeededByOther(x, o, action)
<1>1. /\ applying # NotApplying /\ x \in applying.left /\ x \in Objects
      /\ o \in pending /\ o \in Logged
      /\ action = Latest(o).action /\ action \in Actions
      /\ \A y \in Logged : y \in applying.left => y = o
  BY BackupApplying DEF Mixed, MovesAlone
<1>2. /\ applying.left \ {o} \subseteq derivedObjects(o, action)
      /\ o \notin applying.left => Applied(o)
      /\ \A t \in pending : o <= t
      /\ applying.moved # {} => MovedAs(files[x], action)
  BY <1>1 DEF PlaceInv, ApplyingFits
<1>3. o \in Objects  BY <1>1, BackupFacts
<1>4. x # o => o \notin applying.left  BY DEF NextObject
<1>5. ASSUME x # o
      PROVE  /\ x \notin captured /\ <<x, o>> \in links /\ State(o) = StateFor(action)
             /\ action # "restore" => ~NeededByOther(x, o, action)
  <2>1. x \in derivedObjects(o, action)  BY <1>1, <1>2, <1>5
  <2>2. /\ x \notin captured /\ <<x, o>> \in links
        /\ action # "restore" => ~NeededByOther(x, o, action)
    BY <2>1 DEF derivedObjects
  <2>3. State(o) # "absent"  BY <2>2, PlaceFacts
  <2>4. QED BY <1>1, <1>2, <1>4, <1>5, <2>2, <2>3 DEF Applied
<1>6. action = "purge" => PurgeLogged(o)  BY <1>1 DEF PurgeLogged
<1>7. QED BY <1>1, <1>2, <1>3, <1>4, <1>5, <1>6

(* When a purge of o takes x along, x has no other source left.               *)
LEMMA LastPurged ==
  ASSUME Mixed = {}, BInv, PlaceInv, applying.left # {},
         NEW o, o = applying.object, applying.action = "purge",
         NEW x, x = NextObject, NEW s \in Objects, <<x, s>> \in links
  PROVE  PurgeLogged(s) /\ State(s) = "purged" /\ s \in captured
<1>1. /\ x \notin captured /\ State(o) = "purged" /\ PurgeLogged(o)
      /\ ~NeededByOther(x, o, "purge")
  <2>1. x # o  BY InProgress, NoLoggedFollower
  <2>2. QED BY <2>1, InProgress DEF StateFor
<1>2. s \in captured /\ State(s) # "absent" /\ State(s) \in States  BY PlaceFacts
<1>3. State(s) = "purged"  BY <1>1, <1>2 DEF NeededByOther, State, States
<1>4. QED BY <1>2, <1>3 DEF PlaceInv, PurgesLogged, State

LEMMA MovedFits ==
  ASSUME NEW places \in SUBSET Places, NEW action \in Actions
  PROVE  /\ MovedAs(Moved(places, action), action)
         /\ places = {} => Moved(places, action) = {}
         /\ Moved(places, action) = {} => places = {} \/ action = "purge"
         /\ places # Places => Moved(places, action) # Places
<1>1. CASE action = "quarantine"  BY <1>1 DEF MovedAs, Moved, moveIfPresent, Places
<1>2. CASE action = "restore"  BY <1>2 DEF MovedAs, Moved, moveIfPresent, Places
<1>3. CASE action = "purge"  BY <1>3 DEF MovedAs, Moved, Places
<1>4. QED BY <1>1, <1>2, <1>3 DEF Actions

LEMMA MovePlaces ==
  ASSUME Mixed = {}, BInv, PlaceInv, Opening, MoveFile
  PROVE  PlaceInv'
<1>1. PICK o, action, x : o = applying.object /\ action = applying.action /\ x = NextObject
  OBVIOUS
<1>2. /\ applying.left # {}
      /\ files' = [files EXCEPT ![x] = Moved(files[x], action)]
      /\ applying' = [applying EXCEPT !.moved = {x}]
      /\ UNCHANGED <<rows, captured, links, log, pending, backup>>
      /\ unopened' => unopened
  BY <1>1 DEF MoveFile, Opening
<1>3. /\ applying # NotApplying /\ x \in applying.left /\ x \in Objects
      /\ o \in pending /\ o \in Logged /\ o \in Objects
      /\ action = Latest(o).action /\ action \in Actions
      /\ x \in captured \/ x \in Logged => x = o
      /\ applying.left \ {o} \subseteq derivedObjects(o, action)
      /\ o \notin applying.left => Applied(o)
      /\ x # o => o \notin applying.left
      /\ \A t \in pending : o <= t
      /\ action = "purge" => PurgeLogged(o)
  BY <1>1, <1>2, InProgress
<1>4. applying \in Applying /\ files \in [Objects -> SUBSET Places]
  BY BackupFacts DEF TypeOK
<1>5. /\ applying'.object = o /\ applying'.action = action
      /\ applying'.left = applying.left /\ applying'.moved = {x}
  BY <1>1, <1>2, <1>4 DEF Applying
<1>6. /\ files'[x] = Moved(files[x], action)
      /\ \A y \in Objects : y # x => files'[y] = files[y]
  BY <1>2, <1>3, <1>4
<1>7. /\ MovedAs(files'[x], action)
      /\ files[x] = {} => files'[x] = {}
      /\ files'[x] = {} => files[x] = {} \/ action = "purge"
      /\ files[x] # Places => files'[x] # Places
  BY <1>3, <1>4, <1>6, MovedFits
<1>8. SameRecords /\ SameRows  BY <1>2, SameRecordsByLog DEF SameRows, State
<1>9. TablesFit(rows, files, captured, links)'
  <2>1. \A y \in Objects : /\ rows[y].state = "purged" => files'[y] = {}
                           /\ rows[y].state = "quarantined" => files'[y] # Places
    BY <1>6, <1>7 DEF PlaceInv, TablesFit
  <2>2. QED BY <1>2, <2>1 DEF PlaceInv, TablesFit
<1>10. \A y : PurgeLogged(y)' <=> PurgeLogged(y)  BY <1>8, SamePurges
<1>11. PurgesLogged(rows, captured)'  BY <1>2, <1>10 DEF PlaceInv, PurgesLogged
<1>12. CopyIsSound'  BY <1>2, <1>8, SameCopy
<1>13. NextObject' = x  BY <1>1, <1>2, <1>5 DEF NextObject
<1>14. derivedObjects(o, action)' = derivedObjects(o, action)
  BY <1>8, SameDerived, PlaceFacts DEF SameRows
<1>15. ApplyingFits'
  <2>1. o \notin applying.left => Applied(o)'  BY <1>3, <1>8, SameApplied DEF SameRows
  <2>2. QED BY <1>2, <1>3, <1>5, <1>7, <1>13, <1>14, <2>1 DEF ApplyingFits
<1>16. ASSUME unopened' PROVE ReplayPlaces'
  <2>1. /\ BytesUntilPurged /\ \A y \in Objects : InPlace(y) \/ \E s \in Objects : OwedBy(y, s)
        /\ \A t \in Logged \ pending : Applied(t)
    BY <1>2, <1>3, <1>16 DEF PlaceInv, ReplayPlaces
  <2>2. ASSUME NEW y \in Objects, State(y)' # "absent", files'[y] = {}
        PROVE  /\ y \in captured => PurgeLogged(y)
               /\ \A s \in Objects : <<y, s>> \in links => PurgeLogged(s)
    <3>1. State(y) # "absent"  BY <1>8, <2>2 DEF SameRows
    <3>2. CASE files[y] = {}  BY <2>1, <3>1, <3>2 DEF BytesUntilPurged
    <3>3. CASE files[y] # {}
      <4>1. y = x /\ action = "purge"  BY <1>6, <1>7, <2>2, <3>3
      <4>2. y \in captured => PurgeLogged(y)  BY <1>3, <4>1
      <4>3. QED BY <1>1, <1>2, <4>1, <4>2, LastPurged
    <3>4. QED BY <3>2, <3>3
  <2>3. BytesUntilPurged'  BY <1>2, <1>10, <2>2 DEF BytesUntilPurged
  <2>4. \A t \in Logged' \ pending' : Applied(t)'
    BY <1>2, <1>8, <2>1, SameApplied, BackupFacts DEF SameRows, SameRecords
  <2>5. ASSUME NEW y \in Objects, NEW s \in Objects, OwedBy(y, s) PROVE OwedBy(y, s)'
    <3>1. pending' = {} \/ s \in pending'  BY <1>2, <2>5 DEF OwedBy
    <3>2. s = applying'.object => y \in applying'.left  BY <1>1, <1>3, <1>5, <2>5 DEF OwedBy
    <3>3. QED BY <1>8, <2>5, <3>1, <3>2, SameOwed
  <2>6. OwedBy(x, o)
    <3>1. \A t \in Logged : t < o => Applied(t)
      <4>1. pending \subseteq Nat /\ Logged \subseteq Nat /\ o \in Nat  BY <1>3, BackupFacts
      <4>2. \A t \in Logged : t < o => t \notin pending  BY <1>3, <4>1
      <4>3. QED BY <2>1, <4>2
    <3>2. x # o => x \in derivedObjects(o, action) /\ Applied(o)  BY <1>3
    <3>3. QED BY <1>1, <1>3, <3>1, <3>2 DEF OwedBy
  <2>7. \A y \in Objects : y # x => (InPlace(y)' <=> InPlace(y))
    BY <1>6, <1>8 DEF InPlace, SameRows, State
  <2>8. \A y \in Objects : InPlace(y)' \/ \E s \in Objects : OwedBy(y, s)'
    BY <1>3, <2>1, <2>5, <2>6, <2>7
  <2>9. QED BY <2>3, <2>4, <2>8 DEF ReplayPlaces
<1>17. ReplayPlaces'  BY <1>16 DEF ReplayPlaces
<1>18. QED BY <1>9, <1>11, <1>12, <1>15, <1>17 DEF PlaceInv

(* The row of the object whose file was moved now tells its place; a purged    *)
(* original stays purged, and what is applied stays applied.                *)
LEMMA RowTellsPlace ==
  ASSUME Mixed = {}, BInv, PlaceInv, SetRow,
         NEW o, o = applying.object, NEW action, action = applying.action,
         NEW x, x = NextObject
  PROVE  /\ State(x)' = (IF State(x) = "absent" THEN "absent" ELSE StateFor(action))
         /\ \A y \in Objects : y # x => State(y)' = State(y)
         /\ MovedAs(files[x], action)
         /\ \A y \in captured : y # o => State(y)' = State(y)
         /\ \A y \in captured : State(y) = "purged" => State(y)' = "purged"
         /\ \A t \in Logged : Applied(t) => State(t)' = State(t)
         /\ o \notin applying.left \ {x} => Applied(o)'
         /\ \A t \in Logged : Applied(t) => Applied(t)'
<1>1. /\ applying.moved # {} /\ applying # NotApplying /\ applying.left # {}
      /\ rows' = RowSet(x) /\ UNCHANGED <<captured, log>>
  BY DEF SetRow, NotApplying, BInv, ApplyingIsLatest
<1>2. /\ x \in applying.left /\ x \in Objects /\ o \in Logged /\ o \in Objects
      /\ action = Latest(o).action /\ action \in Actions
      /\ x \in captured \/ x \in Logged => x = o
      /\ o \notin applying.left => Applied(o)
      /\ MovedAs(files[x], action)
      /\ action = "purge" => PurgeLogged(o)
  BY <1>1, InProgress
<1>3. rows \in [Objects -> Row] /\ captured \subseteq Objects  BY PlaceFacts
<1>4. PICK new : new = [state |-> StateFor(action), at |-> applying.at]  OBVIOUS
<1>5. /\ State(x)' = (IF State(x) = "absent" THEN "absent" ELSE StateFor(action))
      /\ \A y \in Objects : y # x => State(y)' = State(y)
  <2>1. CASE rows[x].state = "absent"
    <3>1. rows' = rows  BY <1>1, <2>1 DEF RowSet
    <3>2. QED BY <2>1, <3>1 DEF State
  <2>2. CASE rows[x].state # "absent"
    <3>1. rows' = [rows EXCEPT ![x] = new]  BY <1>1, <1>4, <2>2 DEF RowSet
    <3>2. QED BY <1>2, <1>3, <1>4, <2>2, <3>1 DEF State
  <2>3. QED BY <2>1, <2>2
<1>6. \A y \in captured : y # o => State(y)' = State(y)  BY <1>2, <1>3, <1>5
<1>7. ASSUME NEW y \in captured, State(y) = "purged" PROVE State(y)' = "purged"
  <2>1. CASE y # x  BY <1>3, <1>5, <1>7, <2>1
  <2>2. CASE y = x
    <3>1. y = o /\ PurgeLogged(y)  BY <1>2, <1>7, <2>2 DEF PlaceInv, PurgesLogged, State
    <3>2. action = "purge"  BY <1>2, <3>1 DEF PurgeLogged
    <3>3. QED BY <1>5, <1>7, <2>2, <3>2 DEF StateFor
  <2>3. QED BY <2>1, <2>2
<1>8. ASSUME NEW t \in Logged, Applied(t) PROVE State(t)' = State(t)
  <2>1. t \in Objects  BY BackupFacts
  <2>2. CASE t # x  BY <1>5, <2>1, <2>2
  <2>3. CASE t = x  BY <1>2, <1>5, <1>8, <2>3 DEF Applied
  <2>4. QED BY <2>2, <2>3
<1>9. SameRecords  BY <1>1, SameRecordsByLog
<1>10. \A t \in Logged : Applied(t) => Applied(t)'  BY <1>8, <1>9, SameApplied
<1>11. o \notin applying.left \ {x} => Applied(o)'
  <2>1. CASE o # x  BY <1>2, <1>10, <2>1
  <2>2. CASE o = x
    <3>1. Latest(o)'.action = action  BY <1>2, <1>9 DEF SameRecords
    <3>2. State(o)' \in {"absent", StateFor(action)}  BY <1>5, <2>2
    <3>3. QED BY <3>1, <3>2 DEF Applied
  <2>3. QED BY <2>1, <2>2
<1>12. QED BY <1>2, <1>5, <1>6, <1>7, <1>8, <1>10, <1>11

(* Its bytes are there: they are missing only where a purge asks for none.    *)
LEMMA RowIsInPlace ==
  ASSUME Mixed = {}, BInv, PlaceInv, unopened, SetRow, NEW x, x = NextObject
  PROVE  InPlace(x)'
<1>1. PICK o, action : o = applying.object /\ action = applying.action  OBVIOUS
<1>2. applying.left # {} /\ files' = files
  BY DEF SetRow, NotApplying, BInv, ApplyingIsLatest
<1>3. /\ x \in Objects /\ o \in Logged /\ action = Latest(o).action /\ action \in Actions
      /\ x # o => <<x, o>> \in links
  BY <1>1, <1>2, InProgress
<1>4. /\ State(x)' = (IF State(x) = "absent" THEN "absent" ELSE StateFor(action))
      /\ MovedAs(files[x], action)
  BY <1>1, RowTellsPlace
<1>5. files[x] \in SUBSET Places /\ o \in Objects  BY <1>3, PlaceFacts, BackupFacts
<1>6. State(x) # "absent" /\ files[x] = {} => action = "purge"
  <2>1. SUFFICES ASSUME State(x) # "absent", files[x] = {} PROVE PurgeLogged(o)
    BY <1>3 DEF PurgeLogged
  <2>2. /\ x \in captured => PurgeLogged(x)
        /\ \A s \in Objects : <<x, s>> \in links => PurgeLogged(s)
    BY <1>3, <2>1 DEF PlaceInv, ReplayPlaces, BytesUntilPurged
  <2>3. x = o => x \in captured  BY <1>3, <2>1, PlaceFacts
  <2>4. QED BY <1>3, <1>5, <2>2, <2>3
<1>7. CASE State(x) = "absent"  BY <1>4, <1>7 DEF InPlace, State
<1>8. CASE State(x) # "absent"
  <2>1. State(x)' = StateFor(action)  BY <1>4, <1>8
  <2>2. CASE action = "quarantine"
    BY <1>2, <1>4, <1>5, <1>6, <1>8, <2>1, <2>2 DEF InPlace, State, StateFor, MovedAs, Places
  <2>3. CASE action = "restore"
    BY <1>2, <1>4, <1>5, <1>6, <1>8, <2>1, <2>3 DEF InPlace, State, StateFor, MovedAs, Places
  <2>4. CASE action = "purge"
    BY <1>2, <1>4, <2>1, <2>4 DEF InPlace, State, StateFor, MovedAs
  <2>5. QED BY <1>3, <2>2, <2>3, <2>4 DEF Actions
<1>9. QED BY <1>7, <1>8

(* Everything else that is owed still is, by a record that is still pending.  *)
LEMMA OthersStayOwed ==
  ASSUME Mixed = {}, BInv, PlaceInv, SetRow, NEW x, x = NextObject,
         NEW y \in Objects, y # x, NEW s \in Objects, OwedBy(y, s)
  PROVE  OwedBy(y, s)' /\ s \in pending'
<1>1. PICK o, action, rest : /\ o = applying.object /\ action = applying.action
                             /\ rest = applying.left \ {x}
  OBVIOUS
<1>2. /\ applying.left # {} /\ UNCHANGED <<captured, links, log>>
      /\ IF rest = {} THEN applying' = NotApplying /\ pending' = pending \ {o}
         ELSE applying' = [applying EXCEPT !.left = rest, !.moved = {}] /\ pending' = pending
  BY <1>1 DEF SetRow, NotApplying, BInv, ApplyingIsLatest
<1>3. /\ applying # NotApplying /\ o \in pending /\ o \in Objects /\ o \in Logged
      /\ x \in Logged => x = o
      /\ \A t \in pending : o <= t
  BY <1>1, <1>2, InProgress
<1>4. /\ s \in Logged /\ s \in pending /\ (s = o => y \in rest)
      /\ y = s \/ (y \in derivedObjects(s, Latest(s).action) /\ Applied(s))
      /\ \A t \in Logged : t < s => Applied(t)
  BY <1>1, <1>3 DEF OwedBy
<1>5. /\ \A z \in Objects : z # x => State(z)' = State(z)
      /\ \A z \in captured : z # o => State(z)' = State(z)
      /\ \A t \in Logged : Applied(t) => State(t)' = State(t) /\ Applied(t)'
  BY <1>1, RowTellsPlace
<1>6. SameRecords  BY <1>2, SameRecordsByLog
<1>7. s \in pending'  BY <1>2, <1>4
<1>8. s = applying'.object /\ applying' # NotApplying => y \in applying'.left
  <2>1. applying \in Applying  BY BackupFacts DEF TypeOK
  <2>2. CASE rest = {}  BY <1>2, <2>2
  <2>3. CASE rest # {}
    <3>1. applying'.object = o /\ applying'.left = rest  BY <1>1, <1>2, <2>1, <2>3 DEF Applying
    <3>2. QED BY <1>4, <3>1
  <2>4. QED BY <2>2, <2>3
<1>9. \A z \in captured \ {s} : State(z)' = State(z)
  <2>1. s # o => o < s
    <3>1. o \in Nat /\ s \in Nat  BY <1>3, BackupFacts
    <3>2. QED BY <1>3, <1>4, <3>1
  <2>2. s # o => State(o)' = State(o)  BY <1>3, <1>4, <1>5, <2>1
  <2>3. QED BY <1>5, <2>2
<1>10. PICK last : last = Latest(s).action  OBVIOUS
<1>11. Latest(s)'.action = last  BY <1>4, <1>6, <1>10 DEF SameRecords
<1>12. derivedObjects(s, last)' = derivedObjects(s, last)  BY <1>2, <1>9, SameDerived
<1>13. y = s \/ (y \in derivedObjects(s, last)' /\ Applied(s)')
  BY <1>4, <1>5, <1>10, <1>12
<1>14. \A t \in Logged' : t < s => Applied(t)'  BY <1>4, <1>5, <1>6 DEF SameRecords
<1>15. s \in Logged'  BY <1>4, <1>6 DEF SameRecords
<1>16. QED BY <1>7, <1>8, <1>11, <1>13, <1>14, <1>15 DEF OwedBy

LEMMA SetRowPlaces ==
  ASSUME Mixed = {}, BInv, PlaceInv, Opening, SetRow
  PROVE  PlaceInv'
<1>1. PICK o, action, x, rest : /\ o = applying.object /\ action = applying.action
                                /\ x = NextObject /\ rest = applying.left \ {x}
  OBVIOUS
<1>2. /\ applying.left # {} /\ applying.moved # {}
      /\ UNCHANGED <<files, captured, links, log, backup>>
      /\ IF rest = {} THEN applying' = NotApplying /\ pending' = pending \ {o}
         ELSE applying' = [applying EXCEPT !.left = rest, !.moved = {}] /\ pending' = pending
      /\ unopened' => unopened
  <2>1. applying.left # {}  BY DEF SetRow, NotApplying, BInv, ApplyingIsLatest
  <2>2. backup' = backup /\ (unopened' => unopened)  BY DEF Opening
  <2>3. QED BY <1>1, <2>1, <2>2 DEF SetRow
<1>3. /\ applying # NotApplying /\ x \in applying.left /\ x \in Objects
      /\ o \in pending /\ o \in Logged /\ o \in Objects
      /\ action = Latest(o).action /\ action \in Actions
      /\ x \in captured \/ x \in Logged => x = o
      /\ applying.left \ {o} \subseteq derivedObjects(o, action)
      /\ \A t \in pending : o <= t
      /\ action = "purge" => PurgeLogged(o)
  BY <1>1, <1>2, InProgress
<1>4. /\ State(x)' = (IF State(x) = "absent" THEN "absent" ELSE StateFor(action))
      /\ \A y \in Objects : y # x => State(y)' = State(y)
      /\ MovedAs(files[x], action)
      /\ \A y \in captured : y # o => State(y)' = State(y)
      /\ \A y \in captured : State(y) = "purged" => State(y)' = "purged"
      /\ o \notin rest => Applied(o)'
      /\ \A t \in Logged : Applied(t) => Applied(t)'
  BY <1>1, RowTellsPlace
<1>5. captured \subseteq Objects /\ links \subseteq Objects \X Objects  BY PlaceFacts
<1>6. /\ StateFor(action) # "absent"
      /\ StateFor(action) = "purged" => action = "purge"
      /\ StateFor(action) = "quarantined" => action = "quarantine"
  BY <1>3 DEF StateFor, Actions
<1>7. \A y \in Objects : State(y)' = "absent" <=> State(y) = "absent"  BY <1>4, <1>6
<1>8. TablesFit(rows, files, captured, links)'
  <2>1. \A p \in links : p[2] \in captured /\ State(p[1])' # "absent"
    BY <1>5, <1>7 DEF PlaceInv, TablesFit, State
  <2>2. \A y \in captured : State(y)' # "absent"
    BY <1>5, <1>7 DEF PlaceInv, TablesFit, State
  <2>3. \A y \in Objects : State(y)' # "absent" =>
          y \in captured \/ \E s \in Objects : <<y, s>> \in links
    BY <1>7, PlaceFacts
  <2>4. ASSUME NEW y \in Objects
        PROVE  /\ State(y)' = "purged" => files[y] = {}
               /\ State(y)' = "quarantined" => files[y] # Places
    <3>1. CASE y # x  BY <1>4, <3>1 DEF PlaceInv, TablesFit, State
    <3>2. CASE y = x  BY <1>4, <1>6, <3>2 DEF MovedAs, Places
    <3>3. QED BY <3>1, <3>2
  <2>5. ASSUME NEW p \in links, p[1] \notin captured, State(p[1])' = "purged"
        PROVE  State(p[2])' = "purged"
    <3>1. p[1] \in Objects /\ p[2] \in Objects /\ <<p[1], p[2]>> \in links /\ p[2] \in captured
      BY <1>5, <2>1
    <3>2. CASE p[1] = x
      <4>1. action = "purge"  BY <1>4, <1>6, <2>5, <3>2
      <4>2. State(p[2]) = "purged"  BY <1>1, <1>2, <3>1, <3>2, <4>1, LastPurged
      <4>3. QED BY <1>4, <3>1, <4>2
    <3>3. CASE p[1] # x
      <4>1. State(p[2]) = "purged"  BY <1>4, <2>5, <3>1, <3>3 DEF PlaceInv, TablesFit, State
      <4>2. QED BY <1>4, <3>1, <4>1
    <3>4. QED BY <3>2, <3>3
  <2>6. QED BY <1>2, <2>1, <2>2, <2>3, <2>4, <2>5 DEF TablesFit, State
<1>9. SameRecords  BY <1>2, SameRecordsByLog
<1>10. \A y : PurgeLogged(y)' <=> PurgeLogged(y)  BY <1>9, SamePurges
<1>11. PurgesLogged(rows, captured)'
  <2>1. ASSUME NEW y \in captured, State(y)' = "purged" PROVE PurgeLogged(y)
    <3>1. CASE y # x
      <4>1. State(y) = "purged"  BY <1>4, <1>5, <2>1, <3>1
      <4>2. QED BY <4>1 DEF PlaceInv, PurgesLogged, State
    <3>2. CASE y = x  BY <1>3, <1>4, <1>6, <2>1, <3>2
    <3>3. QED BY <3>1, <3>2
  <2>2. QED BY <1>2, <1>10, <2>1 DEF PurgesLogged, State
<1>12. ASSUME backup # NoBackup
       PROVE  /\ PurgesLogged(backup.rows, backup.captured)'
              /\ backup.captured \subseteq captured'
              /\ \A y \in backup.captured : backup.rows[y].state = "purged" => State(y)' = "purged"
  BY <1>2, <1>4, <1>10, <1>12 DEF PlaceInv, CopyIsSound, PurgesLogged
<1>13. CopyIsSound'  BY <1>2, <1>12 DEF PlaceInv, CopyIsSound
<1>14. ApplyingFits'
  <2>1. CASE rest = {}  BY <1>2, <2>1 DEF ApplyingFits
  <2>2. CASE rest # {}
    <3>1. applying \in Applying  BY BackupFacts DEF TypeOK
    <3>2. /\ applying'.object = o /\ applying'.action = action
          /\ applying'.left = rest /\ applying'.moved = {} /\ pending' = pending
      BY <1>1, <1>2, <2>2, <3>1 DEF Applying
    <3>3. derivedObjects(o, action)' = derivedObjects(o, action)
      BY <1>2, <1>4, SameDerived
    <3>4. rest \ {o} \subseteq derivedObjects(o, action)  BY <1>1, <1>3
    <3>5. QED BY <1>3, <1>4, <3>2, <3>3, <3>4 DEF ApplyingFits
  <2>3. QED BY <2>1, <2>2
<1>15. ASSUME unopened' PROVE ReplayPlaces'
  <2>1. /\ BytesUntilPurged /\ \A y \in Objects : InPlace(y) \/ \E s \in Objects : OwedBy(y, s)
        /\ \A t \in Logged \ pending : Applied(t)
    BY <1>2, <1>3, <1>15 DEF PlaceInv, ReplayPlaces
  <2>2. BytesUntilPurged'
    BY <1>2, <1>7, <1>10, <2>1 DEF BytesUntilPurged
  <2>3. \A t \in Logged \ pending' : Applied(t)'
    <3>1. CASE rest = {}  BY <1>2, <1>4, <2>1, <3>1
    <3>2. CASE rest # {}  BY <1>2, <1>4, <2>1, <3>2
    <3>3. QED BY <3>1, <3>2
  <2>4. InPlace(x)'  BY <1>1, <1>2, <1>15, RowIsInPlace
  <2>5. ASSUME NEW y \in Objects, y # x PROVE InPlace(y)' \/ \E s \in Objects : OwedBy(y, s)'
    <3>1. InPlace(y)' <=> InPlace(y)  BY <1>2, <1>4, <2>5 DEF InPlace, State
    <3>2. \A s \in Objects : OwedBy(y, s) => OwedBy(y, s)'  BY <1>1, <2>5, OthersStayOwed
    <3>3. QED BY <2>1, <3>1, <3>2
  <2>6. Logged' = Logged  BY <1>9 DEF SameRecords
  <2>7. QED BY <2>2, <2>3, <2>4, <2>5, <2>6 DEF ReplayPlaces
<1>16. ReplayPlaces'  BY <1>15 DEF ReplayPlaces
<1>17. QED BY <1>8, <1>11, <1>13, <1>14, <1>16 DEF PlaceInv

LEMMA StutterPlaces ==
  ASSUME Mixed = {}, BInv, PlaceInv, UNCHANGED allVars
  PROVE  PlaceInv'
<1>1. UNCHANGED <<rows, files, captured, links, log, pending, applying, backup, unopened>>
  BY DEF allVars, vars
<1>2. SameRecords /\ SameTables  BY <1>1, SameRecordsByLog DEF SameTables, SameRows, State
<1>3. /\ TablesFit(rows, files, captured, links)' /\ PurgesLogged(rows, captured)'
      /\ CopyIsSound'
  BY <1>1, <1>2, SameFits, SameCopy DEF SameTables
<1>4. ApplyingFits'
  <2>1. PICK o, action : o = applying.object /\ action = applying.action  OBVIOUS
  <2>2. derivedObjects(o, action)' = derivedObjects(o, action)
    BY <1>2, SameDerived, PlaceFacts DEF SameTables, SameRows
  <2>3. applying # NotApplying => o \in Logged  BY <2>1, BackupFacts DEF BInv, ApplyingIsLatest
  <2>4. applying # NotApplying => (Applied(o)' <=> Applied(o))
    BY <1>2, <2>3, SameApplied, BackupFacts DEF SameTables, SameRows
  <2>5. NextObject' = NextObject  BY <1>1 DEF NextObject
  <2>6. SUFFICES ASSUME applying # NotApplying
                 PROVE  /\ applying.left \ {o} \subseteq derivedObjects(o, action)'
                        /\ o \notin applying.left => Applied(o)'
                        /\ \A t \in pending : o <= t
                        /\ applying.moved # {} => MovedAs(files[NextObject], action)
    BY <1>1, <2>1, <2>5 DEF ApplyingFits
  <2>7. QED BY <2>1, <2>2, <2>4, <2>6 DEF PlaceInv, ApplyingFits
<1>5. ASSUME unopened' PROVE ReplayPlaces'
  <2>1. /\ BytesUntilPurged /\ \A o \in Objects : InPlace(o) \/ \E s \in Objects : OwedBy(o, s)
        /\ pending # {} => \A t \in Logged \ pending : Applied(t)
    BY <1>1, <1>5 DEF PlaceInv, ReplayPlaces
  <2>2. BytesUntilPurged'  BY <1>2, <2>1, SameBytes
  <2>3. ASSUME NEW o \in Objects, NEW s \in Objects, OwedBy(o, s) PROVE OwedBy(o, s)'
    BY <1>1, <1>2, <2>3, SameOwed DEF SameTables, OwedBy
  <2>4. \A o \in Objects : InPlace(o)' \/ \E s \in Objects : OwedBy(o, s)'
    BY <1>2, <2>1, <2>3, SamePlaces
  <2>5. pending' # {} => \A t \in Logged' \ pending' : Applied(t)'
    BY <1>1, <1>2, <2>1, SameApplied, BackupFacts DEF SameTables, SameRows, SameRecords
  <2>6. QED BY <2>2, <2>4, <2>5 DEF ReplayPlaces
<1>6. ReplayPlaces'  BY <1>5 DEF ReplayPlaces
<1>7. QED BY <1>3, <1>4, <1>6 DEF PlaceInv

LEMMA NextPlaces ==
  ASSUME Mixed = {}, Mixed' = {}, BInv, PlaceInv, [BackupNext]_allVars
  PROVE  PlaceInv'
<1>1. ASSUME Opening PROVE PlaceInv'
  <2>1. Open \/ BeginApply \/ MoveFile \/ SetRow \/ Stop  BY <1>1 DEF Opening
  <2>2. QED BY <1>1, <2>1, OpenOrStopPlaces, BeginPlaces, MovePlaces, SetRowPlaces
<1>2. QED
  BY <1>1, UsingPlaces, CopyPlaces, RestorePlaces, AgePlaces, StutterPlaces DEF BackupNext

(* While the replay of a restored copy is under way, stopped or begun again,   *)
(* each object is in its place or will be reached by a pending record        *)
(* (applyDeletions, Open), in histories in which no record ever names an      *)
(* object that follows a source.                                            *)
THEOREM PlacesAreOwed ==
  BackupSpec /\ [](Mixed = {}) => []PlaceInv
<1>1. BackupInit => PlaceInv  BY InitPlaces
<1>2. /\ BInv /\ PlaceInv /\ [BackupNext]_allVars
      /\ Mixed = {} /\ (Mixed = {})'
      => PlaceInv'
  BY NextPlaces
<1>3. QED BY <1>1, <1>2, BackupInvariantHolds, PTL DEF BackupSpec

(* What a restore hands over agrees with itself: every row says where its      *)
(* object's bytes are, although the copy and the newest log were written at  *)
(* different times and the replay may have been stopped (Restore, Open). This *)
(* is proved of histories in which no record ever names an object that       *)
(* follows a source. In others the replay may move an object twice, in the    *)
(* order of the ids, and leave its row and its bytes apart.                 *)
THEOREM RestoredRowsTellPlaces ==
  BackupSpec /\ [](Mixed = {}) => RestoredInPlace
<1>1. ASSUME Mixed = {}, BInv, PlaceInv, [BackupNext]_allVars, unopened, ~unopened', NEW y \in Objects
      PROVE  InPlace(y)'
  <2>1. stale  BY <1>1 DEF BInv, ReplayHides
  <2>2. InPlace(y) \/ \E s \in Objects : OwedBy(y, s)  BY <1>1 DEF PlaceInv, ReplayPlaces
  <2>3. Opening /\ ~stale'
    <3>1. Opening
      BY <1>1 DEF BackupNext, Backup, Restore, RestoredFrom, BackupThirtyDays, Using, allVars
    <3>2. QED BY <1>1, <3>1 DEF Opening
  <2>4. CASE Open
    <3>1. Logged = {} /\ UNCHANGED <<rows, files>>  BY <2>1, <2>3, <2>4 DEF Open
    <3>2. InPlace(y)  BY <2>2, <3>1 DEF OwedBy
    <3>3. QED BY <3>1, <3>2 DEF InPlace
  <2>5. CASE SetRow
    <3>1. PICK o, x, rest : o = applying.object /\ x = NextObject /\ rest = applying.left \ {x}
      OBVIOUS
    <3>2. rest = {} /\ pending = {o} /\ pending' = {} /\ files' = files
      BY <2>1, <2>3, <2>5, <3>1 DEF SetRow
    <3>3. CASE y = x  BY <1>1, <2>5, <3>1, <3>3, RowIsInPlace
    <3>4. CASE y # x
      <4>1. InPlace(y)  BY <1>1, <2>2, <2>5, <3>1, <3>2, <3>4, OthersStayOwed
      <4>2. State(y)' = State(y)  BY <1>1, <2>5, <3>1, <3>4, RowTellsPlace
      <4>3. QED BY <3>2, <4>1, <4>2 DEF InPlace, State
    <3>5. QED BY <3>3, <3>4
  <2>6. QED
    <3>1. Open \/ BeginApply \/ MoveFile \/ SetRow \/ Stop  BY <2>3 DEF Opening
    <3>2. ~BeginApply /\ ~MoveFile /\ ~Stop  BY <2>1, <2>3 DEF BeginApply, MoveFile, Stop
    <3>3. QED BY <2>4, <2>5, <3>1, <3>2
<1>2. BInv /\ PlaceInv /\ Mixed = {} /\ [BackupNext]_allVars =>
        [unopened /\ ~unopened' => \A o \in Objects : InPlace(o)']_allVars
  BY <1>1
<1>3. QED BY <1>2, BackupInvariantHolds, PlacesAreOwed, PTL DEF BackupSpec, RestoredInPlace
=============================================================================
