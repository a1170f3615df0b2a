----------------------------- MODULE CapturesProofs -----------------------------
(****************************************************************************)
(* Theorems about Captures for any callers, bytes and requests: what a      *)
(* successful call promised is recorded, what is made of deleted bytes does *)
(* not stay, what is downloaded can be downloaded again, and an extraction  *)
(* answers by its own capture.                                              *)
(****************************************************************************)
EXTENDS Captures, FiniteSetTheorems, TLAPS

(* What names a capture: its request, or the key an import gave.              *)
Ids == Sources \cup {i.key : i \in Imports} \cup {NoCapture}

(* Requests whose URL may be downloaded again, if it was downloaded.         *)
Repeatable == {req \in Sources : req.at > 0 => Admitted(req.url)}

Reassessing == [op : {"reassess"}, of : Ids, links : SUBSET Ids, req : Repeatable]
Getting == [op : {"get"}, of : Ids, url : {"plain", "policy"}, at : Nat, hops : Nat,
            signed : BOOLEAN, last : {"plain", "policy", "signed"}]
Storing == [op : {"store", "link"}, of : Ids, req : Repeatable]
Failing == [op : {"failed"}, of : Ids, result : {"failed", "human_action_required"}]
Importing == [op : {"body", "derivation"}, import : Imports, req : Repeatable]

CallType == {Idle} \cup Reassessing \cup Getting \cup Storing \cup Failing \cup Importing

(* Objects that extraction and imports make.                                *)
Makeable == {i.derived : i \in Imports} \cup {TextOf[b] : b \in Bytes}

States == {"absent", "active", "quarantined", "purged"}
Attempt == [of : Ids, result : {"acquired", "failed", "human_action_required"}, capture : Ids]

OneRowPerKey == \A c, d \in captures : c.key = d.key => c = d

(* Objects that are no original were made of one.                             *)
OnlyMade == \A d \in Bytes \ Originals : object[d] # "absent" => d \in Makeable

Tables ==
  /\ object \in [Bytes -> States]
  /\ captures \subseteq [key : Ids, req : Repeatable]
  /\ OneRowPerKey
  /\ derivations \subseteq (Makeable \cap Bytes) \X Keys
  /\ \A x \in extractions : x[1] \in Bytes \cap Originals /\ x = <<x[1], TextOf[x[1]]>>
  /\ OnlyMade

(* A signed redirect is remembered until the capture gets its URL.           *)
SignedIsKnown ==
  \A p \in Callers : call[p].op = "get" => call[p].signed \/ Admitted(call[p].last)

(* What Reassess read stays true: no attempt is ever removed.                 *)
LinksRead ==
  \A p \in Callers : call[p].op = "reassess" => \A k \in call[p].links : Linked(call[p].of, k)

Calls == call \in [Callers -> CallType] /\ SignedIsKnown /\ LinksRead

LinkedOnce ==
  \A m, n \in 1..Len(attempts) :
    (/\ attempts[m].capture # NoCapture
     /\ attempts[m].of = attempts[n].of /\ attempts[m].capture = attempts[n].capture)
    => m = n

Attempts == attempts \in Seq(Attempt) /\ LinkedOnce

Promises ==
  \A f \in promised :
    \/ f.what = "link" /\ f.capture # NoCapture /\ Linked(f.of, f.capture)
    \/ f.what = "derivation" /\ <<f.of, f.capture>> \in derivations

Answers == (\A a \in answered : a[1] \in Keys) /\ ExtractionByCapture

Counters == fetches \in 0..MaxFetches /\ stops \in 0..MaxStops

CapturesInv == Tables /\ Calls /\ Attempts /\ Promises /\ Answers /\ Counters

-----------------------------------------------------------------------------
(* Rows.                                                                    *)

LEMMA RowOf ==
  ASSUME NEW C, NEW c \in C, \A d, e \in C : d.key = e.key => d = e
  PROVE  (CHOOSE d \in C : d.key = c.key).req = c.req
OBVIOUS

LEMMA RequestOfKey ==
  ASSUME Tables, NEW k \in Keys
  PROVE  /\ [key |-> k, req |-> ReqOf(k)] \in captures
         /\ k \in Ids /\ ReqOf(k) \in Repeatable /\ ReqOf(k).bytes \in Bytes \cap Originals
<1>1. PICK c \in captures : c.key = k  BY DEF Keys
<1>2. ReqOf(k) = c.req  BY <1>1, RowOf DEF ReqOf, Tables, OneRowPerKey
<1>3. c \in [key : Ids, req : Repeatable]  BY DEF Tables
<1>4. [key |-> k, req |-> c.req] = c  BY <1>1, <1>3
<1>5. c.req.bytes \in Bytes  BY <1>3 DEF Repeatable, Sources
<1>6. QED BY <1>1, <1>2, <1>3, <1>4, <1>5 DEF Originals

LEMMA SourcesAreOriginals ==
  ASSUME Tables, NEW d \in Bytes
  PROVE  SourcesOf(d) \subseteq Bytes \cap Originals /\ (SourcesOf(d) # {} => d \in Makeable)
<1>1. \A x \in derivations : x[1] \in Makeable /\ x[2] \in Keys  BY DEF Tables
<1>2. \A x \in derivations : ReqOf(x[2]).bytes \in Bytes \cap Originals
  BY <1>1, RequestOfKey
<1>3. \A x \in extractions : x[1] \in Bytes \cap Originals /\ x[2] = TextOf[x[1]]
  BY DEF Tables
<1>4. \A x \in extractions : x[2] \in Makeable  BY <1>3 DEF Makeable
<1>5. QED BY <1>1, <1>2, <1>3, <1>4 DEF SourcesOf

(* Captures are only added, and each keeps its request.                       *)
RowsGrow == \A k \in Keys : k \in Keys' /\ ReqOf(k)' = ReqOf(k)

LEMMA SourcesGrow ==
  ASSUME Tables, RowsGrow, derivations \subseteq derivations', extractions \subseteq extractions',
         NEW d
  PROVE  SourcesOf(d) \subseteq SourcesOf(d)'
<1>1. \A x \in derivations : ReqOf(x[2])' = ReqOf(x[2])
  BY DEF Tables, RowsGrow
<1>2. SUFFICES ASSUME NEW s \in SourcesOf(d) PROVE s \in SourcesOf(d)'  OBVIOUS
<1>3. CASE \E x \in derivations : x[1] = d /\ s = ReqOf(x[2]).bytes
  <2>1. PICK x \in derivations : x[1] = d /\ s = ReqOf(x[2]).bytes  BY <1>3
  <2>2. x \in derivations' /\ s = ReqOf(x[2])'.bytes  BY <1>1, <2>1
  <2>3. QED BY <2>1, <2>2 DEF SourcesOf
<1>4. CASE \E x \in extractions : x[2] = d /\ s = x[1]  BY <1>4 DEF SourcesOf
<1>5. QED BY <1>2, <1>3, <1>4 DEF SourcesOf

LEMMA SameRows ==
  ASSUME UNCHANGED captures
  PROVE  RowsGrow /\ Keys' = Keys /\ Originals' = Originals
BY DEF RowsGrow, Keys, ReqOf, Originals

(* A commit of the store: it keeps every row, and adds one of its own.         *)
LEMMA StoreKeepsRows ==
  ASSUME Tables, NEW key, NEW req \in Repeatable, KeyFor(key, req) \in Ids,
         MayStore(key, req), Stored(key, req)
  PROVE  /\ RowsGrow
         /\ captures' \subseteq [key : Ids, req : Repeatable]
         /\ OneRowPerKey'
         /\ KeyFor(key, req) \in Keys'
         /\ Originals' = Originals \cup {req.bytes}
<1>1. PICK k, new : k = KeyFor(key, req) /\ new = [key |-> k, req |-> req]  OBVIOUS
<1>2. captures' = captures \cup {new}  BY <1>1 DEF Stored
<1>3. new \in [key : Ids, req : Repeatable]  BY <1>1
<1>4. k \in Keys => new \in captures
  <2>1. k \in Keys => ReqOf(k) = req  BY <1>1 DEF MayStore
  <2>2. QED BY <1>1, <2>1, RequestOfKey
<1>5. captures' \subseteq [key : Ids, req : Repeatable]  BY <1>2, <1>3 DEF Tables
<1>6. \A c, d \in captures' : c.key = d.key => c = d
  <2>1. CASE k \in Keys  BY <1>2, <1>4, <2>1 DEF Tables, OneRowPerKey
  <2>2. CASE k \notin Keys
    <3>1. \A c \in captures : c.key # k  BY <2>2 DEF Keys
    <3>2. new.key = k  BY <1>1
    <3>3. QED BY <1>2, <3>1, <3>2 DEF Tables, OneRowPerKey
  <2>3. QED BY <2>1, <2>2
<1>7. ASSUME NEW q \in Keys PROVE q \in Keys' /\ ReqOf(q)' = ReqOf(q)
  <2>1. PICK c \in captures : c.key = q  BY DEF Keys
  <2>2. c \in captures'  BY <1>2
  <2>3. ReqOf(q) = c.req  BY <2>1, RowOf DEF ReqOf, Tables, OneRowPerKey
  <2>4. ReqOf(q)' = c.req  BY <1>6, <2>1, <2>2, RowOf DEF ReqOf
  <2>5. QED BY <2>1, <2>2, <2>3, <2>4 DEF Keys
<1>8. k \in Keys'  BY <1>1, <1>2 DEF Keys
<1>9. Originals' = Originals \cup {req.bytes}  BY <1>1, <1>2 DEF Originals
<1>10. QED BY <1>1, <1>5, <1>6, <1>7, <1>8, <1>9 DEF RowsGrow, OneRowPerKey

LEMMA WithRowKeeps ==
  ASSUME Tables, NEW b \in Bytes
  PROVE  /\ WithRow(b) \in [Bytes -> States]
         /\ WithRow(b)[b] # "absent"
         /\ \A o \in Bytes : object[o] = "active" => WithRow(b)[o] = "active"
         /\ \A o \in Bytes \ {b} : WithRow(b)[o] = object[o]
         /\ Usable(b) => WithRow(b)[b] = "active"
BY DEF Tables, WithRow, States, Usable

LEMMA StoreKeepsTables ==
  ASSUME Tables, NEW key, NEW req \in Repeatable, KeyFor(key, req) \in Ids,
         MayStore(key, req), Stored(key, req), UNCHANGED <<derivations, extractions>>
  PROVE  Tables' /\ RowsGrow /\ (DerivedHasSource => DerivedHasSource')
<1>1. req.bytes \in Bytes  BY DEF Repeatable, Sources
<1>2. object' = WithRow(req.bytes)  BY DEF Stored
<1>3. /\ RowsGrow /\ captures' \subseteq [key : Ids, req : Repeatable] /\ OneRowPerKey'
      /\ Originals' = Originals \cup {req.bytes}
  BY StoreKeepsRows
<1>4. derivations' \subseteq (Makeable \cap Bytes) \X Keys'
  BY <1>3 DEF Tables, RowsGrow
<1>5. \A x \in extractions' : x[1] \in Bytes \cap Originals' /\ x = <<x[1], TextOf[x[1]]>>
  BY <1>3 DEF Tables
<1>6. \A d \in Bytes \ Originals' : object'[d] = object[d] /\ d \in Bytes \ Originals
  BY <1>1, <1>2, <1>3, WithRowKeeps
<1>7. OnlyMade'  BY <1>6 DEF OnlyMade, Tables
<1>8. Tables'  BY <1>1, <1>2, <1>3, <1>4, <1>5, <1>7, WithRowKeeps DEF Tables
<1>9. ASSUME DerivedHasSource PROVE DerivedHasSource'
  <2>1. SUFFICES ASSUME NEW d \in Bytes \ Originals', object'[d] = "active"
                 PROVE  \E s \in SourcesOf(d)' : object'[s] = "active"
    BY DEF DerivedHasSource
  <2>2. PICK s \in SourcesOf(d) : object[s] = "active"  BY <1>6, <1>9, <2>1 DEF DerivedHasSource
  <2>3. s \in Bytes  BY SourcesAreOriginals
  <2>4. s \in SourcesOf(d)'  BY <1>3, SourcesGrow
  <2>5. object'[s] = "active"  BY <1>1, <1>2, <2>2, <2>3, WithRowKeeps
  <2>6. QED BY <2>4, <2>5
<1>10. QED BY <1>3, <1>8, <1>9

(* Recording that an object was made of an active original.                    *)
LEMMA MakingKeepsTables ==
  ASSUME Tables, NEW d \in Bytes \cap Makeable, object' = WithRow(d), UNCHANGED captures,
         derivations \subseteq derivations', extractions \subseteq extractions',
         derivations' \subseteq (Makeable \cap Bytes) \X Keys,
         \A x \in extractions' : x[1] \in Bytes \cap Originals /\ x = <<x[1], TextOf[x[1]]>>,
         NEW s \in Bytes, object[s] = "active", s \in SourcesOf(d)'
  PROVE  Tables' /\ RowsGrow /\ (DerivedHasSource => DerivedHasSource')
<1>1. RowsGrow /\ Keys' = Keys /\ Originals' = Originals  BY SameRows
<1>2. OnlyMade'
  <2>1. SUFFICES ASSUME NEW o \in Bytes \ Originals, object'[o] # "absent"
                 PROVE  o \in Makeable
    BY <1>1 DEF OnlyMade
  <2>2. CASE o = d  BY <2>2
  <2>3. CASE o # d
    <3>1. object'[o] = object[o]  BY <2>3, WithRowKeeps
    <3>2. QED BY <2>1, <3>1 DEF Tables, OnlyMade
  <2>4. QED BY <2>2, <2>3
<1>3. Tables'
  <2>1. object' \in [Bytes -> States]  BY WithRowKeeps
  <2>2. OneRowPerKey' /\ captures' \subseteq [key : Ids, req : Repeatable]
    BY DEF Tables, OneRowPerKey
  <2>3. QED BY <1>1, <1>2, <2>1, <2>2 DEF Tables
<1>4. ASSUME DerivedHasSource PROVE DerivedHasSource'
  <2>1. SUFFICES ASSUME NEW o \in Bytes \ Originals, object'[o] = "active"
                 PROVE  \E t \in SourcesOf(o)' : object'[t] = "active"
    BY <1>1 DEF DerivedHasSource
  <2>2. CASE o = d
    <3>1. object'[s] = "active"  BY WithRowKeeps
    <3>2. QED BY <2>2, <3>1
  <2>3. CASE o # d
    <3>1. object[o] = "active"  BY <2>1, <2>3, WithRowKeeps
    <3>2. PICK t \in SourcesOf(o) : object[t] = "active"  BY <1>4, <3>1 DEF DerivedHasSource
    <3>3. t \in Bytes  BY SourcesAreOriginals
    <3>4. t \in SourcesOf(o)'  BY <1>1, SourcesGrow
    <3>5. object'[t] = "active"  BY <3>2, <3>3, WithRowKeeps
    <3>6. QED BY <3>4, <3>5
  <2>4. QED BY <2>2, <2>3
<1>5. QED BY <1>1, <1>3, <1>4

-----------------------------------------------------------------------------
(* Calls, attempts, promises and answers.                                   *)

LEMMA Assumptions ==
  /\ NoText \notin Bytes /\ NoCapture \notin Sources
  /\ TextOf \in [Bytes -> Bytes \cup {NoText}]
  /\ \A req \in Requests : req \in Repeatable
  /\ \A i \in Imports : i.body \in Bytes /\ i.derived \in Bytes /\ i.at \in Nat /\ i.key \in Ids
  /\ Repeatable \subseteq Ids /\ NoCapture \in Ids
BY CapturesAssumption DEF Repeatable, Ids, Sources

LEMMA CallKinds ==
  ASSUME NEW c \in CallType
  PROVE  /\ c.op = "reassess" => c \in Reassessing
         /\ c.op = "get" => c \in Getting
         /\ c.op \in {"store", "link"} => c \in Storing
         /\ c.op = "failed" => c \in Failing
         /\ c.op \in {"body", "derivation"} => c \in Importing
BY DEF CallType, Idle, Reassessing, Getting, Storing, Failing, Importing

LEMMA IdleIsCall == Idle \in CallType /\ Idle.op = "idle"
BY DEF CallType, Idle

(* What was linked stays linked.                                            *)
LinksStay == \A of, k : Linked(of, k) => Linked(of, k)'

LEMMA CallsKept ==
  ASSUME Calls, LinksStay, NEW p \in Callers, NEW state \in CallType,
         call' = [call EXCEPT ![p] = state],
         state.op = "get" => state.signed \/ Admitted(state.last),
         state.op = "reassess" => \A k \in state.links : Linked(state.of, k)
  PROVE  Calls'
<1>1. call \in [Callers -> CallType]  BY DEF Calls
<1>2. call' \in [Callers -> CallType] /\ call'[p] = state  BY <1>1
<1>3. \A q \in Callers : q # p => call'[q] = call[q]  BY <1>1
<1>4. ASSUME NEW q \in Callers, call'[q].op = "get"
      PROVE  call'[q].signed \/ Admitted(call'[q].last)
  <2>1. CASE q = p  BY <1>2, <1>4, <2>1
  <2>2. CASE q # p
    <3>1. call[q].op = "get" /\ call'[q] = call[q]  BY <1>3, <1>4, <2>2
    <3>2. call[q].signed \/ Admitted(call[q].last)  BY <3>1 DEF Calls, SignedIsKnown
    <3>3. QED BY <3>1, <3>2
  <2>3. QED BY <2>1, <2>2
<1>5. ASSUME NEW q \in Callers, NEW c, c = call'[q], c.op = "reassess", NEW k \in c.links
      PROVE  \E n \in 1..Len(attempts') : attempts'[n].of = c.of /\ attempts'[n].capture = k
  <2>1. Linked(c.of, k)
    <3>1. CASE q = p  BY <1>2, <1>5, <3>1
    <3>2. CASE q # p
      <4>1. c = call[q]  BY <1>3, <1>5, <3>2
      <4>2. \A l \in call[q].links : Linked(call[q].of, l)
        BY <1>5, <4>1 DEF Calls, LinksRead
      <4>3. QED BY <1>5, <4>1, <4>2
    <3>3. QED BY <3>1, <3>2
  <2>2. PICK of : of = c.of  OBVIOUS
  <2>3. Linked(of, k)'  BY <2>1, <2>2 DEF LinksStay
  <2>4. QED BY <2>2, <2>3 DEF Linked
<1>6. SignedIsKnown'  BY <1>4 DEF SignedIsKnown
<1>7. LinksRead'
  <2>1. SUFFICES ASSUME NEW q \in Callers, call'[q].op = "reassess", NEW k \in call'[q].links
                 PROVE  \E n \in 1..Len(attempts') :
                          attempts'[n].of = call'[q].of /\ attempts'[n].capture = k
    BY DEF LinksRead, Linked
  <2>2. PICK c : c = call'[q]  OBVIOUS
  <2>3. QED BY <1>5, <2>1, <2>2
<1>8. QED BY <1>2, <1>6, <1>7 DEF Calls

LEMMA AttemptAppended ==
  ASSUME Attempts, NEW a \in Attempt, attempts' = Append(attempts, a),
         a.capture # NoCapture => ~Linked(a.of, a.capture)
  PROVE  Attempts' /\ LinksStay /\ Linked(a.of, a.capture)'
<1>1. PICK n : n = Len(attempts)  OBVIOUS
<1>2. attempts \in Seq(Attempt) /\ n \in Nat  BY <1>1 DEF Attempts
<1>3. /\ attempts' \in Seq(Attempt) /\ Len(attempts') = n + 1
      /\ attempts'[n + 1] = a
      /\ \A m \in 1..n : attempts'[m] = attempts[m]
  BY <1>1, <1>2
<1>4. \A m \in 1..(n + 1) : m \in 1..n \/ m = n + 1  BY <1>2
<1>5. n + 1 \in 1..(n + 1) /\ 1..n \subseteq 1..(n + 1)  BY <1>2
<1>6. LinksStay
  <2>1. SUFFICES ASSUME NEW of, NEW k, Linked(of, k) PROVE Linked(of, k)'  BY DEF LinksStay
  <2>2. PICK m \in 1..n : attempts[m].of = of /\ attempts[m].capture = k
    BY <1>1, <2>1 DEF Linked
  <2>3. QED BY <1>3, <1>5, <2>2 DEF Linked
<1>7. Linked(a.of, a.capture)'  BY <1>3, <1>5 DEF Linked
<1>8. ASSUME NEW l \in 1..(n + 1), NEW m \in 1..(n + 1), attempts'[l].capture # NoCapture,
             attempts'[l].of = attempts'[m].of, attempts'[l].capture = attempts'[m].capture
      PROVE  l = m
  <2>1. CASE l \in 1..n /\ m \in 1..n
    BY <1>1, <1>3, <1>8, <2>1 DEF Attempts, LinkedOnce
  <2>2. CASE l = n + 1 /\ m \in 1..n
    <3>1. Linked(a.of, a.capture)  BY <1>1, <1>3, <1>8, <2>2 DEF Linked
    <3>2. QED BY <1>3, <1>8, <2>2, <3>1
  <2>3. CASE m = n + 1 /\ l \in 1..n
    <3>1. Linked(a.of, a.capture)  BY <1>1, <1>3, <1>8, <2>3 DEF Linked
    <3>2. QED BY <1>3, <1>8, <2>3, <3>1
  <2>4. QED BY <1>4, <2>1, <2>2, <2>3
<1>9. LinkedOnce'  BY <1>3, <1>8 DEF LinkedOnce
<1>10. QED BY <1>3, <1>6, <1>7, <1>9 DEF Attempts

LEMMA SameAttempts ==
  ASSUME Attempts, UNCHANGED attempts
  PROVE  Attempts' /\ LinksStay
BY DEF Attempts, LinkedOnce, LinksStay, Linked

LEMMA PromisesKept ==
  ASSUME Promises, LinksStay, derivations \subseteq derivations',
         \A f \in promised' \ promised :
           \/ f.what = "link" /\ f.capture # NoCapture /\ Linked(f.of, f.capture)'
           \/ f.what = "derivation" /\ <<f.of, f.capture>> \in derivations'
  PROVE  Promises'
<1>1. ASSUME NEW f \in promised
      PROVE  \/ f.what = "link" /\ f.capture # NoCapture /\ Linked(f.of, f.capture)'
             \/ f.what = "derivation" /\ <<f.of, f.capture>> \in derivations'
  BY DEF Promises, LinksStay
<1>2. QED BY <1>1 DEF Promises

LEMMA AnswersKept ==
  ASSUME Answers, RowsGrow, UNCHANGED answered
  PROVE  Answers'
<1>1. \A a \in answered : a[1] \in Keys' /\ ReqOf(a[1])' = ReqOf(a[1])
  BY DEF Answers, RowsGrow
<1>2. ExtractionByCapture'
  <2>1. SUFFICES ASSUME NEW a \in answered
                 PROVE  a[2] \in (IF ReqOf(a[1])'.media # "html" THEN {"refused"}
                                  ELSE IF TextOf[ReqOf(a[1])'.bytes] = NoText THEN {"failed"}
                                  ELSE {"text", "deleted"})
    BY DEF ExtractionByCapture
  <2>2. QED BY <1>1 DEF Answers, ExtractionByCapture
<1>3. QED BY <1>1, <1>2 DEF Answers

(* A step that touches no table keeps what is known of them.                   *)
LEMMA SameTables ==
  ASSUME Tables, UNCHANGED <<object, captures, derivations, extractions>>
  PROVE  Tables' /\ RowsGrow /\ (DerivedHasSource => DerivedHasSource')
<1>1. RowsGrow /\ Keys' = Keys /\ Originals' = Originals  BY SameRows
<1>2. Tables'  BY <1>1 DEF Tables, OneRowPerKey, OnlyMade
<1>3. \A d : SourcesOf(d)' = SourcesOf(d)  BY DEF SourcesOf, ReqOf
<1>4. QED BY <1>1, <1>2, <1>3 DEF DerivedHasSource

LEMMA CallSteps ==
  ASSUME CapturesInv, NEW p \in Callers, NEW state \in CallType,
         call' = [call EXCEPT ![p] = state],
         UNCHANGED <<tables, promised, answered>>, Counters',
         state.op = "get" => state.signed \/ Admitted(state.last),
         state.op = "reassess" => \A k \in state.links : Linked(state.of, k)
  PROVE  CapturesInv' /\ (DerivedHasSource => DerivedHasSource')
<1>1. /\ UNCHANGED <<object, captures, derivations, extractions>> /\ UNCHANGED attempts
      /\ promised' = promised /\ answered' = answered
  BY DEF tables
<1>2. Tables' /\ RowsGrow /\ (DerivedHasSource => DerivedHasSource')
  BY <1>1, SameTables DEF CapturesInv
<1>3. Attempts' /\ LinksStay  BY <1>1, SameAttempts DEF CapturesInv
<1>4. Calls'  BY <1>3, CallsKept DEF CapturesInv
<1>5. Promises'
  <2>1. derivations \subseteq derivations' /\ promised' \ promised = {}  BY <1>1
  <2>2. QED BY <1>3, <2>1, PromisesKept DEF CapturesInv
<1>6. Answers'  BY <1>1, <1>2, AnswersKept DEF CapturesInv
<1>7. QED BY <1>2, <1>3, <1>4, <1>5, <1>6 DEF CapturesInv

-----------------------------------------------------------------------------
(* The steps of a call.                                                     *)

LEMMA SameCalls ==
  ASSUME Calls, LinksStay, UNCHANGED call
  PROVE  Calls'
BY DEF Calls, SignedIsKnown, LinksRead, LinksStay

LEMMA BeginReassessStep ==
  ASSUME CapturesInv, NEW p \in Callers, NEW key \in Keys, NEW basis \in Bases,
         BeginReassess(p, key, basis)
  PROVE  CapturesInv' /\ (DerivedHasSource => DerivedHasSource')
<1>1. PICK old : old = ReqOf(key)  OBVIOUS
<1>2. old \in Repeatable /\ key \in Ids  BY <1>1, RequestOfKey DEF CapturesInv
<1>3. PICK req : req = [old EXCEPT !.completeness = "verified", !.basis = basis, !.at = 0]
  OBVIOUS
<1>4. req \in Repeatable
  <2>1. old \in Sources  BY <1>2 DEF Repeatable
  <2>2. req \in Sources /\ req.at = 0  BY <1>3, <2>1 DEF Sources
  <2>3. QED BY <2>2 DEF Repeatable
<1>5. PICK links : links = {k \in Keys : Linked(key, k)}  OBVIOUS
<1>6. links \in SUBSET Ids  BY <1>5, RequestOfKey DEF CapturesInv
<1>7. PICK state : state = [op |-> "reassess", of |-> key, links |-> links, req |-> req]  OBVIOUS
<1>8. state \in CallType  BY <1>2, <1>4, <1>6, <1>7 DEF CallType, Reassessing
<1>9. call' = [call EXCEPT ![p] = state]
  BY <1>1, <1>3, <1>5, <1>7 DEF BeginReassess, Continue
<1>10. UNCHANGED <<tables, promised, answered>> /\ Counters'
  BY DEF BeginReassess, Keep, CapturesInv, Counters
<1>11. state.op = "reassess" /\ state.of = key /\ state.links = links  BY <1>7
<1>12. QED BY <1>5, <1>8, <1>9, <1>10, <1>11, CallSteps

LEMMA BeginAcquireStep ==
  ASSUME CapturesInv, NEW p \in Callers, NEW url, NEW of \in Keys \cup {NoCapture},
         BeginAcquire(p, url, of)
  PROVE  CapturesInv' /\ (DerivedHasSource => DerivedHasSource')
<1>1. of \in Ids  BY RequestOfKey, Assumptions DEF CapturesInv
<1>2. fetches \in 0..MaxFetches /\ MaxFetches \in Nat
  BY CapturesAssumption DEF CapturesInv, Counters
<1>3. fetches' \in 0..MaxFetches /\ fetches' \in Nat  BY <1>2 DEF BeginAcquire
<1>4. UNCHANGED <<tables, promised, answered>> /\ Counters'
  BY <1>3 DEF BeginAcquire, CapturesInv, Counters
<1>5. CASE Admitted(url)
  <2>1. PICK state : state = [op |-> "get", of |-> of, url |-> url, at |-> fetches',
                              hops |-> 0, signed |-> FALSE, last |-> url]
    OBVIOUS
  <2>2. state \in CallType /\ state.op = "get" /\ Admitted(state.last)
    BY <1>1, <1>3, <1>5, <2>1 DEF CallType, Getting, Admitted
  <2>3. call' = [call EXCEPT ![p] = state]  BY <1>5, <2>1 DEF BeginAcquire, Continue
  <2>4. QED BY <1>4, <2>2, <2>3, CallSteps
<1>6. CASE ~Admitted(url)
  <2>1. PICK state : state = [op |-> "failed", of |-> of, result |-> "failed"]  OBVIOUS
  <2>2. state \in CallType /\ state.op = "failed"  BY <1>1, <2>1 DEF CallType, Failing
  <2>3. call' = [call EXCEPT ![p] = state]  BY <1>6, <2>1 DEF BeginAcquire, Continue
  <2>4. QED BY <1>4, <2>2, <2>3, CallSteps
<1>7. QED BY <1>5, <1>6

LEMMA GiveUpStep ==
  ASSUME CapturesInv, NEW p \in Callers, call[p].op = "get",
         NEW result \in {"failed", "human_action_required"}, GiveUp(p, result),
         UNCHANGED tables, Keep
  PROVE  CapturesInv' /\ (DerivedHasSource => DerivedHasSource')
<1>1. UNCHANGED <<tables, promised, answered>> /\ Counters'
  BY DEF Keep, CapturesInv, Counters
<1>2. CASE call[p].of = NoCapture
  <2>1. call' = [call EXCEPT ![p] = Idle]  BY <1>2 DEF GiveUp, Done, Continue
  <2>2. QED BY <1>1, <2>1, IdleIsCall, CallSteps
<1>3. CASE call[p].of # NoCapture
  <2>1. PICK state : state = [op |-> "failed", of |-> call[p].of, result |-> result]  OBVIOUS
  <2>2. call[p] \in CallType  BY DEF CapturesInv, Calls
  <2>3. call[p].of \in Ids  BY <2>2, CallKinds DEF Getting
  <2>4. state \in CallType /\ state.op = "failed"  BY <2>1, <2>3 DEF CallType, Failing
  <2>5. call' = [call EXCEPT ![p] = state]  BY <1>3, <2>1 DEF GiveUp, Continue
  <2>6. QED BY <1>1, <2>4, <2>5, CallSteps
<1>4. QED BY <1>2, <1>3

LEMMA RedirectStep ==
  ASSUME CapturesInv, NEW p \in Callers, NEW to \in {"plain", "signed", "query"}, Redirect(p, to)
  PROVE  CapturesInv' /\ (DerivedHasSource => DerivedHasSource')
<1>1. PICK c : c = call[p]  OBVIOUS
<1>2. c \in Getting
  <2>1. c \in CallType /\ c.op = "get"  BY <1>1 DEF CapturesInv, Calls, Redirect
  <2>2. QED BY <2>1, CallKinds
<1>3. UNCHANGED <<tables, promised, answered>> /\ Counters'
  BY DEF Redirect, Keep, CapturesInv, Counters
<1>4. CASE c.hops < MaxRedirects /\ (to = "plain" \/ (to = "signed" /\ c.hops = 0 /\ c.url = "policy"))
  <2>1. PICK state : state = [c EXCEPT !.hops = c.hops + 1,
                                !.signed = c.signed \/ to = "signed", !.last = to]
    OBVIOUS
  <2>2. call' = [call EXCEPT ![p] = state]  BY <1>1, <1>4, <2>1 DEF Redirect, Continue
  <2>3. state \in Getting
    <3>1. PICK signed : signed = (c.signed \/ to = "signed")  OBVIOUS
    <3>2. signed \in BOOLEAN  BY <3>1, Zenon
    <3>3. to \in {"plain", "policy", "signed"} /\ c.hops + 1 \in Nat
      BY <1>2, <1>4 DEF Getting
    <3>4. state = [c EXCEPT !.hops = c.hops + 1, !.signed = signed, !.last = to]
      BY <2>1, <3>1, Zenon
    <3>5. QED BY <1>2, <3>2, <3>3, <3>4 DEF Getting
  <2>4. state \in CallType /\ state.op = "get"  BY <2>3 DEF CallType, Getting
  <2>5. state.signed \/ Admitted(state.last)
    <3>1. state.last = to /\ (to = "signed" => state.signed)  BY <1>2, <2>1 DEF Getting
    <3>2. QED BY <1>4, <3>1 DEF Admitted
  <2>6. QED BY <1>3, <2>2, <2>4, <2>5, CallSteps
<1>5. CASE ~(c.hops < MaxRedirects /\ (to = "plain" \/ (to = "signed" /\ c.hops = 0 /\ c.url = "policy")))
  <2>1. GiveUp(p, "failed")  BY <1>1, <1>5 DEF Redirect
  <2>2. QED BY <2>1, GiveUpStep DEF Redirect
<1>6. QED BY <1>4, <1>5

LEMMA AnswerStep ==
  ASSUME CapturesInv, NEW p \in Callers, Answer(p)
  PROVE  CapturesInv' /\ (DerivedHasSource => DerivedHasSource')
<1>1. PICK c : c = call[p]  OBVIOUS
<1>2. c \in Getting
  <2>1. c \in CallType /\ c.op = "get"  BY <1>1 DEF CapturesInv, Calls, Answer
  <2>2. QED BY <2>1, CallKinds
<1>3. UNCHANGED <<tables, promised, answered>> /\ Counters'
  BY DEF Answer, Keep, CapturesInv, Counters
<1>4. CASE GiveUp(p, "human_action_required") \/ GiveUp(p, "failed")
  BY <1>4, GiveUpStep DEF Answer
<1>5. CASE \E b \in Remote, media \in {"html", "text"} :
             Continue(p, [op |-> "store", of |-> c.of,
                          req |-> Source(b, media, CaptureURL(c), "unknown", NoBasis, c.at)])
  <2>1. PICK b \in Remote, media \in {"html", "text"} :
          Continue(p, [op |-> "store", of |-> c.of,
                       req |-> Source(b, media, CaptureURL(c), "unknown", NoBasis, c.at)])
    BY <1>5
  <2>2. PICK req : req = Source(b, media, CaptureURL(c), "unknown", NoBasis, c.at)  OBVIOUS
  <2>3. Admitted(CaptureURL(c))
    <3>1. c.signed \/ Admitted(c.last)  BY <1>1 DEF Answer, CapturesInv, Calls, SignedIsKnown
    <3>2. Admitted(c.url)  BY <1>2 DEF Getting, Admitted
    <3>3. QED BY <3>1, <3>2 DEF CaptureURL
  <2>4. CaptureURL(c) \in {"plain", "policy"}  BY <2>3 DEF Admitted
  <2>5. b \in Bytes /\ c.at \in Nat  BY <1>2, CapturesAssumption DEF Getting
  <2>6. req \in Repeatable  BY <2>2, <2>3, <2>4, <2>5 DEF Source, Repeatable, Sources
  <2>7. PICK state : state = [op |-> "store", of |-> c.of, req |-> req]  OBVIOUS
  <2>8. state \in CallType /\ state.op = "store"
    BY <1>2, <2>6, <2>7 DEF CallType, Storing, Getting
  <2>9. call' = [call EXCEPT ![p] = state]  BY <2>1, <2>2, <2>7 DEF Continue
  <2>10. QED BY <1>3, <2>8, <2>9, CallSteps
<1>6. QED BY <1>1, <1>4, <1>5 DEF Answer

LEMMA BeginImportStep ==
  ASSUME CapturesInv, NEW p \in Callers, NEW i \in Imports, BeginImport(p, i)
  PROVE  CapturesInv' /\ (DerivedHasSource => DerivedHasSource')
<1>1. PICK req : req = Source(i.body, "text", "plain", "unknown", NoBasis, i.at)  OBVIOUS
<1>2. req \in Repeatable
  BY <1>1, Assumptions DEF Source, Repeatable, Sources, Admitted
<1>3. PICK state : state = [op |-> "body", import |-> i, req |-> req]  OBVIOUS
<1>4. state \in CallType /\ state.op = "body"  BY <1>2, <1>3 DEF CallType, Importing
<1>5. call' = [call EXCEPT ![p] = state]  BY <1>1, <1>3 DEF BeginImport, Continue
<1>6. UNCHANGED <<tables, promised, answered>> /\ Counters'
  BY DEF BeginImport, Keep, CapturesInv, Counters
<1>7. QED BY <1>4, <1>5, <1>6, CallSteps

LEMMA StopStep ==
  ASSUME CapturesInv, NEW p \in Callers, Stop(p)
  PROVE  CapturesInv' /\ (DerivedHasSource => DerivedHasSource')
<1>1. call' = [call EXCEPT ![p] = Idle]  BY DEF Stop, Done, Continue
<1>2. Counters'  BY CapturesAssumption DEF Stop, CapturesInv, Counters
<1>3. UNCHANGED <<tables, promised, answered>>  BY DEF Stop
<1>4. QED BY <1>1, <1>2, <1>3, IdleIsCall, CallSteps

-----------------------------------------------------------------------------
(* The commits.                                                             *)

LEMMA StoreSteps ==
  ASSUME CapturesInv, NEW key, NEW req \in Repeatable, KeyFor(key, req) \in Ids,
         MayStore(key, req), Stored(key, req),
         UNCHANGED <<attempts, derivations, extractions, fetches, stops, answered>>,
         Calls',
         \A f \in promised' \ promised :
           f.what = "link" /\ f.capture # NoCapture /\ Linked(f.of, f.capture)
  PROVE  CapturesInv' /\ (DerivedHasSource => DerivedHasSource')
<1>1. Tables' /\ RowsGrow /\ (DerivedHasSource => DerivedHasSource')
  BY StoreKeepsTables DEF CapturesInv
<1>2. Attempts' /\ LinksStay  BY SameAttempts DEF CapturesInv
<1>3. Promises'
  <2>1. \A f \in promised' \ promised :
          f.what = "link" /\ f.capture # NoCapture /\ Linked(f.of, f.capture)'
    BY <1>2 DEF LinksStay
  <2>2. QED BY <1>2, <2>1, PromisesKept DEF CapturesInv
<1>4. Answers'  BY <1>1, AnswersKept DEF CapturesInv
<1>5. QED BY <1>1, <1>2, <1>3, <1>4 DEF CapturesInv, Counters

LEMMA CaptureSourceStep ==
  ASSUME CapturesInv, NEW req \in Requests, CaptureSource(req)
  PROVE  CapturesInv' /\ (DerivedHasSource => DerivedHasSource')
<1>1. req \in Repeatable /\ KeyFor(NoKey, req) \in Ids  BY Assumptions DEF KeyFor
<1>2. Calls'
  <2>1. Attempts' /\ LinksStay /\ call' = call  BY SameAttempts DEF CaptureSource, CapturesInv
  <2>2. QED BY <2>1, SameCalls DEF CapturesInv
<1>3. QED BY <1>1, <1>2, StoreSteps DEF CaptureSource, Keep

LEMMA StoreRecoveredStep ==
  ASSUME CapturesInv, NEW p \in Callers, StoreRecovered(p)
  PROVE  CapturesInv' /\ (DerivedHasSource => DerivedHasSource')
<1>1. PICK c : c = call[p]  OBVIOUS
<1>2. c \in CallType /\ c.op \in {"reassess", "store"}
  BY <1>1 DEF CapturesInv, Calls, StoreRecovered
<1>3. c.of \in Ids /\ c.req \in Repeatable  BY <1>2, CallKinds DEF Reassessing, Storing
<1>4. KeyFor(NoKey, c.req) \in Ids /\ c.req # NoCapture
  BY <1>3, Assumptions DEF KeyFor, Repeatable
<1>5. UNCHANGED <<attempts, derivations, extractions, fetches, stops, answered>>
  BY DEF StoreRecovered
<1>6. LinksStay  BY <1>5, SameAttempts DEF CapturesInv
<1>7. ASSUME NEW state \in CallType, state.op \in {"idle", "link", "failed"},
             call' = [call EXCEPT ![p] = state]
      PROVE  Calls'
  BY <1>6, <1>7, CallsKept DEF CapturesInv
<1>8. CASE MayStore(NoKey, c.req)
  <2>1. Stored(NoKey, c.req)  BY <1>1, <1>8 DEF StoreRecovered
  <2>2. CASE HeldLink(p) \/ c.of = NoCapture
    <3>1. Calls'
      <4>1. call' = [call EXCEPT ![p] = Idle]
        BY <1>1, <1>8, <2>2 DEF StoreRecovered, Done, Continue
      <4>2. QED BY <1>7, <4>1, IdleIsCall
    <3>2. \A f \in promised' \ promised :
            f.what = "link" /\ f.capture # NoCapture /\ Linked(f.of, f.capture)
      <4>1. CASE c.of = NoCapture
        <5>1. promised' = promised  BY <1>1, <1>8, <2>2, <4>1 DEF StoreRecovered
        <5>2. QED BY <5>1
      <4>2. CASE c.of # NoCapture
        <5>1. promised' = promised \cup {Link(c.of, c.req)}
          BY <1>1, <1>8, <2>2, <4>2 DEF StoreRecovered, Promise
        <5>2. c.op = "reassess" /\ c.req \in c.links  BY <1>1, <2>2, <4>2 DEF HeldLink
        <5>3. Linked(c.of, c.req)  BY <1>1, <5>2 DEF CapturesInv, Calls, LinksRead
        <5>4. QED BY <1>4, <5>1, <5>3 DEF Link
      <4>3. QED BY <4>1, <4>2
    <3>3. QED BY <1>3, <1>4, <1>5, <1>8, <2>1, <3>1, <3>2, StoreSteps
  <2>3. CASE ~(HeldLink(p) \/ c.of = NoCapture)
    <3>1. PICK state : state = [op |-> "link", of |-> c.of, req |-> c.req]  OBVIOUS
    <3>2. state \in CallType /\ state.op = "link"  BY <1>3, <3>1 DEF CallType, Storing
    <3>3. call' = [call EXCEPT ![p] = state] /\ promised' = promised
      BY <1>1, <1>8, <2>3, <3>1 DEF StoreRecovered, Continue
    <3>4. Calls'  BY <1>7, <3>2, <3>3
    <3>5. promised' \ promised = {}  BY <3>3
    <3>6. QED BY <1>3, <1>4, <1>5, <1>8, <2>1, <3>4, <3>5, StoreSteps
  <2>4. QED BY <2>2, <2>3
<1>9. CASE ~MayStore(NoKey, c.req)
  <2>1. UNCHANGED <<object, captures, promised>>  BY <1>1, <1>9 DEF StoreRecovered
  <2>2. UNCHANGED <<tables, promised, answered>> /\ Counters'
    BY <1>5, <2>1 DEF tables, CapturesInv, Counters
  <2>3. CASE c.op = "store" /\ c.of # NoCapture
    <3>1. PICK state : state = [op |-> "failed", of |-> c.of, result |-> "failed"]  OBVIOUS
    <3>2. state \in CallType /\ state.op = "failed"  BY <1>3, <3>1 DEF CallType, Failing
    <3>3. call' = [call EXCEPT ![p] = state]
      BY <1>1, <1>9, <2>3, <3>1 DEF StoreRecovered, Continue
    <3>4. QED BY <2>2, <3>2, <3>3, CallSteps
  <2>4. CASE ~(c.op = "store" /\ c.of # NoCapture)
    <3>1. call' = [call EXCEPT ![p] = Idle]
      BY <1>1, <1>9, <2>4 DEF StoreRecovered, Done, Continue
    <3>2. QED BY <2>2, <3>1, IdleIsCall, CallSteps
  <2>5. QED BY <2>3, <2>4
<1>10. QED BY <1>8, <1>9

LEMMA AttemptSteps ==
  ASSUME CapturesInv, Attempts', LinksStay, Calls',
         UNCHANGED <<object, captures, derivations, extractions, fetches, stops, answered>>,
         \A f \in promised' \ promised :
           f.what = "link" /\ f.capture # NoCapture /\ Linked(f.of, f.capture)'
  PROVE  CapturesInv' /\ (DerivedHasSource => DerivedHasSource')
<1>1. Tables' /\ RowsGrow /\ (DerivedHasSource => DerivedHasSource')
  BY SameTables DEF CapturesInv
<1>2. Promises'  BY PromisesKept DEF CapturesInv
<1>3. Answers'  BY <1>1, AnswersKept DEF CapturesInv
<1>4. QED BY <1>1, <1>2, <1>3 DEF CapturesInv, Counters

LEMMA RecordLinkStep ==
  ASSUME CapturesInv, NEW p \in Callers, RecordLink(p)
  PROVE  CapturesInv' /\ (DerivedHasSource => DerivedHasSource')
<1>1. PICK c : c = call[p]  OBVIOUS
<1>2. c \in Storing
  <2>1. c \in CallType /\ c.op = "link"  BY <1>1 DEF CapturesInv, Calls, RecordLink
  <2>2. QED BY <2>1, CallKinds
<1>3. c.of \in Ids /\ c.req \in Ids /\ c.req # NoCapture
  BY <1>2, Assumptions DEF Storing, Repeatable
<1>4. /\ UNCHANGED <<object, captures, derivations, extractions, fetches, stops, answered>>
      /\ call' = [call EXCEPT ![p] = Idle]
  BY DEF RecordLink, Done, Continue
<1>5. ASSUME LinksStay PROVE Calls'
  BY <1>4, <1>5, IdleIsCall, CallsKept DEF CapturesInv
<1>6. CASE Found(c.of) /\ Found(c.req)
  <2>1. promised' = promised \cup {Link(c.of, c.req)}  BY <1>1, <1>6 DEF RecordLink, Promise
  <2>2. Attempts' /\ LinksStay /\ Linked(c.of, c.req)'
    <3>1. CASE Linked(c.of, c.req)
      <4>1. attempts' = attempts  BY <1>1, <1>6, <3>1 DEF RecordLink
      <4>2. Attempts' /\ LinksStay  BY <4>1, SameAttempts DEF CapturesInv
      <4>3. QED BY <3>1, <4>2 DEF LinksStay
    <3>2. CASE ~Linked(c.of, c.req)
      <4>1. PICK a : a = [of |-> c.of, result |-> "acquired", capture |-> c.req]  OBVIOUS
      <4>2. a \in Attempt /\ a.of = c.of /\ a.capture = c.req  BY <1>3, <4>1 DEF Attempt
      <4>3. attempts' = Append(attempts, a)  BY <1>1, <1>6, <3>2, <4>1 DEF RecordLink
      <4>4. ~Linked(a.of, a.capture)  BY <3>2, <4>2
      <4>5. Attempts' /\ LinksStay /\ Linked(a.of, a.capture)'
        BY <4>2, <4>3, <4>4, AttemptAppended DEF CapturesInv
      <4>6. QED BY <4>2, <4>5
    <3>3. QED BY <3>1, <3>2
  <2>3. \A f \in promised' \ promised :
          f.what = "link" /\ f.capture # NoCapture /\ Linked(f.of, f.capture)'
    BY <1>3, <2>1, <2>2 DEF Link
  <2>4. QED BY <1>4, <1>5, <2>2, <2>3, AttemptSteps
<1>7. CASE ~(Found(c.of) /\ Found(c.req))
  <2>1. promised' = promised /\ attempts' = attempts  BY <1>1, <1>7 DEF RecordLink
  <2>2. Attempts' /\ LinksStay  BY <2>1, SameAttempts DEF CapturesInv
  <2>3. promised' \ promised = {}  BY <2>1
  <2>4. QED BY <1>4, <1>5, <2>2, <2>3, AttemptSteps
<1>8. QED BY <1>6, <1>7

LEMMA RecordFailureStep ==
  ASSUME CapturesInv, NEW p \in Callers, RecordFailure(p)
  PROVE  CapturesInv' /\ (DerivedHasSource => DerivedHasSource')
<1>1. PICK c : c = call[p]  OBVIOUS
<1>2. c \in Failing
  <2>1. c \in CallType /\ c.op = "failed"  BY <1>1 DEF CapturesInv, Calls, RecordFailure
  <2>2. QED BY <2>1, CallKinds
<1>3. /\ UNCHANGED <<object, captures, derivations, extractions, fetches, stops, answered>>
      /\ call' = [call EXCEPT ![p] = Idle] /\ promised' \ promised = {}
  BY DEF RecordFailure, Done, Continue, Keep
<1>4. Attempts' /\ LinksStay
  <2>1. CASE Found(c.of)
    <3>1. PICK a : a = [of |-> c.of, result |-> c.result, capture |-> NoCapture]  OBVIOUS
    <3>2. a \in Attempt /\ a.capture = NoCapture
      BY <1>2, <3>1, Assumptions DEF Attempt, Failing
    <3>3. attempts' = Append(attempts, a)  BY <1>1, <2>1, <3>1 DEF RecordFailure
    <3>4. QED BY <3>2, <3>3, AttemptAppended DEF CapturesInv
  <2>2. CASE ~Found(c.of)
    <3>1. attempts' = attempts  BY <1>1, <2>2 DEF RecordFailure
    <3>2. QED BY <3>1, SameAttempts DEF CapturesInv
  <2>3. QED BY <2>1, <2>2
<1>5. Calls'  BY <1>3, <1>4, IdleIsCall, CallsKept DEF CapturesInv
<1>6. QED BY <1>3, <1>4, <1>5, AttemptSteps

LEMMA StoreBodyStep ==
  ASSUME CapturesInv, NEW p \in Callers, StoreBody(p)
  PROVE  CapturesInv' /\ (DerivedHasSource => DerivedHasSource')
<1>1. PICK c : c = call[p]  OBVIOUS
<1>2. c \in Importing /\ c.op = "body"
  <2>1. c \in CallType /\ c.op = "body"  BY <1>1 DEF CapturesInv, Calls, StoreBody
  <2>2. QED BY <2>1, CallKinds
<1>3. c.import \in Imports /\ c.req \in Repeatable  BY <1>2 DEF Importing
<1>4. KeyFor(c.import.key, c.req) \in Ids  BY <1>3, Assumptions DEF KeyFor
<1>5. UNCHANGED <<attempts, derivations, extractions, fetches, stops, answered, promised>>
  BY DEF StoreBody, Keep
<1>6. CASE MayStore(c.import.key, c.req)
  <2>1. Stored(c.import.key, c.req)  BY <1>1, <1>6 DEF StoreBody
  <2>2. PICK state : state = [c EXCEPT !.op = "derivation"]  OBVIOUS
  <2>3. state \in CallType /\ state.op = "derivation"
    BY <1>2, <2>2 DEF CallType, Importing
  <2>4. call' = [call EXCEPT ![p] = state]  BY <1>1, <1>6, <2>2 DEF StoreBody, Continue
  <2>5. LinksStay  BY <1>5, SameAttempts DEF CapturesInv
  <2>6. Calls'  BY <2>3, <2>4, <2>5, CallsKept DEF CapturesInv
  <2>7. promised' \ promised = {}  BY <1>5
  <2>8. QED BY <1>3, <1>4, <1>5, <1>6, <2>1, <2>6, <2>7, StoreSteps
<1>7. CASE ~MayStore(c.import.key, c.req)
  <2>1. call' = [call EXCEPT ![p] = Idle] /\ UNCHANGED <<object, captures>>
    BY <1>1, <1>7 DEF StoreBody, Done, Continue
  <2>2. UNCHANGED <<tables, promised, answered>> /\ Counters'
    BY <1>5, <2>1 DEF tables, CapturesInv, Counters
  <2>3. QED BY <2>1, <2>2, IdleIsCall, CallSteps
<1>8. QED BY <1>6, <1>7

LEMMA AddDerivationStep ==
  ASSUME CapturesInv, NEW p \in Callers, AddDerivation(p)
  PROVE  CapturesInv' /\ (DerivedHasSource => DerivedHasSource')
<1>1. PICK c : c = call[p]  OBVIOUS
<1>2. c \in Importing
  <2>1. c \in CallType /\ c.op = "derivation"  BY <1>1 DEF CapturesInv, Calls, AddDerivation
  <2>2. QED BY <2>1, CallKinds
<1>3. PICK d, k : d = c.import.derived /\ k = KeyFor(c.import.key, c.req)  OBVIOUS
<1>4. d \in Bytes \cap Makeable  BY <1>2, <1>3, Assumptions DEF Importing, Makeable
<1>5. /\ UNCHANGED <<captures, attempts, extractions, fetches, stops, answered>>
      /\ call' = [call EXCEPT ![p] = Idle]
  BY DEF AddDerivation, Done, Continue
<1>6. Attempts' /\ LinksStay  BY <1>5, SameAttempts DEF CapturesInv
<1>7. Calls'  BY <1>5, <1>6, IdleIsCall, CallsKept DEF CapturesInv
<1>8. CASE StillDerivable(k, d)
  <2>1. /\ object' = WithRow(d) /\ derivations' = derivations \cup {<<d, k>>}
        /\ promised' = promised \cup {Derivation(d, k)}
    BY <1>1, <1>3, <1>8 DEF AddDerivation, Promise
  <2>2. PICK s : s = ReqOf(k).bytes  OBVIOUS
  <2>3. k \in Keys /\ object[s] = "active"  BY <1>8, <2>2 DEF StillDerivable, Found
  <2>4. s \in Bytes  BY <2>2, <2>3, RequestOfKey DEF CapturesInv
  <2>5. s \in SourcesOf(d)'
    <3>1. ReqOf(k)' = ReqOf(k)  BY <1>5 DEF ReqOf
    <3>2. <<d, k>> \in derivations'  BY <2>1
    <3>3. s = ReqOf(k)'.bytes  BY <2>2, <3>1
    <3>4. QED BY <3>2, <3>3 DEF SourcesOf
  <2>6. derivations' \subseteq (Makeable \cap Bytes) \X Keys
    BY <1>4, <2>1, <2>3 DEF CapturesInv, Tables
  <2>7. \A x \in extractions' : x[1] \in Bytes \cap Originals /\ x = <<x[1], TextOf[x[1]]>>
    BY <1>5 DEF CapturesInv, Tables
  <2>8. derivations \subseteq derivations' /\ extractions \subseteq extractions'  BY <1>5, <2>1
  <2>9. Tables' /\ RowsGrow /\ (DerivedHasSource => DerivedHasSource')
    BY <1>4, <1>5, <2>1, <2>3, <2>4, <2>5, <2>6, <2>7, <2>8, MakingKeepsTables DEF CapturesInv
  <2>10. Promises'
    <3>1. \A f \in promised' \ promised :
            f.what = "derivation" /\ <<f.of, f.capture>> \in derivations'
      BY <2>1 DEF Derivation
    <3>2. QED BY <1>6, <2>8, <3>1, PromisesKept DEF CapturesInv
  <2>11. Answers'  BY <1>5, <2>9, AnswersKept DEF CapturesInv
  <2>12. QED BY <1>5, <1>6, <1>7, <2>9, <2>10, <2>11 DEF CapturesInv, Counters
<1>9. CASE ~StillDerivable(k, d)
  <2>1. UNCHANGED <<object, derivations, promised>>  BY <1>1, <1>3, <1>9 DEF AddDerivation
  <2>2. UNCHANGED <<tables, promised, answered>> /\ Counters'
    BY <1>5, <2>1 DEF tables, CapturesInv, Counters
  <2>3. QED BY <1>5, <2>2, IdleIsCall, CallSteps
<1>10. QED BY <1>8, <1>9

LEMMA NewAnswer ==
  ASSUME Answers, RowsGrow, NEW key \in Keys, NEW answer,
         answered' = answered \cup {<<key, answer>>},
         answer \in (IF ReqOf(key).media # "html" THEN {"refused"}
                     ELSE IF TextOf[ReqOf(key).bytes] = NoText THEN {"failed"}
                     ELSE {"text", "deleted"})
  PROVE  Answers'
<1>1. \A a \in answered : a[1] \in Keys  BY DEF Answers
<1>2. \A a \in answered' : a[1] \in Keys' /\ ReqOf(a[1])' = ReqOf(a[1])
  BY <1>1 DEF RowsGrow
<1>3. \A a \in answered' :
        a[2] \in (IF ReqOf(a[1]).media # "html" THEN {"refused"}
                  ELSE IF TextOf[ReqOf(a[1]).bytes] = NoText THEN {"failed"}
                  ELSE {"text", "deleted"})
  BY DEF Answers, ExtractionByCapture
<1>4. ExtractionByCapture'
  <2>1. SUFFICES ASSUME NEW a \in answered'
                 PROVE  a[2] \in (IF ReqOf(a[1])'.media # "html" THEN {"refused"}
                                  ELSE IF TextOf[ReqOf(a[1])'.bytes] = NoText THEN {"failed"}
                                  ELSE {"text", "deleted"})
    BY DEF ExtractionByCapture
  <2>2. QED BY <1>2, <1>3
<1>5. QED BY <1>2, <1>4 DEF Answers

LEMMA ExtractTextStep ==
  ASSUME CapturesInv, NEW key \in Keys, ExtractText(key)
  PROVE  CapturesInv' /\ (DerivedHasSource => DerivedHasSource')
<1>1. PICK b, t : b = ReqOf(key).bytes /\ t = TextOf[b]  OBVIOUS
<1>2. b \in Bytes \cap Originals  BY <1>1, RequestOfKey DEF CapturesInv
<1>3. t \in Bytes \cup {NoText} /\ NoText \notin Bytes  BY <1>1, <1>2, Assumptions
<1>4. object[b] = "active"  BY <1>1 DEF ExtractText, Found
<1>5. UNCHANGED <<captures, attempts, derivations, call, fetches, stops, promised>>
  BY DEF ExtractText
<1>6. Attempts' /\ LinksStay  BY <1>5, SameAttempts DEF CapturesInv
<1>7. Calls'  BY <1>5, <1>6, SameCalls DEF CapturesInv
<1>8. Promises'
  <2>1. derivations \subseteq derivations' /\ promised' \ promised = {}  BY <1>5
  <2>2. QED BY <1>6, <2>1, PromisesKept DEF CapturesInv
<1>9. Counters'  BY <1>5 DEF CapturesInv, Counters
<1>10. \A x \in extractions : x[1] \in Bytes \cap Originals /\ x = <<x[1], TextOf[x[1]]>>
  BY DEF CapturesInv, Tables
<1>11. PICK answer :
         /\ answered' = answered \cup {<<key, answer>>}
         /\ answer \in (IF ReqOf(key).media # "html" THEN {"refused"}
                        ELSE IF TextOf[ReqOf(key).bytes] = NoText THEN {"failed"}
                        ELSE {"text", "deleted"})
  <2>1. CASE ~Extractable(key)
    <3>1. answered' = answered \cup {<<key, "refused">>}  BY <2>1 DEF ExtractText
    <3>2. QED BY <2>1, <3>1 DEF Extractable
  <2>2. CASE Extractable(key) /\ Recorded(b) # {}
    <3>1. PICK x \in extractions : x[1] = b  BY <2>2 DEF Recorded
    <3>2. x = <<b, t>>  BY <1>1, <1>10, <3>1
    <3>3. <<b, NoText>> \in extractions => t = NoText  BY <1>1, <1>10
    <3>4. CASE <<b, NoText>> \in extractions
      <4>1. answered' = answered \cup {<<key, "failed">>}  BY <1>1, <2>2, <3>4 DEF ExtractText
      <4>2. QED BY <1>1, <2>2, <3>3, <3>4, <4>1 DEF Extractable
    <3>5. CASE <<b, NoText>> \notin extractions
      <4>1. answered' = answered \cup {<<key, "text">>}  BY <1>1, <2>2, <3>5 DEF ExtractText
      <4>2. t # NoText  BY <3>1, <3>2, <3>5
      <4>3. QED BY <1>1, <2>2, <4>1, <4>2 DEF Extractable
    <3>6. QED BY <3>4, <3>5
  <2>3. CASE Extractable(key) /\ Recorded(b) = {} /\ t = NoText
    <3>1. answered' = answered \cup {<<key, "failed">>}  BY <1>1, <2>3 DEF ExtractText
    <3>2. QED BY <1>1, <2>3, <3>1 DEF Extractable
  <2>4. CASE Extractable(key) /\ Recorded(b) = {} /\ t # NoText
    <3>1. \/ answered' = answered \cup {<<key, "text">>}
          \/ answered' = answered \cup {<<key, "deleted">>}
      BY <1>1, <2>4 DEF ExtractText
    <3>2. QED BY <1>1, <2>4, <3>1 DEF Extractable
  <2>5. QED BY <2>1, <2>2, <2>3, <2>4
<1>12. Tables' /\ RowsGrow /\ (DerivedHasSource => DerivedHasSource')
  <2>1. \/ UNCHANGED <<object, extractions>>
        \/ t = NoText /\ object' = object /\ extractions' = extractions \cup {<<b, NoText>>}
        \/ t # NoText /\ object' = WithRow(t) /\ extractions' = extractions \cup {<<b, t>>}
    BY <1>1 DEF ExtractText
  <2>2. CASE UNCHANGED <<object, extractions>>
    BY <1>5, <2>2, SameTables DEF CapturesInv
  <2>3. CASE t = NoText /\ object' = object /\ extractions' = extractions \cup {<<b, NoText>>}
    <3>1. RowsGrow /\ Keys' = Keys /\ Originals' = Originals  BY <1>5, SameRows
    <3>2. \A x \in extractions' : x[1] \in Bytes \cap Originals /\ x = <<x[1], TextOf[x[1]]>>
      <4>1. extractions' = extractions \cup {<<b, t>>}  BY <2>3
      <4>2. QED BY <1>1, <1>2, <1>10, <4>1
    <3>3. Tables'
      <4>1. OneRowPerKey' /\ captures' \subseteq [key : Ids, req : Repeatable]
        BY <1>5 DEF CapturesInv, Tables, OneRowPerKey
      <4>2. OnlyMade' /\ object' \in [Bytes -> States]
        BY <2>3, <3>1 DEF CapturesInv, Tables, OnlyMade
      <4>3. derivations' \subseteq (Makeable \cap Bytes) \X Keys'
        BY <1>5, <3>1 DEF CapturesInv, Tables
      <4>4. \A x \in extractions' : x[1] \in Bytes \cap Originals' /\ x = <<x[1], TextOf[x[1]]>>
        BY <3>1, <3>2
      <4>5. QED BY <4>1, <4>2, <4>3, <4>4 DEF Tables
    <3>4. derivations \subseteq derivations' /\ extractions \subseteq extractions'  BY <1>5, <2>3
    <3>5. \A d : SourcesOf(d) \subseteq SourcesOf(d)'
      BY <3>1, <3>4, SourcesGrow DEF CapturesInv
    <3>6. DerivedHasSource => DerivedHasSource'  BY <2>3, <3>1, <3>5 DEF DerivedHasSource
    <3>7. QED BY <3>1, <3>3, <3>6
  <2>4. CASE t # NoText /\ object' = WithRow(t) /\ extractions' = extractions \cup {<<b, t>>}
    <3>1. t \in Bytes \cap Makeable  BY <1>1, <1>2, <1>3, <2>4 DEF Makeable
    <3>2. \A x \in extractions' : x[1] \in Bytes \cap Originals /\ x = <<x[1], TextOf[x[1]]>>
      BY <1>1, <1>2, <1>10, <2>4
    <3>3. b \in SourcesOf(t)'
      <4>1. <<b, t>> \in extractions'  BY <2>4
      <4>2. QED BY <4>1 DEF SourcesOf
    <3>4. derivations' \subseteq (Makeable \cap Bytes) \X Keys  BY <1>5 DEF CapturesInv, Tables
    <3>5. derivations \subseteq derivations' /\ extractions \subseteq extractions'  BY <1>5, <2>4
    <3>6. QED
      BY <1>2, <1>4, <1>5, <2>4, <3>1, <3>2, <3>3, <3>4, <3>5, MakingKeepsTables DEF CapturesInv
  <2>5. QED BY <2>1, <2>2, <2>3, <2>4
<1>13. Answers'  BY <1>11, <1>12, NewAnswer DEF CapturesInv
<1>14. QED BY <1>6, <1>7, <1>8, <1>9, <1>12, <1>13 DEF CapturesInv

-----------------------------------------------------------------------------
(* Deletions.                                                               *)

(* What moves beside the object an operator names was made of it.             *)
LEMMA MadeOfSources ==
  ASSUME Tables, NEW b, NEW keeping
  PROVE  /\ MadeOf(b, keeping) \subseteq (Bytes \cap Makeable) \ Originals
         /\ b \notin MadeOf(b, keeping)
BY SourcesAreOriginals DEF MadeOf

LEMMA MoveStep ==
  ASSUME CapturesInv, NEW b \in Bytes, NEW from \in States \ {"absent"},
         NEW to \in States \ {"absent"}, NEW keeping, Move(b, from, to, keeping)
  PROVE  CapturesInv'
<1>1. /\ object' = [o \in Bytes |-> IF o \in {b} \cup MadeOf(b, keeping) THEN to ELSE object[o]]
      /\ UNCHANGED <<captures, attempts, derivations, extractions, call>>
      /\ UNCHANGED <<fetches, stops, promised, answered>>
      /\ object[b] = from
  BY DEF Move, Keep
<1>2. RowsGrow /\ Keys' = Keys /\ Originals' = Originals  BY <1>1, SameRows
<1>3. Attempts' /\ LinksStay  BY <1>1, SameAttempts DEF CapturesInv
<1>4. Calls'  BY <1>1, <1>3, SameCalls DEF CapturesInv
<1>5. Promises'
  <2>1. derivations \subseteq derivations' /\ promised' \ promised = {}  BY <1>1
  <2>2. QED BY <1>3, <2>1, PromisesKept DEF CapturesInv
<1>6. Answers'  BY <1>1, <1>2, AnswersKept DEF CapturesInv
<1>7. OnlyMade'
  <2>1. SUFFICES ASSUME NEW d \in Bytes \ Originals, object'[d] # "absent"
                 PROVE  d \in Makeable
    BY <1>2 DEF OnlyMade
  <2>2. CASE d \in MadeOf(b, keeping)  BY <2>2, MadeOfSources DEF CapturesInv
  <2>3. CASE d \notin MadeOf(b, keeping)
    <3>1. object[d] # "absent"  BY <1>1, <2>1, <2>3
    <3>2. QED BY <3>1 DEF CapturesInv, Tables, OnlyMade
  <2>4. QED BY <2>2, <2>3
<1>8. object' \in [Bytes -> States]  BY <1>1 DEF CapturesInv, Tables
<1>9. Tables'  BY <1>1, <1>2, <1>7, <1>8 DEF CapturesInv, Tables, OneRowPerKey
<1>10. QED BY <1>1, <1>3, <1>4, <1>5, <1>6, <1>9 DEF CapturesInv, Counters

LEMMA SameSources ==
  ASSUME UNCHANGED <<captures, derivations, extractions>>
  PROVE  Originals' = Originals /\ \A d : SourcesOf(d)' = SourcesOf(d)
BY DEF Originals, SourcesOf, ReqOf

LEMMA QuarantineKeepsSources ==
  ASSUME CapturesInv, NEW b \in Bytes, Quarantine(b), DerivedHasSource
  PROVE  DerivedHasSource'
<1>1. PICK made : made = MadeOf(b, {"active"})  OBVIOUS
<1>2. /\ object' = [o \in Bytes |-> IF o \in {b} \cup made THEN "quarantined" ELSE object[o]]
      /\ UNCHANGED <<captures, derivations, extractions>>
  BY <1>1 DEF Quarantine, Move
<1>3. Originals' = Originals /\ \A d : SourcesOf(d)' = SourcesOf(d)  BY <1>2, SameSources
<1>4. SUFFICES ASSUME NEW d \in Bytes \ Originals, object'[d] = "active"
               PROVE  \E s \in SourcesOf(d) : object'[s] = "active"
  BY <1>3 DEF DerivedHasSource
<1>5. d # b /\ d \notin made /\ object[d] = "active"  BY <1>2, <1>4
<1>6. PICK s \in SourcesOf(d) : s # b /\ object[s] = "active"
  <2>1. CASE b \in SourcesOf(d)
    <3>1. d \in Bytes \ (Originals \cup {b})  BY <1>5
    <3>2. ~(\A s \in SourcesOf(d) \ {b} : object[s] \notin {"active"})
      BY <1>1, <1>5, <2>1, <3>1 DEF MadeOf
    <3>3. QED BY <3>2
  <2>2. CASE b \notin SourcesOf(d)  BY <1>5, <2>2 DEF DerivedHasSource
  <2>3. QED BY <2>1, <2>2
<1>7. s \in Bytes \cap Originals  BY SourcesAreOriginals DEF CapturesInv
<1>8. s \notin made  BY <1>1, <1>7, MadeOfSources DEF CapturesInv
<1>9. object'[s] = "active"  BY <1>2, <1>6, <1>7, <1>8
<1>10. QED BY <1>9

LEMMA UnquarantineKeepsSources ==
  ASSUME CapturesInv, NEW b \in Bytes \ Makeable, Unquarantine(b), DerivedHasSource
  PROVE  DerivedHasSource'
<1>1. PICK made : made = MadeOf(b, {})  OBVIOUS
<1>2. /\ object' = [o \in Bytes |-> IF o \in {b} \cup made THEN "active" ELSE object[o]]
      /\ UNCHANGED <<captures, derivations, extractions>> /\ object[b] = "quarantined"
  BY <1>1 DEF Unquarantine, Move
<1>3. Originals' = Originals /\ \A d : SourcesOf(d)' = SourcesOf(d)  BY <1>2, SameSources
<1>4. b \in Originals  BY <1>2 DEF CapturesInv, Tables, OnlyMade
<1>5. SUFFICES ASSUME NEW d \in Bytes \ Originals, object'[d] = "active"
               PROVE  \E s \in SourcesOf(d) : object'[s] = "active"
  BY <1>3 DEF DerivedHasSource
<1>6. CASE d \in made
  <2>1. b \in SourcesOf(d)  BY <1>1, <1>6 DEF MadeOf
  <2>2. QED BY <1>2, <2>1
<1>7. CASE d \notin made
  <2>1. object[d] = "active"  BY <1>2, <1>4, <1>5, <1>7
  <2>2. PICK s \in SourcesOf(d) : object[s] = "active"  BY <2>1 DEF DerivedHasSource
  <2>3. s \in Bytes  BY SourcesAreOriginals DEF CapturesInv
  <2>4. object'[s] = "active"  BY <1>2, <2>2, <2>3
  <2>5. QED BY <2>4
<1>8. QED BY <1>6, <1>7

LEMMA PurgeKeepsSources ==
  ASSUME CapturesInv, NEW b \in Bytes, Purge(b), DerivedHasSource
  PROVE  DerivedHasSource'
<1>1. PICK made : made = MadeOf(b, {"active", "quarantined"})  OBVIOUS
<1>2. /\ object' = [o \in Bytes |-> IF o \in {b} \cup made THEN "purged" ELSE object[o]]
      /\ UNCHANGED <<captures, derivations, extractions>> /\ object[b] = "quarantined"
  BY <1>1 DEF Purge, Move
<1>3. Originals' = Originals /\ \A d : SourcesOf(d)' = SourcesOf(d)  BY <1>2, SameSources
<1>4. SUFFICES ASSUME NEW d \in Bytes \ Originals, object'[d] = "active"
               PROVE  \E s \in SourcesOf(d) : object'[s] = "active"
  BY <1>3 DEF DerivedHasSource
<1>5. object[d] = "active"  BY <1>2, <1>4
<1>6. PICK s \in SourcesOf(d) : object[s] = "active"  BY <1>5 DEF DerivedHasSource
<1>7. s \in Bytes \cap Originals /\ s # b  BY <1>2, <1>6, SourcesAreOriginals DEF CapturesInv
<1>8. s \notin made  BY <1>1, <1>7, MadeOfSources DEF CapturesInv
<1>9. object'[s] = "active"  BY <1>2, <1>6, <1>7, <1>8
<1>10. QED BY <1>9

-----------------------------------------------------------------------------
(* The invariant.                                                           *)

(* Operators act on originals: an object that extraction or an import makes    *)
(* follows its sources.                                                     *)
OnlyOriginalsTargeted == Deletable \cap Makeable = {}

LEMMA InitCaptures == Init => CapturesInv /\ DerivedHasSource
<1> SUFFICES ASSUME Init PROVE CapturesInv /\ DerivedHasSource  OBVIOUS
<1>1. \A b \in Bytes : object[b] = "absent"  BY DEF Init
<1>2. OnlyMade /\ DerivedHasSource  BY <1>1 DEF OnlyMade, DerivedHasSource
<1>3. Tables  BY <1>2 DEF Init, Tables, OneRowPerKey, States
<1>4. Calls
  <2>1. \A p \in Callers : call[p].op = "idle"  BY IdleIsCall DEF Init
  <2>2. call \in [Callers -> CallType]  BY IdleIsCall DEF Init
  <2>3. QED BY <2>1, <2>2 DEF Calls, SignedIsKnown, LinksRead
<1>5. Attempts
  <2>1. attempts \in Seq(Attempt) /\ Len(attempts) = 0  BY DEF Init
  <2>2. 1..0 = {}  OBVIOUS
  <2>3. QED BY <2>1, <2>2 DEF Attempts, LinkedOnce
<1>6. Promises /\ Answers  BY DEF Init, Promises, Answers, ExtractionByCapture
<1>7. Counters  BY CapturesAssumption DEF Init, Counters
<1>8. QED BY <1>2, <1>3, <1>4, <1>5, <1>6, <1>7 DEF CapturesInv

LEMMA StutterCaptures ==
  ASSUME CapturesInv, UNCHANGED vars
  PROVE  CapturesInv' /\ (DerivedHasSource => DerivedHasSource')
<1>1. UNCHANGED <<object, captures, derivations, extractions, fetches, stops, answered>>
      /\ attempts' = attempts /\ call' = call /\ promised' \ promised = {}
  BY DEF vars, tables
<1>2. Attempts' /\ LinksStay  BY <1>1, SameAttempts DEF CapturesInv
<1>3. Calls'  BY <1>1, <1>2, SameCalls DEF CapturesInv
<1>4. QED BY <1>1, <1>2, <1>3, AttemptSteps

LEMMA NextCaptures ==
  ASSUME CapturesInv, [Next]_vars
  PROVE  /\ CapturesInv'
         /\ OnlyOriginalsTargeted /\ DerivedHasSource => DerivedHasSource'
<1>1. ASSUME NEW p \in Callers, Run(p) PROVE CapturesInv' /\ (DerivedHasSource => DerivedHasSource')
  BY <1>1, StoreRecoveredStep, RecordLinkStep, RecordFailureStep, AnswerStep, StoreBodyStep,
     AddDerivationStep DEF Run
<1>2. ASSUME NEW p \in Callers, NEW key \in Keys \cap Recovered, NEW basis \in Bases,
             BeginReassess(p, key, basis)
      PROVE  CapturesInv' /\ (DerivedHasSource => DerivedHasSource')
  BY <1>2, BeginReassessStep
<1>3. ASSUME NEW p \in Callers, NEW url, NEW of \in Keys \cup {NoCapture}, BeginAcquire(p, url, of)
      PROVE  CapturesInv' /\ (DerivedHasSource => DerivedHasSource')
  BY <1>3, BeginAcquireStep
<1>4. ASSUME NEW b \in Deletable, Quarantine(b) \/ Unquarantine(b) \/ Purge(b)
      PROVE  /\ CapturesInv'
             /\ OnlyOriginalsTargeted /\ DerivedHasSource => DerivedHasSource'
  <2>1. b \in Bytes  BY CapturesAssumption
  <2>2. OnlyOriginalsTargeted => b \notin Makeable  BY DEF OnlyOriginalsTargeted
  <2>3. CapturesInv'
    <3>1. {"active", "quarantined", "purged"} \subseteq States \ {"absent"}  BY DEF States
    <3>2. PICK from, to, keeping :
            from \in States \ {"absent"} /\ to \in States \ {"absent"} /\ Move(b, from, to, keeping)
      BY <1>4, <3>1 DEF Quarantine, Unquarantine, Purge
    <3>3. QED BY <2>1, <3>2, MoveStep
  <2>4. QED
    BY <1>4, <2>1, <2>2, <2>3, QuarantineKeepsSources, UnquarantineKeepsSources, PurgeKeepsSources
<1>5. CASE UNCHANGED vars  BY <1>5, StutterCaptures
<1>6. QED
  BY <1>1, <1>2, <1>3, <1>4, <1>5, CaptureSourceStep, RedirectStep, BeginImportStep, StopStep,
     ExtractTextStep DEF Next

-----------------------------------------------------------------------------
(* What the tables, calls and promises of Captures hold, after every step.     *)
THEOREM CapturesInvariantHolds == Spec => []CapturesInv
<1>1. Init => CapturesInv  BY InitCaptures
<1>2. CapturesInv /\ [Next]_vars => CapturesInv'  BY NextCaptures
<1>3. QED BY <1>1, <1>2, PTL DEF Spec

(* Objects, captures, derivations, extractions and calls keep their types.     *)
THEOREM CapturesTyped == Spec => []TypeOK
<1>1. CapturesInv => TypeOK
  <2>1. SUFFICES ASSUME CapturesInv PROVE TypeOK  OBVIOUS
  <2>2. object \in [Bytes -> {"absent", "active", "quarantined", "purged"}]
    BY <2>1 DEF CapturesInv, Tables, States
  <2>3. ASSUME NEW c \in captures, NEW d \in captures
        PROVE  c.req.bytes \in Bytes /\ (c.key = d.key => c = d)
    <3>1. c.key = d.key => c = d  BY <2>1 DEF CapturesInv, Tables, OneRowPerKey
    <3>2. c \in [key : Ids, req : Repeatable]  BY <2>1 DEF CapturesInv, Tables
    <3>3. QED BY <3>1, <3>2 DEF Repeatable, Sources
  <2>4. \A x \in derivations : x[1] \in Bytes /\ x[2] \in Keys
    BY <2>1 DEF CapturesInv, Tables
  <2>5. extractions \subseteq Bytes \X (Bytes \cup {NoText})
    <3>1. SUFFICES ASSUME NEW x \in extractions PROVE x \in Bytes \X (Bytes \cup {NoText})
      OBVIOUS
    <3>2. x[1] \in Bytes /\ x = <<x[1], TextOf[x[1]]>>  BY <2>1 DEF CapturesInv, Tables
    <3>3. QED BY <3>2, Assumptions
  <2>6. ASSUME NEW p \in Callers
        PROVE  call[p].op \in {"idle", "reassess", "get", "store", "link", "failed",
                               "body", "derivation"}
    <3>1. call[p] \in CallType  BY <2>1 DEF CapturesInv, Calls
    <3>2. QED BY <3>1 DEF CallType, Idle, Reassessing, Getting, Storing, Failing, Importing
  <2>7. fetches \in 0..MaxFetches /\ stops \in 0..MaxStops
    BY <2>1 DEF CapturesInv, Counters
  <2>8. QED BY <2>2, <2>3, <2>4, <2>5, <2>6, <2>7 DEF TypeOK
<1>2. QED BY <1>1, CapturesInvariantHolds, PTL

(* What a successful call promised is recorded: its capture is linked exactly  *)
(* once, however often the call ran before, was cut, or overlapped with       *)
(* another run of it; the derivation of an import is there (Reassess,         *)
(* Reacquire, ImportFetched).                                               *)
THEOREM SuccessesAreWhole == Spec => []SuccessIsWhole
<1>1. CapturesInv => SuccessIsWhole
  <2>1. SUFFICES ASSUME CapturesInv, NEW f \in promised
                 PROVE  IF f.what = "link" THEN Count(f.of, f.capture) = 1
                        ELSE <<f.of, f.capture>> \in derivations
    BY DEF SuccessIsWhole
  <2>2. CASE f.what = "link"
    <3>1. f.capture # NoCapture /\ Linked(f.of, f.capture)
      BY <2>1, <2>2 DEF CapturesInv, Promises
    <3>2. PICK n \in 1..Len(attempts) : attempts[n].of = f.of /\ attempts[n].capture = f.capture
      BY <3>1 DEF Linked
    <3>3. \A m \in 1..Len(attempts) :
            attempts[m].of = f.of /\ attempts[m].capture = f.capture => m = n
      BY <2>1, <3>1, <3>2 DEF CapturesInv, Attempts, LinkedOnce
    <3>4. {m \in 1..Len(attempts) : attempts[m].of = f.of /\ attempts[m].capture = f.capture} = {n}
      BY <3>2, <3>3
    <3>5. Cardinality({n}) = 1  BY FS_Singleton
    <3>6. QED BY <2>2, <3>4, <3>5 DEF Count
  <2>3. CASE f.what # "link"  BY <2>1, <2>3 DEF CapturesInv, Promises
  <2>4. QED BY <2>2, <2>3
<1>2. QED BY <1>1, CapturesInvariantHolds, PTL

(* An extraction answers by its own capture, whichever capture of the same     *)
(* bytes was extracted before (htmlInput, extract.go).                        *)
THEOREM ExtractionsByCapture == Spec => []ExtractionByCapture
<1>1. CapturesInv => ExtractionByCapture  BY DEF CapturesInv, Answers
<1>2. QED BY <1>1, CapturesInvariantHolds, PTL

(* What is downloaded can be downloaded again, whatever redirects led to it    *)
(* (CheckRedirect and the URL a capture keeps, acquire.go).                   *)
THEOREM DownloadsRepeatable == Spec => []AcquirableAgain
<1>1. CapturesInv => AcquirableAgain
  <2>1. SUFFICES ASSUME CapturesInv, NEW c \in captures, c.req.at > 0 PROVE Admitted(c.req.url)
    BY DEF AcquirableAgain
  <2>2. c \in [key : Ids, req : Repeatable]  BY <2>1 DEF CapturesInv, Tables
  <2>3. QED BY <2>1, <2>2 DEF Repeatable
<1>2. QED BY <1>1, CapturesInvariantHolds, PTL

(* As long as operators delete and restore originals, an object made of them   *)
(* is active only beside an active one of them: also when its source is       *)
(* deleted between the two commits of an import (addDerivation, ExtractText). *)
THEOREM DerivedHaveSources ==
  ASSUME OnlyOriginalsTargeted
  PROVE  Spec => []DerivedHasSource
<1>1. Init => CapturesInv /\ DerivedHasSource  BY InitCaptures
<1>2. CapturesInv /\ DerivedHasSource /\ [Next]_vars => (CapturesInv /\ DerivedHasSource)'
  BY NextCaptures
<1>3. QED BY <1>1, <1>2, PTL DEF Spec
=============================================================================
