------------------------------ MODULE Captures ------------------------------
(****************************************************************************)
(* What makes captures, and what is made of them: the store                 *)
(* (internal/archive/archive.go), reassessment and recorded attempts        *)
(* (recovery.go), downloads (acquire.go, sourcepolicy.go), fetched files    *)
(* (fetched.go) and extracted text (extract.go), while objects are deleted  *)
(* and restored beside them and processes are killed.                       *)
(*                                                                          *)
(* Three calls commit twice: the capture, then its link or derivation. The  *)
(* archive lock is free in between. A commit is one step here: it holds the *)
(* lock (shared, a deletion holds it exclusively) and one immediate         *)
(* transaction. Where the bytes lie is Deletion's subject; a deletion is    *)
(* one step here.                                                           *)
(****************************************************************************)
EXTENDS Naturals, Sequences, FiniteSets

CONSTANTS
  Callers,       \* running commands and tool calls
  Bytes,         \* object ids: what a file can hold
  Requests,      \* source captures somebody asks for
  Recovered,     \* captures operators reassess or download again
  Imports,       \* fetched files: [key, body, derived, at]
  Bases,         \* what operators state as the basis of a reassessment
  Remote,        \* bytes the servers answer with
  TextOf,        \* what extraction makes of HTML bytes: an object, or NoText
  Deletable,     \* objects operators delete
  NoText, NoCapture, NoBasis, NoKey,
  MaxRedirects,  \* acquireMaxRedirects
  MaxFetches,    \* bound of the model: downloads
  MaxStops       \* bound of the model: calls killed or failed between commits

(* Requests of the store; the columns a capture keeps of one.                *)
Sources ==
  [bytes : Bytes, media : {"html", "text"},
   url : {"plain", "policy", "signed", "redacted", "query", "none"},
   completeness : {"verified", "unknown", "incomplete", "not_applicable"},
   basis : Bases \cup {NoBasis}, at : Nat]

ASSUME CapturesAssumption ==
  /\ TextOf \in [Bytes -> Bytes \cup {NoText}] /\ NoText \notin Bytes
  /\ Requests \subseteq Sources /\ NoCapture \notin Sources
  /\ \A req \in Requests : req.at = 0   \* only a download states its time
  /\ \A i \in Imports : {i.body, i.derived} \subseteq Bytes /\ i.at \in Nat
  /\ Remote \subseteq Bytes /\ Deletable \subseteq Bytes
  /\ MaxRedirects \in Nat /\ MaxFetches \in Nat /\ MaxStops \in Nat

VARIABLES
  object,       \* table objects: the state of each, "absent" without a row
  captures,     \* table captures: [key, req]; the key is the identity
  attempts,     \* table attempts, in order: [of, result, capture]
  derivations,  \* table derivations: <<derived object, key of the capture>>
  extractions,  \* table extractions: <<source object, output or NoText>>
  call,         \* what each caller is doing
  fetches,      \* downloads so far; the number of one is its fetch time
  stops,        \* calls cut so far
  promised,     \* what successful calls said is recorded (auxiliary)
  answered      \* what each extraction answered (auxiliary)

tables == <<object, captures, attempts, derivations, extractions>>
vars == <<tables, call, fetches, stops, promised, answered>>

-----------------------------------------------------------------------------
Idle == [op |-> "idle"]

(* record: a source request, whose digest is its identity when no key is given.*)
(* Summaries and reports are requests of the same store.                    *)
Source(bytes, media, url, completeness, basis, at) ==
  [bytes |-> bytes, media |-> media, url |-> url,
   completeness |-> completeness, basis |-> basis, at |-> at]

KeyFor(key, req) == IF key = NoKey THEN req ELSE key

Keys == {c.key : c \in captures}
ReqOf(key) == (CHOOSE c \in captures : c.key = key).req

(* status, activeCapture, activeSource: a capture of a deleted object is not  *)
(* found.                                                                   *)
Found(key) == key \in Keys /\ object[ReqOf(key).bytes] = "active"

(* objectUsable: new bytes, or those of an active object.                    *)
Usable(b) == object[b] \in {"absent", "active"}

Linked(of, key) ==
  \E n \in 1..Len(attempts) : attempts[n].of = of /\ attempts[n].capture = key

WithRow(b) == [object EXCEPT ![b] = IF @ = "absent" THEN "active" ELSE @]

MayStore_NewKey(key, req) == Usable(req.bytes) /\ KeyFor(key, req) \notin Keys

(* store: the object is not deleted, and the key is new or was used for the   *)
(* same request.                                                            *)
MayStore(key, req) ==
  LET k == KeyFor(key, req) IN
  Usable(req.bytes) /\ (k \in Keys => ReqOf(k) = req)

Stored(key, req) ==
  /\ object' = WithRow(req.bytes)
  /\ captures' = captures \cup {[key |-> KeyFor(key, req), req |-> req]}

-----------------------------------------------------------------------------
Init ==
  /\ object = [b \in Bytes |-> "absent"]
  /\ captures = {} /\ attempts = <<>> /\ derivations = {} /\ extractions = {}
  /\ call = [p \in Callers |-> Idle]
  /\ fetches = 0 /\ stops = 0
  /\ promised = {} /\ answered = {}

Keep == UNCHANGED <<fetches, stops, promised, answered>>

Continue(p, state) == call' = [call EXCEPT ![p] = state]
Done(p) == Continue(p, Idle)

(* CaptureSource: one commit.                                                *)
CaptureSource(req) ==
  /\ MayStore(NoKey, req)
  /\ Stored(NoKey, req)
  /\ UNCHANGED <<attempts, derivations, extractions, call>> /\ Keep

(* Reassess: the held capture with its attempts, read at one point in time,   *)
(* and its file opened. Only an acquired, unjudged source qualifies.        *)
BeginReassess(p, key, basis) ==
  /\ call[p] = Idle
  /\ Found(key) /\ ReqOf(key).completeness = "unknown"
  /\ Continue(p, [op |-> "reassess", of |-> key, links |-> {k \in Keys : Linked(key, k)},
                  req |-> [ReqOf(key) EXCEPT !.completeness = "verified",
                                             !.basis = basis, !.at = 0]])
  /\ UNCHANGED tables /\ Keep

HeldLink_WhenExisting(p) ==
  LET c == call[p] IN c.op = "reassess" /\ c.req \in Keys

(* The attempts Reassess read earlier already link the capture: it returns    *)
(* without a second commit.                                                 *)
HeldLink(p) == LET c == call[p] IN c.op = "reassess" /\ c.req \in c.links

Promise(fact) == promised' = promised \cup {fact}
Link(of, key) == [what |-> "link", of |-> of, capture |-> key]
Derivation(d, key) == [what |-> "derivation", of |-> d, capture |-> key]

(* The first commit of Reassess and Reacquire, and the only one of Acquire.   *)
(* A deleted object ends the call; Reacquire records that as an attempt.    *)
StoreRecovered(p) ==
  LET c == call[p] IN
  /\ c.op \in {"reassess", "store"}
  /\ IF MayStore(NoKey, c.req)
     THEN /\ Stored(NoKey, c.req)
          /\ IF HeldLink(p) \/ c.of = NoCapture
             THEN /\ Done(p)
                  /\ IF c.of = NoCapture THEN UNCHANGED promised
                     ELSE Promise(Link(c.of, c.req))
             ELSE /\ Continue(p, [op |-> "link", of |-> c.of, req |-> c.req])
                  /\ UNCHANGED promised
     ELSE /\ IF c.op = "store" /\ c.of # NoCapture
             THEN Continue(p, [op |-> "failed", of |-> c.of, result |-> "failed"])
             ELSE Done(p)
          /\ UNCHANGED <<object, captures, promised>>
  /\ UNCHANGED <<attempts, derivations, extractions, fetches, stops, answered>>

(* RecordAttempt with a result: the second commit. Both captures must still   *)
(* be there. attempts_link_once refuses a second link of the pair, which    *)
(* Reassess takes for success: another run of it was first.                 *)
RecordLink(p) ==
  LET c == call[p] IN
  /\ c.op = "link"
  /\ IF Found(c.of) /\ Found(c.req)
     THEN /\ attempts' = IF Linked(c.of, c.req) THEN attempts
                         ELSE Append(attempts, [of |-> c.of, result |-> "acquired",
                                                capture |-> c.req])
          /\ Promise(Link(c.of, c.req))
     ELSE UNCHANGED <<attempts, promised>>
  /\ Done(p)
  /\ UNCHANGED <<object, captures, derivations, extractions, fetches, stops, answered>>

(* RecordAttempt of a download that failed.                                  *)
RecordFailure(p) ==
  LET c == call[p] IN
  /\ c.op = "failed"
  /\ attempts' = IF Found(c.of)
                 THEN Append(attempts, [of |-> c.of, result |-> c.result, capture |-> NoCapture])
                 ELSE attempts
  /\ Done(p)
  /\ UNCHANGED <<object, captures, derivations, extractions>> /\ Keep

-----------------------------------------------------------------------------
(* Downloads. A URL is "plain", has a query a source policy names ("policy"),  *)
(* is the signed redirect of that policy ("signed"; "redacted" once its     *)
(* token is removed), has any other query ("query"), or is "none".          *)

(* admitFirstURL.                                                            *)
Admitted(url) == url \in {"plain", "policy"}

(* Acquire of a new URL, and Reacquire of that of an existing capture.        *)
BeginAcquire(p, url, of) ==
  /\ call[p] = Idle /\ fetches < MaxFetches
  /\ IF of = NoCapture THEN Admitted(url)
     ELSE Found(of) /\ url = ReqOf(of).url /\ url # "none"
  /\ fetches' = fetches + 1
  /\ IF Admitted(url)
     THEN Continue(p, [op |-> "get", of |-> of, url |-> url, at |-> fetches',
                       hops |-> 0, signed |-> FALSE, last |-> url])
     ELSE Continue(p, [op |-> "failed", of |-> of, result |-> "failed"])
  /\ UNCHANGED tables /\ UNCHANGED <<stops, promised, answered>>

GiveUp(p, result) ==
  IF call[p].of = NoCapture THEN Done(p)
  ELSE Continue(p, [op |-> "failed", of |-> call[p].of, result |-> result])

(* CheckRedirect: the signed redirect is followed only as the first one, of a *)
(* URL its policy matched; any other must have no query.                    *)
Redirect(p, to) ==
  LET c == call[p] IN
  /\ c.op = "get"
  /\ IF /\ c.hops < MaxRedirects
        /\ to = "plain" \/ (to = "signed" /\ c.hops = 0 /\ c.url = "policy")
     THEN Continue(p, [c EXCEPT !.hops = @ + 1, !.signed = @ \/ to = "signed", !.last = to])
     ELSE GiveUp(p, "failed")
  /\ UNCHANGED tables /\ Keep

(* The URL a capture keeps: the one that was reached, but the one asked for   *)
(* when a signed redirect was on the way.                                   *)
CaptureURL(c) == IF c.signed THEN c.url ELSE c.last

(* The server's answer: a whole body, a refusal of access, or anything else   *)
(* (another status, a body cut short or too large, no connection).          *)
Answer(p) ==
  LET c == call[p] IN
  /\ c.op = "get"
  /\ \/ \E b \in Remote, media \in {"html", "text"} :
          Continue(p, [op |-> "store", of |-> c.of,
                       req |-> Source(b, media, CaptureURL(c), "unknown", NoBasis, c.at)])
     \/ GiveUp(p, "human_action_required")
     \/ GiveUp(p, "failed")
  /\ UNCHANGED tables /\ Keep

-----------------------------------------------------------------------------
(* ImportFetched checks that neither input is deleted before it stores.      *)
BeginImport(p, i) ==
  /\ call[p] = Idle
  /\ Usable(i.derived)
  /\ Continue(p, [op |-> "body", import |-> i,
                  req |-> Source(i.body, "text", "plain", "unknown", NoBasis, i.at)])
  /\ UNCHANGED tables /\ Keep

(* Its first commit.                                                         *)
StoreBody(p) ==
  LET c == call[p] IN
  /\ c.op = "body"
  /\ IF MayStore(c.import.key, c.req)
     THEN /\ Stored(c.import.key, c.req)
          /\ Continue(p, [c EXCEPT !.op = "derivation"])
     ELSE Done(p) /\ UNCHANGED <<object, captures>>
  /\ UNCHANGED <<attempts, derivations, extractions>> /\ Keep

StillDerivable_Stored(key, d) == Usable(d)

(* addDerivation: the lock was free since the body was stored, so a deletion  *)
(* may have run.                                                            *)
StillDerivable(key, d) == Found(key) /\ Usable(d)

AddDerivation(p) ==
  LET c == call[p]
      d == c.import.derived
      k == KeyFor(c.import.key, c.req)
  IN
  /\ c.op = "derivation"
  /\ IF StillDerivable(k, d)
     THEN /\ object' = WithRow(d)
          /\ derivations' = derivations \cup {<<d, k>>}
          /\ Promise(Derivation(d, k))
     ELSE UNCHANGED <<object, derivations, promised>>
  /\ Done(p)
  /\ UNCHANGED <<captures, attempts, extractions, fetches, stops, answered>>

(* What a capture's extractions show: a row whose output is deleted is left   *)
(* out.                                                                     *)
Recorded(b) ==
  {x \in extractions : x[1] = b /\ (x[2] = NoText \/ object[x[2]] = "active")}

Extractable_UnlessRecorded(key) ==
  ReqOf(key).media = "html" \/ Recorded(ReqOf(key).bytes) # {}

(* htmlInput: the capture's own media type decides, whatever was recorded for *)
(* another capture of the same bytes.                                       *)
Extractable(key) == ReqOf(key).media = "html"

(* ExtractText holds the lock exclusively from the status to the commit.     *)
ExtractText(key) ==
  LET b == ReqOf(key).bytes
      t == TextOf[b]
      Answers(a) == answered' = answered \cup {<<key, a>>}
  IN
  /\ Found(key)
  /\ IF ~Extractable(key)
     THEN Answers("refused") /\ UNCHANGED <<object, extractions>>
     ELSE IF Recorded(b) # {}
     THEN /\ Answers(IF <<b, NoText>> \in extractions THEN "failed" ELSE "text")
          /\ UNCHANGED <<object, extractions>>
     ELSE IF t = NoText
     THEN /\ Answers("failed")
          /\ extractions' = extractions \cup {<<b, NoText>>}
          /\ UNCHANGED object
     ELSE IF Usable(t)
     THEN /\ Answers("text")
          /\ object' = WithRow(t)
          /\ extractions' = extractions \cup {<<b, t>>}
     ELSE Answers("deleted") /\ UNCHANGED <<object, extractions>>
  /\ UNCHANGED <<captures, attempts, derivations, call, fetches, stops, promised>>

-----------------------------------------------------------------------------
(* Deletion of an object takes along what was made of it, unless another      *)
(* source still needs that (derivedObjects).                                *)
Originals == {c.req.bytes : c \in captures}

SourcesOf(d) == {ReqOf(x[2]).bytes : x \in {y \in derivations : y[1] = d}}
                \cup {x[1] : x \in {y \in extractions : y[2] = d}}

MadeOf(b, keeping) ==
  {d \in Bytes \ (Originals \cup {b}) :
     b \in SourcesOf(d) /\ \A s \in SourcesOf(d) \ {b} : object[s] \notin keeping}

Move(b, from, to, keeping) ==
  /\ object[b] = from
  /\ object' = [o \in Bytes |-> IF o \in {b} \cup MadeOf(b, keeping) THEN to ELSE object[o]]
  /\ UNCHANGED <<captures, attempts, derivations, extractions, call>> /\ Keep

Quarantine(b)   == Move(b, "active", "quarantined", {"active"})
Unquarantine(b) == Move(b, "quarantined", "active", {})
Purge(b)        == Move(b, "quarantined", "purged", {"active", "quarantined"})

(* The process is killed, the context ends, or the database fails: what was   *)
(* committed stays.                                                         *)
Stop(p) ==
  /\ call[p] # Idle /\ stops < MaxStops
  /\ stops' = stops + 1
  /\ Done(p)
  /\ UNCHANGED tables /\ UNCHANGED <<fetches, promised, answered>>

Run(p) ==
  \/ StoreRecovered(p) \/ RecordLink(p) \/ RecordFailure(p) \/ Answer(p)
  \/ StoreBody(p) \/ AddDerivation(p)

Next ==
  \/ \E req \in Requests : CaptureSource(req)
  \/ \E p \in Callers :
       \/ \E key \in Keys \cap Recovered, basis \in Bases : BeginReassess(p, key, basis)
       \/ \E key \in Keys \cap Recovered : BeginAcquire(p, ReqOf(key).url, key)
       \/ \E url \in {"plain", "policy"} : BeginAcquire(p, url, NoCapture)
       \/ \E to \in {"plain", "signed", "query"} : Redirect(p, to)
       \/ \E i \in Imports : BeginImport(p, i)
       \/ Run(p) \/ Stop(p)
  \/ \E key \in Keys : ExtractText(key)
  \/ \E b \in Deletable : Quarantine(b) \/ Unquarantine(b) \/ Purge(b)

Spec == Init /\ [][Next]_vars

(* A call goes on, and an operator whose import or reassessment was cut runs   *)
(* the same one again, as its error message asks.                           *)
Again(i) == \E p \in Callers : BeginImport(p, i)
ReassessAgain(req, basis) == \E p \in Callers : BeginReassess(p, req, basis)

FairSpec ==
  /\ Spec
  /\ \A p \in Callers : WF_vars(Run(p))
  /\ \A i \in Imports : SF_vars(Again(i))
  /\ \A req \in Requests, basis \in Bases : SF_vars(ReassessAgain(req, basis))

-----------------------------------------------------------------------------
(* Properties.                                                              *)

TypeOK ==
  /\ object \in [Bytes -> {"absent", "active", "quarantined", "purged"}]
  /\ \A c, d \in captures : c.req.bytes \in Bytes /\ (c.key = d.key => c = d)
  /\ \A x \in derivations : x[1] \in Bytes /\ x[2] \in Keys
  /\ extractions \subseteq Bytes \X (Bytes \cup {NoText})
  /\ \A p \in Callers : call[p].op \in {"idle", "reassess", "get", "store", "link", "failed",
                                        "body", "derivation"}
  /\ fetches \in 0..MaxFetches /\ stops \in 0..MaxStops

Count(of, key) ==
  Cardinality({n \in 1..Len(attempts) : attempts[n].of = of /\ attempts[n].capture = key})

(* A call that returned success has made both its commits: the recovered       *)
(* capture is linked exactly once, the derived file is recorded. It holds    *)
(* when an earlier run of the same call was cut after its first commit, and  *)
(* when two runs of it overlap.                                             *)
SuccessIsWhole ==
  \A f \in promised :
    IF f.what = "link" THEN Count(f.of, f.capture) = 1
    ELSE <<f.of, f.capture>> \in derivations

(* What is made of deleted bytes is not left behind: an active object that is  *)
(* no capture's original has an active source, also when the source was     *)
(* deleted between the two commits that recorded it.                        *)
DerivedHasSource ==
  \A d \in Bytes \ Originals :
    object[d] = "active" => \E s \in SourcesOf(d) : object[s] = "active"

(* What an extraction answers depends on the capture, never on which capture   *)
(* of the same bytes was extracted first (extract.go:237-239): it refuses    *)
(* what is not HTML by its own record, and gives the one outcome of its     *)
(* bytes or none.                                                           *)
ExtractionByCapture ==
  \A a \in answered :
    a[2] \in (IF ReqOf(a[1]).media # "html" THEN {"refused"}
              ELSE IF TextOf[ReqOf(a[1]).bytes] = NoText THEN {"failed"}
              ELSE {"text", "deleted"})

(* A downloaded capture can be downloaded again: the URL it keeps is one that  *)
(* a first request may have, whatever redirects led to it and however often  *)
(* it was reassessed or acquired since.                                     *)
AcquirableAgain ==
  \A c \in captures : c.req.at > 0 => Admitted(c.req.url)

(* A reassessment and an import that were cut are completed by their repetition*)
(* unless what they are about is deleted.                                   *)
RepetitionCompletes ==
  /\ \A i \in Imports :
       LET req == Source(i.body, "text", "plain", "unknown", NoBasis, i.at)
           k == KeyFor(i.key, req)
       IN [key |-> k, req |-> req] \in captures
            ~> (<<i.derived, k>> \in derivations
                \/ object[i.body] # "active" \/ object[i.derived] \notin {"absent", "active"})
  /\ \A req \in Requests, basis \in Bases :
       LET new == [req EXCEPT !.completeness = "verified", !.basis = basis, !.at = 0]
       IN (new \in Keys /\ req \in Keys /\ req.completeness = "unknown")
            ~> (Linked(req, new) \/ object[req.bytes] # "active")
=============================================================================
