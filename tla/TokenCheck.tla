----------------------------- MODULE TokenCheck -----------------------------
(****************************************************************************)
(* How `serve` in oauth mode admits a request (internal/httpauth): the      *)
(* middleware, the validator, and the cache of the issuer's signing keys    *)
(* they share (JWKSCache). Requests that miss the cache collapse onto one   *)
(* fetch; keys rotate and the issuer fails meanwhile.                       *)
(*                                                                          *)
(* Times are ages in ticks, kept up to the largest bound a test compares    *)
(* them with. A set of keys is the set of its key ids.                      *)
(****************************************************************************)
EXTENDS Integers, FiniteSets, Sequences

CONSTANTS
  Requests,      \* requests the server may handle at once
  Kids,          \* key ids the issuer signs with at some time
  Unknown,       \* a key id the issuer never has
  TTL,           \* auth.oauth.jwks_ttl_seconds, in ticks
  Floor,         \* minForcedRefetchInterval
  FetchMax,      \* the client's timeouts bound a fetch
  Lives,         \* ticks a token may have left when it is sent
  Leeway,        \* clock skew the parser forgives
  MaxRotations, MaxOutages  \* bounds of the model

ASSUME TokenAssumption ==
  /\ Unknown \notin Kids /\ IsFiniteSet(Kids) /\ "none" \notin Requests
  /\ {TTL, Floor, FetchMax} \subseteq Nat \ {0}
  /\ Lives \subseteq Nat /\ Leeway \in Nat
  /\ MaxRotations \in Nat /\ MaxOutages \in Nat

VARIABLES
  issuer,    \* the issuer: [keys, up, upFor, since]; since: kid -> age of its last coming or going
  cache,     \* JWKSCache: [keys, fetched, forced, attempted, failed]; times are ages
  fetch,     \* the fetch in flight: [by, forced, got, keys, age]
  requests,  \* each request: [pc, kid, life]
  starts,    \* ages of the fetches started within the last Spacing ticks, the oldest first
  changes    \* what the model has used up: [rotations, outages]

tokenVars == <<issuer, cache, fetch, requests, starts, changes>>

-----------------------------------------------------------------------------
Max2(a, b) == IF a > b THEN a ELSE b
Oldest == Max2(TTL, Floor) + FetchMax + 1

(* The floor, unless the configured TTL is shorter than it.                  *)
Spacing == IF Floor <= TTL THEN Floor ELSE TTL

NoFetch == [by |-> "none", forced |-> FALSE, got |-> "nothing", keys |-> {}, age |-> 0]

Older(age, bound) == IF age < bound THEN age + 1 ELSE bound
SymDiff(A, B) == (A \ B) \cup (B \ A)

Ended == {"out", "admitted", "refused", "notfound"}
Busy(r) == requests[r].pc \notin Ended
Over(pc) == [pc |-> pc, kid |-> Unknown, life |-> 0]

TokenInit ==
  /\ \E keys \in SUBSET Kids :
       issuer = [keys |-> keys, up |-> TRUE, upFor |-> Oldest, since |-> [k \in Kids |-> Oldest]]
  /\ cache = [keys |-> {}, fetched |-> TTL, forced |-> Floor, attempted |-> Floor, failed |-> FALSE]
  /\ fetch = NoFetch
  /\ requests = [r \in Requests |-> Over("out")]
  /\ starts = <<>>
  /\ changes = [rotations |-> 0, outages |-> 0]

-----------------------------------------------------------------------------
(* The middleware around the key.                                           *)

(* The parser forgives Leeway ticks after the expiry; the middleware refuses  *)
(* a deadline that has passed.                                              *)
Admissible(life) == life > 0

(* What becomes of a request once its key is known: the claims are checked    *)
(* after the key came.                                                      *)
WithKey(request) ==
  Over(IF Admissible(request.life) THEN "admitted" ELSE "refused")

(* KeyFor's answer, when the cache lock is held.                            *)
Answered(request, found, failed) ==
  IF failed THEN Over("refused") ELSE IF found THEN WithKey(request) ELSE Over("notfound")

-----------------------------------------------------------------------------
(* KeyFor.                                                                  *)

Fresh == cache.fetched < TTL

ErrorFloorActive_Dropped == FALSE

ErrorFloorActive == cache.failed /\ cache.attempted < Floor

ForcedFloorActive == Fresh /\ cache.forced < Floor

Send(r) ==
  /\ ~Busy(r)
  /\ \E kid \in Kids \cup {Unknown}, life \in Lives :
       requests' = [requests EXCEPT ![r] = [pc |-> "asking", kid |-> kid, life |-> life]]
  /\ UNCHANGED <<issuer, cache, fetch, starts, changes>>

Hit(r) ==
  /\ requests[r].pc = "asking"
  /\ Fresh /\ requests[r].kid \in cache.keys
  /\ requests' = [requests EXCEPT ![r] = WithKey(@)]
  /\ UNCHANGED <<issuer, cache, fetch, starts, changes>>

Missed(r) == requests[r].pc = "asking" /\ ~(Fresh /\ requests[r].kid \in cache.keys)

(* Another request fetches: wait for its channel.                           *)
Join(r) ==
  /\ Missed(r) /\ fetch # NoFetch
  /\ requests' = [requests EXCEPT ![r].pc = "waiting"]
  /\ UNCHANGED <<issuer, cache, fetch, starts, changes>>

HeldBack_PushesFloor(r) ==
  /\ Missed(r) /\ fetch = NoFetch
  /\ ForcedFloorActive \/ ErrorFloorActive
  /\ requests' = [requests EXCEPT ![r] = Answered(@, FALSE, cache.failed)]
  /\ cache' = [cache EXCEPT !.forced = 0]
  /\ UNCHANGED <<issuer, fetch, starts, changes>>

HeldBack(r) ==
  /\ Missed(r) /\ fetch = NoFetch
  /\ ForcedFloorActive \/ ErrorFloorActive
  /\ requests' = [requests EXCEPT ![r] = Answered(@, FALSE, cache.failed)]
  /\ UNCHANGED <<issuer, cache, fetch, starts, changes>>

BeginFetch(r) ==
  /\ Missed(r) /\ fetch = NoFetch
  /\ ~ForcedFloorActive /\ ~ErrorFloorActive
  /\ fetch' = [NoFetch EXCEPT !.by = r, !.forced = Fresh]
  /\ requests' = [requests EXCEPT ![r].pc = "fetching"]
  /\ starts' = Append(starts, 0)
  /\ UNCHANGED <<issuer, cache, changes>>

(* fetchKeys: the document the issuer serves at one moment, or an error.     *)
Respond ==
  /\ fetch # NoFetch /\ fetch.got = "nothing"
  /\ fetch' = IF issuer.up THEN [fetch EXCEPT !.got = "keys", !.keys = issuer.keys]
              ELSE [fetch EXCEPT !.got = "error"]
  /\ UNCHANGED <<issuer, cache, requests, starts, changes>>

Committed_FetchedAnyway(f) ==
  [keys |-> IF f.got = "keys" THEN f.keys ELSE cache.keys,
   fetched |-> 0,
   forced |-> IF f.forced THEN 0 ELSE cache.forced,
   attempted |-> 0,
   failed |-> f.got = "error"]

(* The cache once the result of fetch f is stored.                          *)
Committed(f) ==
  [keys |-> IF f.got = "keys" THEN f.keys ELSE cache.keys,
   fetched |-> IF f.got = "keys" THEN 0 ELSE cache.fetched,
   forced |-> IF f.forced THEN 0 ELSE cache.forced,
   attempted |-> 0,
   failed |-> f.got = "error"]

AfterFetch_LeftOnError == IF fetch.got = "error" THEN fetch ELSE NoFetch

(* The deferred function clears the fetch and closes the channel on each path. *)
AfterFetch == NoFetch

CommitFetch ==
  /\ fetch # NoFetch /\ fetch.got # "nothing"
  /\ requests[fetch.by].pc = "fetching"
  /\ cache' = Committed(fetch)
  /\ requests' = [r \in Requests |->
       IF r = fetch.by
       THEN Answered(requests[r], requests[r].kid \in cache'.keys, cache'.failed)
       ELSE IF requests[r].pc = "waiting" /\ AfterFetch = NoFetch
            THEN [requests[r] EXCEPT !.pc = "woken"] ELSE requests[r]]
  /\ fetch' = AfterFetch
  /\ UNCHANGED <<issuer, starts, changes>>

(* A woken request looks at what the cache has by then.                     *)
Wake(r) ==
  /\ requests[r].pc = "woken"
  /\ requests' = [requests EXCEPT ![r] = Answered(@, @.kid \in cache.keys, cache.failed)]
  /\ UNCHANGED <<issuer, cache, fetch, starts, changes>>

(* The client of a waiting request goes away. A fetch does not depend on who  *)
(* began it.                                                                *)
Cancel(r) ==
  /\ requests[r].pc = "waiting"
  /\ requests' = [requests EXCEPT ![r] = Over("out")]
  /\ UNCHANGED <<issuer, cache, fetch, starts, changes>>

-----------------------------------------------------------------------------
(* The issuer and the clock.                                                *)

Rotate ==
  /\ changes.rotations < MaxRotations
  /\ \E keys \in SUBSET Kids \ {issuer.keys} :
       issuer' = [issuer EXCEPT !.keys = keys,
                    !.since = [k \in Kids |-> IF k \in SymDiff(keys, issuer.keys) THEN 0 ELSE @[k]]]
  /\ changes' = [changes EXCEPT !.rotations = @ + 1]
  /\ UNCHANGED <<cache, fetch, requests, starts>>

Outage ==
  /\ \/ issuer.up /\ changes.outages < MaxOutages
     \/ ~issuer.up
  /\ issuer' = [issuer EXCEPT !.up = ~@, !.upFor = 0]
  /\ changes' = [changes EXCEPT !.outages = IF issuer.up THEN @ + 1 ELSE @]
  /\ UNCHANGED <<cache, fetch, requests, starts>>

(* Only a fetch takes time, at most FetchMax.                               *)
Tick ==
  /\ \A r \in Requests : requests[r].pc \notin {"asking", "woken"}
  /\ fetch # NoFetch => fetch.age < FetchMax
  /\ issuer' = [issuer EXCEPT !.upFor = IF issuer.up THEN Older(@, Oldest) ELSE 0,
                              !.since = [k \in Kids |-> Older(@[k], Oldest)]]
  /\ cache' = [cache EXCEPT !.fetched = Older(@, TTL), !.forced = Older(@, Floor),
                             !.attempted = Older(@, Floor)]
  /\ fetch' = [fetch EXCEPT !.age = IF fetch = NoFetch THEN @ ELSE @ + 1]
  /\ requests' = [r \in Requests |->
       IF Busy(r) /\ requests[r].life > -Leeway
       THEN [requests[r] EXCEPT !.life = @ - 1] ELSE requests[r]]
  /\ starts' = LET recent == {i \in DOMAIN starts : starts[i] + 1 < Spacing}
                   gone == Len(starts) - Cardinality(recent)
               IN  [i \in 1..Cardinality(recent) |-> starts[gone + i] + 1]
  /\ UNCHANGED changes

Step(r) == Hit(r) \/ Join(r) \/ HeldBack(r) \/ BeginFetch(r) \/ Wake(r)

TokenNext ==
  \/ \E r \in Requests : Send(r)
  \/ \E r \in Requests : Step(r)
  \/ \E r \in Requests : Cancel(r)
  \/ Respond \/ CommitFetch
  \/ Rotate \/ Outage
  \/ Tick

(* Requests run, and the client's timeout ends each fetch.                  *)
TokenSpec ==
  /\ TokenInit /\ [][TokenNext]_tokenVars
  /\ \A r \in Requests : WF_tokenVars(Step(r))
  /\ WF_tokenVars(Respond) /\ WF_tokenVars(CommitFetch)

-----------------------------------------------------------------------------
(* Properties.                                                              *)

TokenTypeOK ==
  /\ issuer.keys \subseteq Kids /\ cache.keys \subseteq Kids
  /\ fetch.by \in Requests \cup {"none"}
  /\ \A r \in Requests : requests[r].pc \in Ended \cup {"asking", "waiting", "woken", "fetching"}

Ends(r, pc) == requests[r].pc # pc /\ requests'[r].pc = pc

(* A request is admitted with a key the issuer had within the TTL and the     *)
(* time of one fetch, and with a token that has not expired: neither a       *)
(* failing issuer nor a long wait for the key keeps an old one alive         *)
(* (KeyFor, Middleware).                                                    *)
AdmittedIsCurrent ==
  [][\A r \in Requests : Ends(r, "admitted") =>
       LET kid == requests[r].kid IN
       /\ kid \in Kids
       /\ kid \in issuer.keys \/ issuer.since[kid] <= TTL + FetchMax
       /\ requests[r].life > 0]_tokenVars

(* A new key is found within the floor and a fetch of its appearing, as long  *)
(* as the issuer answers: no stream of unknown key ids holds it off.        *)
RotationIsSeen ==
  [][\A r \in Requests : Ends(r, "notfound") =>
       LET kid == requests[r].kid IN
       ~(/\ kid \in issuer.keys /\ issuer.since[kid] > Floor + FetchMax
         /\ issuer.up /\ issuer.upFor > Floor + FetchMax)]_tokenVars

(* However many requests with unknown key ids come, and also while the issuer *)
(* fails, at most two fetches start within the floor: a forced one and one   *)
(* because the keys went stale. Where the configuration has a TTL below the  *)
(* floor, keys go stale more often, and the bound is for one TTL.            *)
FetchesAreSpaced == Len(starts) <= 2

(* No request waits for ever for another one's fetch.                       *)
EveryRequestEnds == \A r \in Requests : Busy(r) ~> ~Busy(r)
==============================================================================
