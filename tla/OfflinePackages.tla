-------------------------- MODULE OfflinePackages --------------------------
(***************************************************************************)
(* The offline copy of one trip: packages the server builds                *)
(* (packages/db/src/offline-package-repository.ts, packages/offline/src),  *)
(* tabs that download, refresh and remove the copy in IndexedDB, the       *)
(* service worker that caches the pages, and signing out.                  *)
(***************************************************************************)
EXTENDS Integers, Sequences

CONSTANTS
  Tabs,        \* tabs of one browser, all signed in to the owner's account
  MaxChanges   \* bound: changes of the trip and of its guidance

ASSUME OfflineAssumption == MaxChanges \in Nat

VARIABLES
  trip,      \* trips.revision, 0 once the trip is deleted
  guidance,  \* version of the places and the licensed guidance
  packages,  \* offline_packages of the owner and the trip, by version
  request,   \* [tab -> its POST /trips/:id/offline-package]
  tab,       \* [tab -> what its page of the trip does: "closed", "idle", ...]
  device,    \* the package in IndexedDB under owner:trip, 0 when there is none
  worker,    \* messages the service worker has not answered
  routes,    \* the pages are in roavia-runtime-v2
  session,   \* "in", "cleared", "leaving", "out": how far a sign-out came
  crossed    \* a download was on its way while the sign-out cleared the device

server == <<trip, guidance, packages>>
offlineVars == <<server, request, tab, device, worker, routes, session, crossed>>

Attempts == 3
Working == {"asking", "saving", "caching"}
NoRequest == [stage |-> "none", attempt |-> 0, revision |-> 0, guidance |-> 0, answer |-> 0]
Replied(n) == [NoRequest EXCEPT !.stage = "answered", !.answer = n]

\* buildOfflinePackage: the content, and so its hash, is the trip and the
\* guidance; the version of the package is no part of it.
Manifest(r) == [revision |-> r.revision, guidance |-> r.guidance]

OfflineTypeOK ==
  /\ trip \in 0 .. MaxChanges + 1 /\ guidance \in 1 .. MaxChanges + 1
  /\ packages \in Seq([revision : Nat \ {0}, guidance : Nat \ {0}])
  /\ \A t \in Tabs :
       /\ request[t].stage \in {"none", "reading", "guiding", "writing", "answered"}
       /\ tab[t] \in {"closed", "idle", "asking", "saving", "caching"}
       /\ tab[t] = "saving" => request[t].answer > 0
  \* A package on the device or on its way to it was made by the server.
  /\ trip # 0 => {device} \union {request[t].answer : t \in Tabs} \subseteq 0 .. Len(packages)
  /\ worker \subseteq Tabs /\ routes \in BOOLEAN /\ crossed \in BOOLEAN
  /\ session \in {"in", "cleared", "leaving", "out"}

---------------------------------------------------------------------------
\* generate: it reads the trip, then its places and guidance, and only then
\* locks the trip and checks that its revision is the one it read.
ReadTrip(t) ==
  /\ request[t].stage = "reading" /\ trip # 0
  /\ request' = [request EXCEPT ![t].stage = "guiding", ![t].revision = trip]
  /\ UNCHANGED <<server, tab, device, worker, routes, session, crossed>>

ReadGuidance(t) ==
  /\ request[t].stage = "guiding"
  /\ request' = [request EXCEPT ![t].stage = "writing", ![t].guidance = guidance]
  /\ UNCHANGED <<server, tab, device, worker, routes, session, crossed>>

\* The transaction: the latest package is reused when its content is the same.
\* Mutant: the package is always a new one.
WriteNew(t) ==
  /\ request[t].stage = "writing" /\ trip # 0 /\ trip = request[t].revision
  /\ packages' = Append(packages, Manifest(request[t]))
  /\ request' = [request EXCEPT ![t] = Replied(Len(packages'))]
  /\ UNCHANGED <<trip, guidance, tab, device, worker, routes, session, crossed>>
\* Mutant: the revision is not checked again.
WriteUnchecked(t) ==
  /\ request[t].stage = "writing" /\ trip # 0
  /\ packages' = Append(packages, Manifest(request[t]))
  /\ request' = [request EXCEPT ![t] = Replied(Len(packages'))]
  /\ UNCHANGED <<trip, guidance, tab, device, worker, routes, session, crossed>>
Write(t) ==
  /\ request[t].stage = "writing" /\ trip # 0 /\ trip = request[t].revision
  /\ LET reused == packages # <<>> /\ packages[Len(packages)] = Manifest(request[t]) IN
     /\ packages' = IF reused THEN packages ELSE Append(packages, Manifest(request[t]))
     /\ request' = [request EXCEPT ![t] = Replied(Len(packages'))]
  /\ UNCHANGED <<trip, guidance, tab, device, worker, routes, session, crossed>>

Retry(t) ==
  /\ request[t].stage = "writing" /\ trip # 0 /\ trip # request[t].revision
  /\ request[t].attempt < Attempts - 1
  /\ request' = [request EXCEPT ![t].stage = "reading", ![t].attempt = @ + 1]
  /\ UNCHANGED <<server, tab, device, worker, routes, session, crossed>>

\* Not found, a trip that changed repeatedly, a place that is no longer
\* active, a failing server, or an answer that is lost: the tab reports it,
\* unless it already gave up.
Fail(t) ==
  /\ request[t].stage # "none" /\ tab[t] # "saving"
  /\ request' = [request EXCEPT ![t] = NoRequest]
  /\ tab' = IF tab[t] = "asking" THEN [tab EXCEPT ![t] = "idle"] ELSE tab
  /\ UNCHANGED <<server, device, worker, routes, session, crossed>>

---------------------------------------------------------------------------
\* A tab opens the trip online, or from the device when the server is out of
\* reach, and reads what the device holds.  A server that refuses (401, 403,
\* 404) opens nothing.
Open(t) ==
  /\ tab[t] = "closed" /\ session = "in" /\ (trip # 0 \/ device # 0)
  /\ tab' = [tab EXCEPT ![t] = "idle"]
  /\ UNCHANGED <<server, request, device, worker, routes, session, crossed>>

\* Leaving the page aborts a download that has not reached the device.
Close(t) ==
  /\ tab[t] # "closed"
  /\ tab' = [tab EXCEPT ![t] = "closed"]
  /\ UNCHANGED <<server, request, device, worker, routes, session, crossed>>

Download(t) ==
  /\ tab[t] = "idle" /\ request[t].stage = "none" /\ session # "out"
  /\ tab' = [tab EXCEPT ![t] = "asking"]
  /\ request' = [request EXCEPT ![t] = [NoRequest EXCEPT !.stage = "reading"]]
  /\ crossed' = (crossed \/ session # "in")
  /\ UNCHANGED <<server, device, worker, routes, session>>

\* The answer arrives and fits the storage that is left, or it does not.
Answer(t) ==
  /\ request[t].stage = "answered" /\ tab[t] = "asking"
  /\ \/ tab' = [tab EXCEPT ![t] = "saving"] /\ UNCHANGED request
     \/ tab' = [tab EXCEPT ![t] = "idle"] /\ request' = [request EXCEPT ![t] = NoRequest]
  /\ UNCHANGED <<server, device, worker, routes, session, crossed>>

\* saveOfflinePackage commits one put, whatever the device holds, and the
\* service worker is asked to cache the pages; or the put fails.
Save(t) ==
  /\ tab[t] = "saving"
  /\ request' = [request EXCEPT ![t] = NoRequest]
  /\ \/ /\ device' = request[t].answer /\ worker' = worker \union {t}
        /\ tab' = [tab EXCEPT ![t] = "caching"]
     \/ tab' = [tab EXCEPT ![t] = "idle"] /\ UNCHANGED <<device, worker>>
  /\ UNCHANGED <<server, routes, session, crossed>>

\* Cancel download aborts the request or the put; the server goes on.
Cancel(t) ==
  /\ tab[t] \in {"asking", "saving"}
  /\ tab' = [tab EXCEPT ![t] = "idle"]
  /\ UNCHANGED <<server, request, device, worker, routes, session, crossed>>

\* The worker fetches the pages with the session's cookies (a redirect to
\* the sign-in page is not kept) and answers; the tab waits ten seconds.
CacheRoutes(t) ==
  /\ t \in worker /\ worker' = worker \ {t}
  /\ routes' = (routes \/ session # "out")
  /\ tab' = IF tab[t] = "caching" THEN [tab EXCEPT ![t] = "idle"] ELSE tab
  /\ UNCHANGED <<server, request, device, session, crossed>>

CacheTimeout(t) ==
  /\ tab[t] = "caching"
  /\ tab' = [tab EXCEPT ![t] = "idle"]
  /\ UNCHANGED <<server, request, device, worker, routes, session, crossed>>

Remove(t) ==
  /\ tab[t] = "idle" /\ device # 0
  /\ device' = 0
  /\ UNCHANGED <<server, request, tab, worker, routes, session, crossed>>

---------------------------------------------------------------------------
\* signOutSafely: clear IndexedDB, drop the cached pages, end the session.
Busy == worker # {} \/ \E t \in Tabs : tab[t] \in Working
\* Mutant: the copies of the other pages stay.
ClearNothing ==
  /\ session = "in" /\ session' = "cleared" /\ crossed' = (crossed \/ Busy)
  /\ UNCHANGED <<server, request, tab, device, worker, routes>>
ClearDevice ==
  /\ session = "in" /\ session' = "cleared" /\ device' = 0
  /\ crossed' = (crossed \/ Busy)
  /\ UNCHANGED <<server, request, tab, worker, routes>>

DropRoutes ==
  /\ session = "cleared" /\ session' = "leaving" /\ routes' = FALSE
  /\ UNCHANGED <<server, request, tab, device, worker, crossed>>

EndSession ==
  /\ session = "leaving" /\ session' = "out"
  /\ UNCHANGED <<server, request, tab, device, worker, routes, crossed>>

\* The trip is edited or deleted, its guidance refreshed or withdrawn; after
\* the sign-out this changes nothing on the device (bound of the model).
Change ==
  /\ trip # 0 /\ session = "in"
  /\ \/ trip + guidance <= MaxChanges + 1 /\ trip' = trip + 1 /\ UNCHANGED <<guidance, packages>>
     \/ trip + guidance <= MaxChanges + 1 /\ guidance' = guidance + 1 /\ UNCHANGED <<trip, packages>>
     \/ trip' = 0 /\ packages' = <<>> /\ UNCHANGED guidance
  /\ UNCHANGED <<request, tab, device, worker, routes, session, crossed>>

OfflineInit ==
  /\ trip = 1 /\ guidance = 1 /\ packages = <<>>
  /\ request = [t \in Tabs |-> NoRequest] /\ tab = [t \in Tabs |-> "closed"]
  /\ device = 0 /\ worker = {} /\ routes = FALSE /\ session = "in" /\ crossed = FALSE

Goes(t) ==
  \/ ReadTrip(t) \/ ReadGuidance(t) \/ Write(t) \/ Retry(t) \/ Fail(t)
  \/ Answer(t) \/ Save(t) \/ CacheTimeout(t)

OfflineNext ==
  \/ \E t \in Tabs : Goes(t) \/ Open(t) \/ Close(t) \/ Download(t) \/ Cancel(t)
                     \/ CacheRoutes(t) \/ Remove(t)
  \/ ClearDevice \/ DropRoutes \/ EndSession \/ Change

OfflineSpec == OfflineInit /\ [][OfflineNext]_offlineVars

---------------------------------------------------------------------------
\* However downloads and edits overlap, a new package holds the trip as it is
\* when the package is written, and differs from the one before it.
PackagesAreCurrent == [][packages' # packages /\ trip' # 0 =>
  /\ Len(packages') = Len(packages) + 1
  /\ packages'[Len(packages')].revision = trip]_offlineVars

NoTwinPackages == \A n \in 2 .. Len(packages) : packages[n] # packages[n - 1]

\* The copies of the server and of the device: no package twice in a row, and
\* nothing on the device the server has not made.
PackagesAreSound == OfflineTypeOK /\ NoTwinPackages

\* "Signing out removes this account's offline downloads from this browser":
\* true when nothing was on its way to the device while it was cleared.
SignOutClears == session = "out" /\ ~crossed => device = 0 /\ ~routes

=============================================================================
