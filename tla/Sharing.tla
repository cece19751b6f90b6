------------------------------ MODULE Sharing ------------------------------
(***************************************************************************)
(* Read-only links to one trip (packages/db/src/authorization.ts,          *)
(* share-repository.ts) and the controls of its owner.  A link opens the   *)
(* trip while it is neither revoked nor expired and trips.visibility is    *)
(* 'link'.  Creation and revocation are READ COMMITTED transactions of     *)
(* several statements: they see what others committed, and wait where      *)
(* their row locks conflict.                                               *)
(***************************************************************************)
EXTENDS Integers, FiniteSets

CONSTANTS
  Links,      \* rows of share_links, by token
  Requests,   \* requests the API works on at once
  Lifetimes,  \* the expiries a user may choose, in ticks
  MaxTime     \* bound of the model

ASSUME SharingAssumption == Lifetimes \subseteq Nat \ {0} /\ MaxTime \in Nat

VARIABLES
  exists, visible,   \* the trip's row: there, and visibility = 'link'
  link,              \* share_links
  now,
  tx,                \* [request -> its transaction]
  keyShared,         \* transactions whose insert holds the trip FOR KEY SHARE
  locked,            \* the transaction that updates the trip, or holds it FOR UPDATE
  audit,             \* audit_events, written with the change they record
  byHand,            \* the visibility was last written by updateTrip
  page               \* the owner's controls: links listed, an answer, what it said

db == <<exists, visible, link, now, tx, keyShared, locked, audit, byHand>>
vars == <<db, page>>

NoLink == [made |-> FALSE, expires |-> 0, revoked |-> FALSE]
Idle == [op |-> "none"]
Free == [by |-> {}, full |-> FALSE]

\* statusFor: "active", at the time t.
Active(l, t) == link[l].made /\ ~link[l].revoked /\ link[l].expires > t
\* getSharedTrip, in one snapshot of the link and the trip.
Opens(l) == exists /\ visible /\ Active(l, now)

TypeOK ==
  /\ exists \in BOOLEAN /\ visible \in BOOLEAN /\ byHand \in BOOLEAN /\ now \in 0 .. MaxTime
  /\ link \in [Links -> [made : BOOLEAN, expires : Nat, revoked : BOOLEAN]]
  /\ audit \subseteq {"created", "revoked"} \X Links
  /\ DOMAIN tx = Requests /\ keyShared \subseteq Requests
  /\ locked.by \subseteq Requests /\ Cardinality(locked.by) <= 1
  /\ \A r \in Requests : r \in keyShared \union locked.by => tx[r] # Idle
  /\ page.listed \in [Links -> {"no", "active", "revoked"}]

Release(r) == keyShared' = keyShared \ {r} /\ locked' = IF r \in locked.by THEN Free ELSE locked

---------------------------------------------------------------------------
\* createShareLink.  The insert takes the trip FOR KEY SHARE (its foreign
\* key), which waits for FOR UPDATE; the update waits for any other writer.
Insert(r, l) ==
  /\ tx[r] = Idle /\ exists /\ ~link[l].made
  /\ \A s \in Requests : tx[s].op \in {"create", "created"} => tx[s].link # l
  /\ ~locked.full
  /\ \E d \in Lifetimes : tx' = [tx EXCEPT ![r] = [op |-> "create", link |-> l, expires |-> now + d]]
  /\ keyShared' = keyShared \union {r}
  /\ UNCHANGED <<exists, visible, link, now, locked, audit, byHand, page>>

\* Mutant: the update waits for everyone who holds the row.
PublishAlone(r) ==
  /\ tx[r].op = "create" /\ locked = Free /\ keyShared = {r}
  /\ locked' = [by |-> {r}, full |-> FALSE]
  /\ tx' = [tx EXCEPT ![r].op = "created"]
  /\ UNCHANGED <<exists, visible, link, now, keyShared, audit, byHand, page>>
Publish(r) ==
  /\ tx[r].op = "create" /\ locked = Free
  /\ locked' = [by |-> {r}, full |-> FALSE]
  /\ tx' = [tx EXCEPT ![r].op = "created"]
  /\ UNCHANGED <<exists, visible, link, now, keyShared, audit, byHand, page>>

CommitCreation(r) ==
  /\ tx[r].op = "created"
  /\ link' = [link EXCEPT ![tx[r].link] = [made |-> TRUE, expires |-> tx[r].expires, revoked |-> FALSE]]
  /\ visible' = TRUE /\ byHand' = FALSE
  /\ tx' = [tx EXCEPT ![r] = Idle] /\ Release(r)
  /\ audit' = audit \union {<<"created", tx[r].link>>}
  /\ page' = [page EXCEPT !.answer = [op |-> "created", link |-> tx[r].link]]
  /\ UNCHANGED <<exists, now>>

\* revokeShareLink.  SELECT ... FOR UPDATE locks the rows of the link, the
\* trip and its owner, and reads the link again after it waited.
\* Mutant: it locks nothing.
FindUnlocked(r, l) ==
  /\ tx[r] = Idle /\ exists /\ link[l].made /\ ~link[l].revoked
  /\ tx' = [tx EXCEPT ![r] = [op |-> "revoke", link |-> l, at |-> now]]
  /\ UNCHANGED <<exists, visible, link, now, keyShared, locked, audit, byHand, page>>
Find(r, l) ==
  /\ tx[r] = Idle /\ exists /\ link[l].made /\ ~link[l].revoked
  /\ locked = Free /\ keyShared = {}
  /\ locked' = [by |-> {r}, full |-> TRUE]
  /\ tx' = [tx EXCEPT ![r] = [op |-> "revoke", link |-> l, at |-> now]]
  /\ UNCHANGED <<exists, visible, link, now, keyShared, audit, byHand, page>>

\* Is another link active?
LookForOthers(r) ==
  /\ tx[r].op = "revoke"
  /\ tx' = [tx EXCEPT ![r] = [op |-> "revoked", link |-> tx[r].link,
       last |-> ~\E l \in Links \ {tx[r].link} : Active(l, tx[r].at)]]
  /\ UNCHANGED <<exists, visible, link, now, keyShared, locked, audit, byHand, page>>

\* Mutant: the trip stays visible.
CommitVisible(r) ==
  /\ tx[r].op = "revoked"
  /\ link' = [link EXCEPT ![tx[r].link].revoked = TRUE]
  /\ tx' = [tx EXCEPT ![r] = Idle] /\ Release(r)
  /\ audit' = audit \union {<<"revoked", tx[r].link>>}
  /\ page' = [page EXCEPT !.answer = [op |-> "revoked", link |-> tx[r].link]]
  /\ UNCHANGED <<exists, visible, byHand, now>>
CommitRevocation(r) ==
  /\ tx[r].op = "revoked"
  /\ link' = [link EXCEPT ![tx[r].link].revoked = TRUE]
  /\ visible' = (visible /\ ~tx[r].last)
  /\ byHand' = (byHand /\ ~tx[r].last)
  /\ tx' = [tx EXCEPT ![r] = Idle] /\ Release(r)
  /\ audit' = audit \union {<<"revoked", tx[r].link>>}
  /\ page' = [page EXCEPT !.answer = [op |-> "revoked", link |-> tx[r].link]]
  /\ UNCHANGED <<exists, now>>

\* updateTrip may write the visibility, deleteTrip takes the links with it;
\* each locks the trip FOR UPDATE.
SetVisibility(v) ==
  /\ exists /\ locked = Free /\ keyShared = {}
  /\ visible' = v /\ byHand' = TRUE
  /\ UNCHANGED <<exists, link, now, tx, keyShared, locked, audit, page>>

DeleteTrip ==
  /\ exists /\ locked = Free /\ keyShared = {}
  /\ exists' = FALSE /\ visible' = FALSE
  /\ link' = [l \in Links |-> [link[l] EXCEPT !.revoked = TRUE]]
  /\ UNCHANGED <<now, tx, keyShared, locked, audit, byHand, page>>

---------------------------------------------------------------------------
\* TripShareControls: an answer updates the list; it may also be lost.  The
\* list asked for on mount replaces it.
NoAnswer == [op |-> "none"]

Answered ==
  /\ page.answer # NoAnswer
  /\ page' = [page EXCEPT !.answer = NoAnswer,
       !.listed[page.answer.link] = IF page.answer.op = "created" THEN "active" ELSE "revoked",
       !.told = IF page.answer.op = "revoked" THEN @ \union {page.answer.link} ELSE @]
  /\ UNCHANGED db

AnswerLost ==
  /\ page.answer # NoAnswer
  /\ page' = [page EXCEPT !.answer = NoAnswer]
  /\ UNCHANGED db

ListLinks ==
  /\ exists /\ page.listed = [l \in Links |-> "no"]
  /\ page' = [page EXCEPT !.listed = [l \in Links |->
       IF ~link[l].made THEN "no" ELSE IF Active(l, now) THEN "active" ELSE "revoked"]]
  /\ UNCHANGED db

Tick == now < MaxTime /\ now' = now + 1 /\ UNCHANGED <<exists, visible, link, tx, keyShared, locked, audit, byHand, page>>

---------------------------------------------------------------------------
Init ==
  /\ exists = TRUE /\ visible \in BOOLEAN /\ byHand = TRUE /\ audit = {}
  /\ link = [l \in Links |-> NoLink] /\ now = 0
  /\ tx = [r \in Requests |-> Idle] /\ keyShared = {} /\ locked = Free
  /\ page = [listed |-> [l \in Links |-> "no"], answer |-> NoAnswer, told |-> {}]

Works(r) == Publish(r) \/ CommitCreation(r) \/ LookForOthers(r) \/ CommitRevocation(r)

Next ==
  \/ \E r \in Requests, l \in Links : Insert(r, l) \/ Find(r, l)
  \/ \E r \in Requests : Works(r)
  \/ \E v \in BOOLEAN : SetVisibility(v)
  \/ DeleteTrip \/ Answered \/ AnswerLost \/ ListLinks \/ Tick

Spec == Init /\ [][Next]_vars

\* A transaction goes on while its locks let it.
FairSpec == Spec /\ \A r \in Requests : WF_vars(Works(r))

---------------------------------------------------------------------------
\* Unless the owner hid the trip, every active link opens it, however
\* creations and revocations overlapped.
ActiveLinksOpen == \A l \in Links : exists /\ Active(l, now) /\ ~byHand => visible

\* A trip whose links were all revoked is private again.
LastRevocationHides ==
  (\A r \in Requests : tx[r] = Idle) /\ ~byHand /\ (\A l \in Links : ~Active(l, 0)) => ~visible

\* "It can no longer open this trip": what the owner was told stays true.
RevokedMeansClosed == \A l \in page.told : ~Opens(l)

\* What the owner, the recipient of a link and the locks may rely on.
LinksAreSound == TypeOK /\ ActiveLinksOpen /\ RevokedMeansClosed

\* Every creation and revocation ends: no two of them wait for each other.
RequestsEnd == \A r \in Requests : tx[r] # Idle ~> tx[r] = Idle
=============================================================================
